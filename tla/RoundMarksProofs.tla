-------------------------- MODULE RoundMarksProofs --------------------------
(* Proofs about what module RoundLoop remembers of a hand in flags: the first *)
(* round, ippatsu, riichi, the mark for nagashi mangan, and the draws these   *)
(* decide; and about where the indicators lie in the wall.                    *)
EXTENDS RoundLoopProofs

-----------------------------------------------------------------------------
(* What the steps do to the marks of an agent.                                *)

(* What a draw leaves alone.                                                  *)
Kept(a, i) ==
  /\ a[i].chi = agent[i].chi /\ a[i].pon = agent[i].pon /\ a[i].kui = agent[i].kui
  /\ a[i].riichi = agent[i].riichi /\ a[i].riichiAt = agent[i].riichiAt
  /\ a[i].nagashi = agent[i].nagashi /\ a[i].discards = agent[i].discards
  /\ a[i].river = agent[i].river /\ a[i].first = agent[i].first

(* The kinds of value the marks have.                                         *)
LEMMA MarkTypes ==
  ASSUME TypeOK, NEW i \in Seats
  PROVE  /\ agent[i].chi \in Nat /\ agent[i].pon \in Nat /\ agent[i].kui \in BOOLEAN
         /\ agent[i].declared \in BOOLEAN /\ agent[i].riichi \in 0..2
         /\ agent[i].riichiAt \in Nat /\ agent[i].ippatsu \in BOOLEAN
         /\ agent[i].nagashi \in BOOLEAN /\ agent[i].discards \in Nat
         /\ agent[i].river \in Nat /\ agent[i].first \in FirstTiles /\ kang[i] \in Nat
<1>1. agent[i] \in Agent /\ kang[i] \in Nat
  BY DEF TypeOK
<1> QED BY <1>1 DEF Agent

LEMMA NoIppatsuMarks ==
  ASSUME NEW a \in [Seats -> Agent], NEW i \in Seats
  PROVE  /\ ~NoIppatsu(a)[i].ippatsu
         /\ NoIppatsu(a)[i].chi = a[i].chi /\ NoIppatsu(a)[i].pon = a[i].pon
         /\ NoIppatsu(a)[i].kui = a[i].kui /\ NoIppatsu(a)[i].declared = a[i].declared
         /\ NoIppatsu(a)[i].riichi = a[i].riichi /\ NoIppatsu(a)[i].riichiAt = a[i].riichiAt
         /\ NoIppatsu(a)[i].nagashi = a[i].nagashi /\ NoIppatsu(a)[i].discards = a[i].discards
         /\ NoIppatsu(a)[i].river = a[i].river /\ NoIppatsu(a)[i].first = a[i].first
<1>1. a[i] \in Agent /\ NoIppatsu(a)[i] = [a[i] EXCEPT !.ippatsu = FALSE]
  BY DEF NoIppatsu
<1> QED BY <1>1 DEF Agent

LEMMA DrewMarks ==
  ASSUME IInv, pc \in {"draw", "rinshan"}, NEW i \in Seats
  PROVE  /\ Drew \in [Seats -> Agent] /\ Kept(Drew, i)
         /\ Drew[i].declared = agent[i].declared /\ Drew[i].ippatsu = agent[i].ippatsu
<1>1. /\ Drew \in [Seats -> Agent]
      /\ Drew[i] = agent[i] \/ Drew[i] = [agent[i] EXCEPT !.tiles = agent[i].tiles + 1]
  BY DrewTile
<1>2. agent[i] \in Agent
  BY DEF IInv, TypeOK
<1> QED BY <1>1, <1>2 DEF Kept, Agent

(* A draw that is kept or declares riichi ends ippatsu, and only riichi       *)
(* declares.                                                                  *)
LEMMA KeepMarks ==
  ASSUME IInv, DrawAndKeep, NEW i \in Seats
  PROVE  /\ Kept(agent', i) /\ agent'[i].declared = agent[i].declared
         /\ agent'[i].ippatsu = IF i = cur THEN FALSE ELSE agent[i].ippatsu
<1>1. /\ pc \in {"draw", "rinshan"} /\ cur \in Seats
      /\ agent' = [Drew EXCEPT ![cur].ippatsu = FALSE]
  BY DEF DrawAndKeep, IInv, TypeOK
<1>2. /\ Drew \in [Seats -> Agent] /\ Drew[i] \in Agent /\ Kept(Drew, i)
      /\ Drew[i].declared = agent[i].declared /\ Drew[i].ippatsu = agent[i].ippatsu
  BY <1>1, DrewMarks
<1>3. agent'[i] = IF i = cur THEN [Drew[i] EXCEPT !.ippatsu = FALSE] ELSE Drew[i]
  BY <1>1, <1>2
<1> HIDE DEF Drew
<1> QED BY <1>2, <1>3 DEF Kept, Agent

LEMMA DeclareMarks ==
  ASSUME IInv, DrawAndRiichi, NEW i \in Seats
  PROVE  /\ Kept(agent', i)
         /\ agent'[i].declared = IF i = cur THEN TRUE ELSE agent[i].declared
         /\ agent'[i].ippatsu = IF i = cur THEN FALSE ELSE agent[i].ippatsu
<1>1. /\ pc \in {"draw", "rinshan"} /\ cur \in Seats
      /\ agent' = [Drew EXCEPT ![cur].ippatsu = FALSE, ![cur].declared = TRUE]
  BY DEF DrawAndRiichi, IInv, TypeOK
<1>2. /\ Drew \in [Seats -> Agent] /\ Drew[i] \in Agent /\ Kept(Drew, i)
      /\ Drew[i].declared = agent[i].declared /\ Drew[i].ippatsu = agent[i].ippatsu
  BY <1>1, DrewMarks
<1>3. agent'[i] = IF i = cur THEN [Drew[i] EXCEPT !.ippatsu = FALSE, !.declared = TRUE]
                 ELSE Drew[i]
  BY <1>1, <1>2
<1> HIDE DEF Drew
<1> QED BY <1>2, <1>3 DEF Kept, Agent

LEMMA LastDrawMarks ==
  ASSUME IInv, DrawAndWin \/ DrawAndAbort, NEW i \in Seats
  PROVE  /\ Kept(agent', i) /\ agent'[i].declared = agent[i].declared
         /\ agent'[i].ippatsu = agent[i].ippatsu
<1>1. pc \in {"draw", "rinshan"} /\ agent' = Drew
  BY DEF DrawAndWin, DrawAndAbort
<1> QED BY <1>1, DrewMarks DEF Kept

(* A closed kan, and the announcement of an added one, end everybody's.       *)
LEMMA ClosedKanMarks ==
  ASSUME IInv, DrawAndClosedKan \/ DrawAndAddKan, NEW i \in Seats
  PROVE  /\ Kept(agent', i) /\ agent'[i].declared = agent[i].declared
         /\ ~agent'[i].ippatsu
<1> DEFINE a == NoIppatsu(Drew)
<1>1. /\ pc \in {"draw", "rinshan"} /\ cur \in Seats
      /\ agent' = a \/ agent' = [a EXCEPT ![cur].tiles = @ - 4]
  BY DEF DrawAndClosedKan, DrawAndAddKan, KanThenRinshan, IInv, TypeOK
<1>2. /\ Drew \in [Seats -> Agent] /\ Kept(Drew, i)
      /\ Drew[i].declared = agent[i].declared
  BY <1>1, DrewMarks
<1>3. a \in [Seats -> Agent]
  BY <1>2, NoIppatsuKeeps
<1>4. Kept(a, i) /\ a[i].declared = agent[i].declared /\ ~a[i].ippatsu
  BY <1>2, NoIppatsuMarks DEF Kept
<1> HIDE DEF a
<1>5. agent'[i] = a[i] \/ agent'[i] = [a[i] EXCEPT !.tiles = a[i].tiles - 4]
  BY <1>1, <1>3
<1>6. a[i] \in Agent
  BY <1>3
<1> QED BY <1>4, <1>5, <1>6 DEF Kept, Agent

(* The kan that is made of a triplet.                                         *)
LEMMA AddKanMarks ==
  ASSUME IInv, MakeAddKan, NEW i \in Seats
  PROVE  /\ agent'[i].chi = agent[i].chi
         /\ agent'[i].pon = agent[i].pon - (IF i = cur THEN 1 ELSE 0)
         /\ agent'[i].kui = agent[i].kui /\ agent'[i].declared = agent[i].declared
         /\ agent'[i].riichi = agent[i].riichi /\ agent'[i].riichiAt = agent[i].riichiAt
         /\ agent'[i].ippatsu = agent[i].ippatsu /\ agent'[i].nagashi = agent[i].nagashi
         /\ agent'[i].discards = agent[i].discards /\ agent'[i].river = agent[i].river
         /\ agent'[i].first = agent[i].first
<1>1. /\ cur \in Seats /\ agent \in [Seats -> Agent] /\ agent[i] \in Agent
      /\ agent' = [agent EXCEPT ![cur].tiles = @ - 1, ![cur].pon = @ - 1]
  BY DEF MakeAddKan, KanThenRinshan, IInv, TypeOK
<1>2. agent'[i] = IF i = cur
                 THEN [agent[i] EXCEPT !.tiles = agent[i].tiles - 1, !.pon = agent[i].pon - 1]
                 ELSE agent[i]
  BY <1>1 DEF Agent
<1> QED BY <1>1, <1>2 DEF Agent

LEMMA DiscardMarks ==
  ASSUME IInv, NEW tile \in FirstTiles, Discard(tile), NEW i \in Seats
  PROVE  /\ agent'[i].chi = agent[i].chi /\ agent'[i].pon = agent[i].pon
         /\ agent'[i].kui = agent[i].kui /\ agent'[i].declared = agent[i].declared
         /\ agent'[i].riichi = agent[i].riichi /\ agent'[i].riichiAt = agent[i].riichiAt
         /\ agent'[i].ippatsu = agent[i].ippatsu /\ agent'[i].nagashi = agent[i].nagashi
         /\ agent'[i].discards = agent[i].discards + (IF i = cur THEN 1 ELSE 0)
         /\ agent'[i].river = agent[i].river + (IF i = cur THEN 1 ELSE 0)
         /\ agent'[i].first = IF i = cur /\ agent[i].first = "none" THEN tile
                              ELSE agent[i].first
<1> DEFINE a == agent[i]
<1>1. /\ cur \in Seats /\ agent \in [Seats -> Agent] /\ a \in Agent
  BY DEF IInv, TypeOK
<1>2. agent'[i] = IF i = cur
        THEN [a EXCEPT !.tiles = a.tiles - 1, !.discards = a.discards + 1,
                       !.river = a.river + 1,
                       !.first = IF a.first = "none" THEN tile ELSE a.first,
                       !.standing = a.standing \/ flagged']
        ELSE a
  BY <1>1 DEF Discard, Agent
<1>3. a.discards \in Nat /\ a.river \in Nat
  BY <1>1 DEF Agent
<1> HIDE DEF a
<1> QED BY <1>1, <1>2, <1>3 DEF Agent, a

(* Riichi counts once the discard has survived.                               *)
Settles(i) == i = cur /\ agent[i].declared /\ agent[i].riichi = 0

LEMMA SettledMarks ==
  ASSUME IInv, NEW i \in Seats
  PROVE  /\ RiichiSettled \in [Seats -> Agent]
         /\ RiichiSettled[i].chi = agent[i].chi /\ RiichiSettled[i].pon = agent[i].pon
         /\ RiichiSettled[i].kui = agent[i].kui
         /\ RiichiSettled[i].declared = agent[i].declared
         /\ RiichiSettled[i].nagashi = agent[i].nagashi
         /\ RiichiSettled[i].discards = agent[i].discards
         /\ RiichiSettled[i].river = agent[i].river
         /\ RiichiSettled[i].first = agent[i].first
         /\ RiichiSettled[i].riichi =
              IF Settles(i) THEN IF firstRound THEN 2 ELSE 1 ELSE agent[i].riichi
         /\ RiichiSettled[i].ippatsu = IF Settles(i) THEN TRUE ELSE agent[i].ippatsu
         /\ RiichiSettled[i].riichiAt =
              IF Settles(i) THEN agent[i].discards ELSE agent[i].riichiAt
<1> DEFINE a == agent[i]
<1>1. /\ cur \in Seats /\ agent \in [Seats -> Agent] /\ a \in Agent
      /\ firstRound \in BOOLEAN
  BY DEF IInv, TypeOK
<1>2. RiichiSettled[i] =
        IF Settles(i)
        THEN [a EXCEPT !.riichi = IF firstRound THEN 2 ELSE 1, !.ippatsu = TRUE,
                       !.riichiAt = a.discards]
        ELSE a
  BY <1>1 DEF RiichiSettled, Agent, Settles
<1>3. RiichiSettled \in [Seats -> Agent]
  BY <1>1, SettledKeeps
<1> HIDE DEF a
<1> QED BY <1>1, <1>2, <1>3 DEF Agent, a

(* The discard is taken out of the river of cur, and nobody has ippatsu.      *)
LEMMA CalledMarks ==
  ASSUME IInv, pc = "answer", NEW i \in Seats
  PROVE  /\ Called \in [Seats -> Agent]
         /\ Called[i].chi = agent[i].chi /\ Called[i].pon = agent[i].pon
         /\ Called[i].kui = agent[i].kui /\ Called[i].declared = agent[i].declared
         /\ Called[i].nagashi = IF i = cur THEN FALSE ELSE agent[i].nagashi
         /\ Called[i].discards = agent[i].discards
         /\ Called[i].river = agent[i].river - (IF i = cur THEN 1 ELSE 0)
         /\ Called[i].first = agent[i].first
         /\ Called[i].riichi = RiichiSettled[i].riichi
         /\ ~Called[i].ippatsu
<1> DEFINE q == RiichiSettled[i]
           r == [q EXCEPT !.river = q.river - 1, !.nagashi = FALSE,
                          !.standing = q.standing /\ ~flagged, !.ippatsu = FALSE]
<1>1. Called \in [Seats -> Agent] /\ cur \in Seats
  BY CalledTiles DEF IInv, TypeOK
<1>2. /\ q.chi = agent[i].chi /\ q.pon = agent[i].pon /\ q.kui = agent[i].kui
      /\ q.declared = agent[i].declared /\ q.nagashi = agent[i].nagashi
      /\ q.discards = agent[i].discards /\ q.river = agent[i].river
      /\ q.first = agent[i].first
  BY SettledMarks
<1>3. RiichiSettled \in [Seats -> Agent]
  BY SettledMarks
<1>4. q \in Agent
  BY <1>3
<1>5. Called[i] = IF i = cur THEN r ELSE [q EXCEPT !.ippatsu = FALSE]
  BY <1>1, <1>3, <1>4 DEF Called, NoIppatsu, Agent
<1>6. agent[i].river \in Nat
  BY MarkTypes DEF IInv
<1> HIDE DEF q
<1>7. CASE i = cur
  <2>1. Called[i] = r
    BY <1>5, <1>7
  <2> QED BY <1>1, <1>2, <1>4, <1>6, <1>7, <2>1 DEF Agent, q
<1>8. CASE i # cur
  <2>1. Called[i] = [q EXCEPT !.ippatsu = FALSE]
    BY <1>5, <1>8
  <2> QED BY <1>1, <1>2, <1>4, <1>6, <1>8, <2>1 DEF Agent, q
<1> QED BY <1>7, <1>8

(* Seat i has taken the discard for a run, a triplet or a kan.                *)
LEMMA CallMarks ==
  ASSUME IInv, NEW ans \in Answers, NEW i \in Others(cur),
         CallChi(ans, i) \/ CallPon(ans, i) \/ CallKan(ans, i), NEW s \in Seats
  PROVE  /\ Melds(s)' = Melds(s) + (IF s = i THEN 1 ELSE 0)
         /\ s # i => agent'[s].chi = agent[s].chi /\ agent'[s].pon = agent[s].pon
         /\ agent'[s].kui = IF s = i THEN TRUE ELSE agent[s].kui
         /\ agent'[s].declared = agent[s].declared
         /\ agent'[s].nagashi = IF s = cur THEN FALSE ELSE agent[s].nagashi
         /\ agent'[s].discards = agent[s].discards
         /\ agent'[s].river = agent[s].river - (IF s = cur THEN 1 ELSE 0)
         /\ agent'[s].first = agent[s].first
         /\ agent'[s].riichi = RiichiSettled[s].riichi
         /\ ~agent'[s].ippatsu
<1> DEFINE a == Called[s]
<1>1. /\ pc = "answer" /\ i \in Seats /\ i # cur /\ cur \in Seats /\ kang \in [Seats -> Nat]
  BY DEF CallChi, CallPon, CallKan, Survives, Others, IInv, TypeOK
<1>2. /\ Called \in [Seats -> Agent] /\ a \in Agent
      /\ a.chi = agent[s].chi /\ a.pon = agent[s].pon
      /\ a.kui = agent[s].kui /\ a.declared = agent[s].declared
      /\ a.nagashi = IF s = cur THEN FALSE ELSE agent[s].nagashi
      /\ a.discards = agent[s].discards
      /\ a.river = agent[s].river - (IF s = cur THEN 1 ELSE 0)
      /\ a.first = agent[s].first
      /\ a.riichi = RiichiSettled[s].riichi /\ ~a.ippatsu
  BY <1>1, CalledMarks
<1>3. agent[s].chi \in Nat /\ agent[s].pon \in Nat /\ kang[s] \in Nat
  BY MarkTypes DEF IInv
<1>4. ASSUME s # i
      PROVE  agent'[s] = a /\ kang'[s] = kang[s]
  BY <1>1, <1>2, <1>4 DEF CallChi, CallPon, CallKan, KanThenRinshan
<1>5. ASSUME s = i
      PROVE  /\ agent'[s].chi + agent'[s].pon + kang'[s] = a.chi + a.pon + kang[s] + 1
             /\ agent'[s].kui /\ agent'[s].declared = a.declared
             /\ agent'[s].nagashi = a.nagashi /\ agent'[s].discards = a.discards
             /\ agent'[s].river = a.river /\ agent'[s].first = a.first
             /\ agent'[s].riichi = a.riichi /\ ~agent'[s].ippatsu
  <2>0. a \in Agent
    BY <1>2
  <2>1. a.chi \in Nat /\ a.pon \in Nat /\ ~a.ippatsu
    BY <1>2, <1>3
  <2>2. CASE CallChi(ans, i)
    <3>1. agent'[s] = [a EXCEPT !.tiles = a.tiles - 2, !.chi = a.chi + 1, !.kui = TRUE]
      BY <1>1, <1>2, <1>5, <2>2 DEF CallChi, Agent
    <3>2. kang' = kang
      BY <2>2 DEF CallChi
    <3> HIDE DEF a
    <3>3. /\ agent'[s].chi = a.chi + 1 /\ agent'[s].pon = a.pon /\ agent'[s].kui
          /\ agent'[s].declared = a.declared
          /\ agent'[s].nagashi = a.nagashi /\ agent'[s].discards = a.discards
          /\ agent'[s].river = a.river /\ agent'[s].first = a.first
          /\ agent'[s].riichi = a.riichi /\ agent'[s].ippatsu = a.ippatsu
      BY <2>0, <3>1 DEF Agent
    <3> QED BY <1>3, <2>1, <3>2, <3>3
  <2>3. CASE CallPon(ans, i)
    <3>1. agent'[s] = [a EXCEPT !.tiles = a.tiles - 2, !.pon = a.pon + 1, !.kui = TRUE]
      BY <1>1, <1>2, <1>5, <2>3 DEF CallPon, Agent
    <3>2. kang' = kang
      BY <2>3 DEF CallPon
    <3> HIDE DEF a
    <3>3. /\ agent'[s].chi = a.chi /\ agent'[s].pon = a.pon + 1 /\ agent'[s].kui
          /\ agent'[s].declared = a.declared
          /\ agent'[s].nagashi = a.nagashi /\ agent'[s].discards = a.discards
          /\ agent'[s].river = a.river /\ agent'[s].first = a.first
          /\ agent'[s].riichi = a.riichi /\ agent'[s].ippatsu = a.ippatsu
      BY <2>0, <3>1 DEF Agent
    <3> QED BY <1>3, <2>1, <3>2, <3>3
  <2>4. CASE CallKan(ans, i)
    <3>1. agent'[s] = [a EXCEPT !.tiles = a.tiles - 3, !.kui = TRUE]
      BY <1>1, <1>2, <1>5, <2>4 DEF CallKan, KanThenRinshan, Agent
    <3>2. kang'[s] = kang[s] + 1
      BY <1>1, <1>5, <2>4 DEF CallKan, KanThenRinshan
    <3> HIDE DEF a
    <3>3. /\ agent'[s].chi = a.chi /\ agent'[s].pon = a.pon /\ agent'[s].kui
          /\ agent'[s].declared = a.declared
          /\ agent'[s].nagashi = a.nagashi /\ agent'[s].discards = a.discards
          /\ agent'[s].river = a.river /\ agent'[s].first = a.first
          /\ agent'[s].riichi = a.riichi /\ agent'[s].ippatsu = a.ippatsu
      BY <2>0, <3>1 DEF Agent
    <3> QED BY <1>3, <2>1, <3>2, <3>3
  <2> QED BY <2>2, <2>3, <2>4
<1> HIDE DEF a
<1>6. Melds(s)' = Melds(s) + (IF s = i THEN 1 ELSE 0)
  <2>1. CASE s = i
    BY <1>2, <1>3, <1>5, <2>1 DEF Melds
  <2>2. CASE s # i
    BY <1>2, <1>3, <1>4, <2>2 DEF Melds
  <2> QED BY <2>1, <2>2
<1>7. CASE s = i
  BY <1>2, <1>5, <1>6, <1>7
<1>8. CASE s # i
  BY <1>2, <1>4, <1>6, <1>8
<1> QED BY <1>7, <1>8

-----------------------------------------------------------------------------
(* The invariant behind the marks.                                            *)

NoMelds == \A i \in Seats : Melds(i) = 0

\* How many seats after the dealer's, and whether a seat has discarded in this round.
Place(i) == (i + 4 - Oya) % 4
Turned(i) == Place(i) < Place(cur) \/ (i = cur /\ pc = "answer")

\* Without melds the seats discard in turn.
InTurn ==
  pc # "end" /\ NoMelds =>
    \A i \in Seats :
      agent[i].discards =
        agent[North].discards + (IF Turned(i) /\ ~Turned(North) THEN 1 ELSE 0)

\* Four winds can only be found on the table when they end the hand.
SameWind ==
  /\ NoMelds /\ \A i \in Seats : agent[i].discards > 0
  /\ \E w \in Winds : \A i \in Seats : agent[i].first = w
WindsSeen == SameWind /\ pc # "end" => pc = "answer" /\ firstRound /\ cur = North

\* A river only loses tiles, a first discard is remembered, open melds are marked.
Remembered ==
  \A i \in Seats :
    /\ agent[i].river <= agent[i].discards
    /\ agent[i].discards > 0 <=> agent[i].first # "none"
    /\ agent[i].chi + agent[i].pon > 0 => agent[i].kui

\* A declaration counts at the latest when the discard is settled, and somebody has
\* not declared.
Declared ==
  pc # "end" =>
    /\ \A i \in Seats : agent[i].declared =>
         agent[i].riichi # 0 \/ (i = cur /\ pc \in {"discard", "answer"})
    /\ \E i \in Seats : agent[i].riichi = 0

\* An announced kan has ended ippatsu.
NoneFresh == pc = "chankan" => \A i \in Seats : ~agent[i].ippatsu

MarksInv ==
  /\ FirstRoundExact /\ NagashiExact /\ IppatsuIsFresh /\ RiichiStaysClosed
  /\ InTurn /\ WindsSeen /\ Remembered /\ Declared /\ NoneFresh

(* The seats in the order of their turns, North being the last.               *)
LEMMA Places ==
  /\ North \in Seats /\ Place(North) = 3
  /\ \A i \in Seats : Place(i) \in 0..3
  /\ \A i, j \in Seats : Place(i) = Place(j) => i = j
  /\ \A i \in Seats : Place(Next1(i)) = IF i = North THEN 0 ELSE Place(i) + 1
<1>1. Oya \in {0, 1, 2, 3}
  BY OyaAssumption DEF Seats
<1>2. ASSUME NEW i \in {0, 1, 2, 3}, NEW j \in {0, 1, 2, 3}
      PROVE  /\ North \in Seats /\ Place(North) = 3 /\ Place(i) \in 0..3
             /\ Place(i) = Place(j) => i = j
             /\ Place(Next1(i)) = IF i = North THEN 0 ELSE Place(i) + 1
  <2>1. CASE Oya = 0
    BY <1>2, <2>1 DEF Seats, North, Place, Next1
  <2>2. CASE Oya = 1
    BY <1>2, <2>2 DEF Seats, North, Place, Next1
  <2>3. CASE Oya = 2
    BY <1>2, <2>3 DEF Seats, North, Place, Next1
  <2>4. CASE Oya = 3
    BY <1>2, <2>4 DEF Seats, North, Place, Next1
  <2> QED BY <1>1, <2>1, <2>2, <2>3, <2>4
<1> QED BY <1>2, SeatsFour

LEMMA MarksInit == Init => MarksInv
<1> SUFFICES ASSUME Init PROVE MarksInv
  OBVIOUS
<1>1. /\ agent = [i \in Seats |-> NewAgent] /\ kang = [i \in Seats |-> 0]
      /\ firstRound = TRUE /\ cur = Oya /\ pc = "draw"
  BY DEF Init
<1>2. \A i \in Seats : agent[i] = NewAgent /\ Melds(i) = 0
  BY <1>1 DEF Melds, NewAgent
<1>3. North \in Seats /\ Place(Oya) = 0 /\ \A i \in Seats : Place(i) \in 0..3
  BY Places, OyaAssumption DEF Place, Seats
<1>4. FirstRoundExact /\ NagashiExact /\ IppatsuIsFresh /\ RiichiStaysClosed
  BY <1>1, <1>2, <1>3 DEF FirstRoundExact, NagashiExact, IppatsuIsFresh, RiichiStaysClosed,
                          NewAgent
<1>5. InTurn
  BY <1>1, <1>2, <1>3 DEF InTurn, Turned, NewAgent
<1>6. WindsSeen /\ Remembered /\ Declared /\ NoneFresh
  BY <1>1, <1>2, SeatsFour DEF WindsSeen, SameWind, Remembered, Declared, NoneFresh, NewAgent
<1> QED BY <1>4, <1>5, <1>6 DEF MarksInv

-----------------------------------------------------------------------------
(* Every step keeps it.                                                       *)

(* What only calls, discards and declarations change.                         *)
Basis(i) ==
  /\ agent'[i].chi = agent[i].chi /\ agent'[i].pon = agent[i].pon
  /\ agent'[i].kui = agent[i].kui /\ agent'[i].declared = agent[i].declared
  /\ agent'[i].nagashi = agent[i].nagashi /\ agent'[i].discards = agent[i].discards
  /\ agent'[i].river = agent[i].river /\ agent'[i].first = agent[i].first

(* The hand ends, with the riichi of the last discard settled or not.         *)
LEMMA EndKeepsMarks ==
  ASSUME IInv, MarksInv, pc' = "end",
         \A i \in Seats : Basis(i) /\
           \/ /\ agent'[i].riichi = agent[i].riichi /\ agent'[i].riichiAt = agent[i].riichiAt
              /\ agent'[i].ippatsu = agent[i].ippatsu
           \/ agent[i].declared /\ agent'[i].riichi # 0 /\ agent'[i].riichiAt = agent[i].discards
  PROVE  MarksInv'
<1>1. NagashiExact' /\ RiichiStaysClosed' /\ Remembered'
  BY DEF MarksInv, NagashiExact, RiichiStaysClosed, Remembered, Basis
<1>2. IppatsuIsFresh'
  BY DEF MarksInv, IppatsuIsFresh, Basis
<1>3. FirstRoundExact' /\ InTurn' /\ WindsSeen' /\ Declared' /\ NoneFresh'
  BY DEF FirstRoundExact, InTurn, WindsSeen, Declared, NoneFresh
<1> QED BY <1>1, <1>2, <1>3 DEF MarksInv

(* The drawing player keeps the tile, and may have declared riichi.           *)
LEMMA DrawnKeepsMarks ==
  ASSUME IInv, MarksInv, DrawAndKeep \/ DrawAndRiichi PROVE MarksInv'
<1>1. /\ pc \in {"draw", "rinshan"} /\ pc' = "discard"
      /\ cur' = cur /\ firstRound' = firstRound /\ kang' = kang
      /\ cur \in Seats
  BY DEF DrawAndKeep, DrawAndRiichi, IInv, TypeOK
<1>2. ASSUME NEW i \in Seats
      PROVE  /\ Kept(agent', i) /\ Melds(i)' = Melds(i)
             /\ agent'[i].ippatsu => i # cur /\ agent[i].ippatsu
             /\ \/ agent'[i].declared = agent[i].declared
                \/ agent'[i].declared /\ i = cur /\ ~agent[i].kui
  <2>1. CASE DrawAndKeep
    BY <2>1, <1>1, KeepMarks DEF Kept, Melds
  <2>2. CASE DrawAndRiichi
    <3>1. /\ Kept(agent', i)
          /\ agent'[i].declared = IF i = cur THEN TRUE ELSE agent[i].declared
          /\ agent'[i].ippatsu = IF i = cur THEN FALSE ELSE agent[i].ippatsu
      BY <2>2, DeclareMarks
    <3>2. ~agent[cur].kui
      BY <2>2 DEF DrawAndRiichi
    <3>3. Melds(i)' = Melds(i)
      BY <1>1, <3>1 DEF Kept, Melds
    <3>4. CASE i = cur
      BY <3>1, <3>2, <3>3, <3>4
    <3>5. CASE i # cur
      BY <3>1, <3>3, <3>5
    <3> QED BY <3>4, <3>5
  <2> QED BY <2>1, <2>2
<1>3. FirstRoundExact' /\ NagashiExact' /\ Remembered'
  BY <1>1, <1>2, Places DEF MarksInv, FirstRoundExact, NagashiExact, Remembered, Kept
<1>4. IppatsuIsFresh'
  BY <1>1, <1>2 DEF MarksInv, IppatsuIsFresh, Kept
<1>5. RiichiStaysClosed'
  <2>1. ASSUME NEW i \in Seats, ~agent[i].kui PROVE agent[i].chi + agent[i].pon = 0
    BY <2>1, MarkTypes DEF MarksInv, Remembered, IInv
  <2> QED BY <1>2, <2>1 DEF MarksInv, RiichiStaysClosed, Kept
<1>6. InTurn'
  BY <1>1, <1>2, Places DEF MarksInv, InTurn, NoMelds, Turned, Kept
<1>7. WindsSeen'
  BY <1>1, <1>2 DEF MarksInv, WindsSeen, SameWind, NoMelds, Kept
<1>8. Declared' /\ NoneFresh'
  BY <1>1, <1>2 DEF MarksInv, Declared, NoneFresh, Kept
<1> QED BY <1>3, <1>4, <1>5, <1>6, <1>7, <1>8 DEF MarksInv

(* A closed kan, and the announcement of an added one.                        *)
LEMMA KanKeepsMarks ==
  ASSUME IInv, MarksInv, DrawAndClosedKan \/ DrawAndAddKan PROVE MarksInv'
<1>1. /\ pc \in {"draw", "rinshan"} /\ pc' \in {"rinshan", "chankan"}
      /\ cur' = cur /\ firstRound' = FALSE /\ cur \in Seats
  BY DEF DrawAndClosedKan, DrawAndAddKan, KanThenRinshan, IInv, TypeOK
<1>2. ASSUME NEW i \in Seats
      PROVE  Kept(agent', i) /\ agent'[i].declared = agent[i].declared /\ ~agent'[i].ippatsu
  BY ClosedKanMarks
<1>3. Melds(cur)' # 0
  <2>1. agent[cur].chi \in Nat /\ agent[cur].pon \in Nat /\ kang[cur] \in Nat
    BY <1>1, MarkTypes DEF IInv
  <2>2. /\ agent'[cur].chi = agent[cur].chi /\ agent'[cur].pon = agent[cur].pon
        /\ Melds(cur)' = agent'[cur].chi + agent'[cur].pon + kang'[cur]
    BY <1>1, <1>2 DEF Kept, Melds
  <2>3. CASE DrawAndClosedKan
    <3>1. kang'[cur] = kang[cur] + 1
      BY <1>1, <2>3 DEF DrawAndClosedKan, KanThenRinshan, IInv, TypeOK
    <3> QED BY <1>1, <2>1, <2>2, <3>1
  <2>4. CASE DrawAndAddKan
    <3>1. kang' = kang /\ agent[cur].pon > 0
      BY <2>4 DEF DrawAndAddKan
    <3> QED BY <1>1, <2>1, <2>2, <3>1
  <2> QED BY <2>3, <2>4
<1>4. ~NoMelds' /\ ~(\A i \in Seats : Melds(i)' = 0)
  BY <1>1, <1>3 DEF NoMelds
<1>5. FirstRoundExact' /\ InTurn' /\ WindsSeen'
  BY <1>1, <1>4 DEF FirstRoundExact, InTurn, WindsSeen, SameWind
<1>6. NagashiExact' /\ RiichiStaysClosed' /\ Remembered' /\ Declared'
  BY <1>1, <1>2 DEF MarksInv, NagashiExact, RiichiStaysClosed, Remembered, Declared, Kept
<1>7. IppatsuIsFresh' /\ NoneFresh'
  BY <1>2 DEF IppatsuIsFresh, NoneFresh
<1> QED BY <1>5, <1>6, <1>7 DEF MarksInv

LEMMA AddedKanKeepsMarks ==
  ASSUME IInv, MarksInv, MakeAddKan PROVE MarksInv'
<1>1. /\ pc = "chankan" /\ pc' = "rinshan" /\ cur' = cur /\ firstRound' = firstRound
      /\ kang' = [kang EXCEPT ![cur] = @ + 1] /\ cur \in Seats /\ kang \in [Seats -> Nat]
      /\ agent[cur].pon > 0
  BY DEF MakeAddKan, KanThenRinshan, IInv, TypeOK, Ready
<1>2. ASSUME NEW i \in Seats
      PROVE  /\ Melds(i)' = Melds(i)
             /\ agent'[i].chi + agent'[i].pon > 0 => agent[i].chi + agent[i].pon > 0
             /\ agent[i].chi + agent[i].pon = 0 => agent'[i].chi + agent'[i].pon = 0
  <2>1. /\ agent'[i].chi = agent[i].chi
        /\ agent'[i].pon = agent[i].pon - (IF i = cur THEN 1 ELSE 0)
    BY AddKanMarks
  <2>2. kang'[i] = kang[i] + (IF i = cur THEN 1 ELSE 0)
    BY <1>1
  <2>3. agent[i].chi \in Nat /\ agent[i].pon \in Nat /\ kang[i] \in Nat
    BY MarkTypes DEF IInv
  <2> QED BY <1>1, <2>1, <2>2, <2>3 DEF Melds
<1>3. ASSUME NEW i \in Seats
      PROVE  /\ agent'[i].kui = agent[i].kui /\ agent'[i].declared = agent[i].declared
             /\ agent'[i].riichi = agent[i].riichi /\ ~agent'[i].ippatsu
             /\ agent'[i].nagashi = agent[i].nagashi
             /\ agent'[i].discards = agent[i].discards /\ agent'[i].river = agent[i].river
             /\ agent'[i].first = agent[i].first
  BY <1>1, AddKanMarks DEF MarksInv, NoneFresh
<1>4. FirstRoundExact' /\ NagashiExact'
  BY <1>1, <1>2, <1>3, Places DEF MarksInv, FirstRoundExact, NagashiExact
<1>5. IppatsuIsFresh' /\ NoneFresh'
  BY <1>1, <1>3 DEF IppatsuIsFresh, NoneFresh
<1>6. RiichiStaysClosed' /\ Remembered'
  BY <1>2, <1>3 DEF MarksInv, RiichiStaysClosed, Remembered
<1>7. InTurn'
  BY <1>1, <1>2, <1>3, Places DEF MarksInv, InTurn, NoMelds, Turned
<1>8. WindsSeen'
  BY <1>1, <1>2, <1>3 DEF MarksInv, WindsSeen, SameWind, NoMelds
<1>9. Declared'
  BY <1>1, <1>3 DEF MarksInv, Declared
<1> QED BY <1>4, <1>5, <1>6, <1>7, <1>8, <1>9 DEF MarksInv

(* A discard.                                                                 *)
LEMMA DiscardKeepsMarks ==
  ASSUME IInv, MarksInv, NEW tile \in FirstTiles, Discard(tile) PROVE MarksInv'
<1>1. /\ pc = "discard" /\ pc' = "answer" /\ cur' = cur /\ firstRound' = firstRound
      /\ kang' = kang /\ cur \in Seats /\ tile # "none"
  BY DEF Discard, IInv, TypeOK
<1>2. ASSUME NEW i \in Seats
      PROVE  /\ agent'[i].chi = agent[i].chi /\ agent'[i].pon = agent[i].pon
             /\ Melds(i)' = Melds(i)
             /\ agent'[i].kui = agent[i].kui /\ agent'[i].declared = agent[i].declared
             /\ agent'[i].riichi = agent[i].riichi /\ agent'[i].riichiAt = agent[i].riichiAt
             /\ agent'[i].ippatsu = agent[i].ippatsu /\ agent'[i].nagashi = agent[i].nagashi
             /\ agent'[i].discards = agent[i].discards + (IF i = cur THEN 1 ELSE 0)
             /\ agent'[i].river = agent[i].river + (IF i = cur THEN 1 ELSE 0)
             /\ agent'[i].first = IF i = cur /\ agent[i].first = "none" THEN tile
                                  ELSE agent[i].first
  BY <1>1, DiscardMarks DEF Melds
<1>3. \A i \in Seats : agent[i].discards \in Nat /\ agent[i].river \in Nat
  BY MarkTypes DEF IInv
<1>4. FirstRoundExact'
  <2>1. FirstRoundExact
    BY DEF MarksInv
  <2> QED BY <1>1, <1>2, <1>3, <2>1, Places DEF FirstRoundExact
<1>5. NagashiExact' /\ Remembered'
  BY <1>1, <1>2, <1>3 DEF MarksInv, NagashiExact, Remembered
<1>6. IppatsuIsFresh'
  BY <1>1, <1>2, <1>3 DEF MarksInv, IppatsuIsFresh
<1>7. RiichiStaysClosed' /\ Declared' /\ NoneFresh'
  BY <1>1, <1>2 DEF MarksInv, RiichiStaysClosed, Declared, NoneFresh
<1>8. InTurn'
  <2>1. SUFFICES ASSUME NoMelds', NEW i \in Seats
                 PROVE  agent'[i].discards = agent'[North].discards
                          + (IF Turned(i)' /\ ~Turned(North)' THEN 1 ELSE 0)
    BY DEF InTurn
  <2>2. NoMelds
    BY <1>2, <2>1 DEF NoMelds
  <2>3. /\ agent[i].discards = agent[North].discards
             + (IF Turned(i) /\ ~Turned(North) THEN 1 ELSE 0)
        /\ agent[cur].discards = agent[North].discards
             + (IF Turned(cur) /\ ~Turned(North) THEN 1 ELSE 0)
    BY <1>1, <2>1, <2>2 DEF MarksInv, InTurn
  <2>4. /\ Turned(i) <=> Place(i) < Place(cur)
        /\ Turned(i)' <=> Place(i) < Place(cur) \/ i = cur
        /\ ~Turned(North) /\ (Turned(North)' <=> cur = North)
        /\ ~Turned(cur)
    BY <1>1, <2>1, Places DEF Turned, Place
  <2>5. /\ Place(i) \in 0..3 /\ Place(cur) \in 0..3 /\ Place(North) = 3 /\ North \in Seats
        /\ Place(i) = Place(North) => i = North
    BY <1>1, <2>1, Places
  <2>6. /\ agent'[i].discards = agent[i].discards + (IF i = cur THEN 1 ELSE 0)
        /\ agent'[North].discards = agent[North].discards + (IF North = cur THEN 1 ELSE 0)
        /\ agent[i].discards \in Nat /\ agent[North].discards \in Nat
    BY <1>2, <1>3, <2>1, <2>5
  <2>7. CASE cur = North
    <3>1. i # North => Place(i) < Place(cur)
      BY <2>5, <2>7
    <3>2. Turned(North)' /\ ~Turned(North) /\ (i # North => Turned(i))
      BY <2>4, <2>7, <3>1
    <3>3. CASE i = North
      BY <2>6, <3>2, <3>3
    <3>4. CASE i # North
      BY <2>3, <2>6, <2>7, <3>2, <3>4
    <3> QED BY <3>3, <3>4
  <2>8. CASE cur # North
    <3>1. ~Turned(North)' /\ ~Turned(North)
      BY <2>4, <2>8
    <3>2. agent'[North].discards = agent[North].discards
      BY <2>6, <2>8
    <3>3. CASE i = cur
      <4>1. Turned(i)' /\ ~Turned(i)
        BY <2>4, <3>3
      <4> QED BY <2>3, <2>6, <3>1, <3>2, <3>3, <4>1
    <3>4. CASE i # cur
      <4>1. Turned(i)' <=> Turned(i)
        BY <2>4, <3>4
      <4>2. agent'[i].discards = agent[i].discards
        BY <2>6, <3>4
      <4> QED BY <2>3, <3>1, <3>2, <4>1, <4>2
    <3> QED BY <3>3, <3>4
  <2> QED BY <2>7, <2>8
<1>9. WindsSeen'
  <2>1. SUFFICES ASSUME SameWind' PROVE firstRound /\ cur = North
    BY <1>1 DEF WindsSeen
  <2>2. NoMelds
    BY <1>2, <2>1 DEF SameWind, NoMelds
  <2>3. agent[cur].discards = 0
    <3>1. SUFFICES ASSUME agent[cur].discards # 0 PROVE FALSE
      OBVIOUS
    <3>2. agent[cur].first # "none"
      BY <1>1, <1>3, <3>1 DEF MarksInv, Remembered
    <3>3. \A i \in Seats : agent[i].discards > 0 /\ agent'[i].first = agent[i].first
      BY <1>2, <1>3, <2>1, <3>1, <3>2 DEF SameWind
    <3>4. SameWind
      BY <2>1, <2>2, <3>3 DEF SameWind
    <3> QED BY <1>1, <3>4 DEF MarksInv, WindsSeen
  <2>4. agent[North].discards = 0
    <3>1. agent[cur].discards = agent[North].discards
             + (IF Turned(cur) /\ ~Turned(North) THEN 1 ELSE 0)
      BY <1>1, <2>2 DEF MarksInv, InTurn
    <3>2. ~Turned(cur) /\ North \in Seats
      BY <1>1, Places DEF Turned
    <3> QED BY <1>3, <2>3, <3>1, <3>2
  <2>5. cur = North
    BY <1>2, <2>1, <2>4, Places DEF SameWind
  <2>6. firstRound
    BY <1>1, <2>2, <2>4 DEF MarksInv, FirstRoundExact, NoMelds
  <2> QED BY <2>5, <2>6
<1> QED BY <1>4, <1>5, <1>6, <1>7, <1>8, <1>9 DEF MarksInv

(* The discard of a declared riichi settles it; nothing else is settled.      *)
SettledNow(i, r, ip, at) ==
  \/ agent[i].declared /\ agent[i].riichi = 0 /\ i = cur /\ r # 0 /\ ip /\ at = agent[i].discards
  \/ /\ ~(agent[i].declared /\ agent[i].riichi = 0 /\ i = cur)
     /\ r = agent[i].riichi /\ ip = agent[i].ippatsu /\ at = agent[i].riichiAt

LEMMA SettledCases ==
  ASSUME IInv, NEW i \in Seats
  PROVE  SettledNow(i, RiichiSettled[i].riichi, RiichiSettled[i].ippatsu,
                    RiichiSettled[i].riichiAt)
<1>1. CASE Settles(i)
  <2>1. /\ RiichiSettled[i].riichi = IF firstRound THEN 2 ELSE 1
        /\ RiichiSettled[i].ippatsu /\ RiichiSettled[i].riichiAt = agent[i].discards
    BY <1>1, SettledMarks
  <2>2. RiichiSettled[i].riichi # 0
    BY <2>1
  <2> QED BY <1>1, <2>1, <2>2 DEF Settles, SettledNow
<1>2. CASE ~Settles(i)
  BY <1>2, SettledMarks DEF Settles, SettledNow
<1> QED BY <1>1, <1>2

(* Nobody wants the discard.                                                  *)
LEMMA SettledKeepsMarks ==
  ASSUME IInv, MarksInv, NEW ans \in Answers, NobodyCalls(ans) PROVE MarksInv'
<1>1. /\ pc = "answer" /\ agent' = RiichiSettled /\ cur' = Next1(cur) /\ kang' = kang
      /\ (firstRound' <=> (firstRound /\ cur # North)) /\ ~FourWinds
      /\ agent[cur].riichi # 0 \/ \E i \in Seats : RiichiSettled[i].riichi = 0
      /\ pc' \in {"draw", "end"} /\ cur \in Seats
  BY DEF NobodyCalls, Survives, End, IInv, TypeOK
<1>2. ASSUME NEW i \in Seats
      PROVE  /\ Basis(i) /\ Melds(i)' = Melds(i)
             /\ SettledNow(i, agent'[i].riichi, agent'[i].ippatsu, agent'[i].riichiAt)
  BY <1>1, SettledMarks, SettledCases DEF Basis, Melds
<1>3. CASE pc' = "end"
  BY <1>2, <1>3, EndKeepsMarks DEF SettledNow
<1>4. CASE pc' = "draw"
  <2>1. \A i \in Seats : agent[i].discards \in Nat /\ agent[i].river \in Nat
    BY MarkTypes DEF IInv
  <2>2. FirstRoundExact'
    <3>1. firstRound <=> /\ \A i \in Seats : Melds(i) = 0
                         /\ agent[North].discards = (IF cur = North THEN 1 ELSE 0)
      BY <1>1 DEF MarksInv, FirstRoundExact
    <3>2. agent[cur].discards > 0
      BY <1>1, <2>1 DEF MarksInv, Remembered, IInv, Ready
    <3>3. agent'[North].discards = agent[North].discards
          /\ \A i \in Seats : Melds(i)' = Melds(i)
      BY <1>2, Places DEF Basis
    <3>4. agent[North].discards \in Nat /\ North \in Seats
      BY <2>1, Places
    <3>5. CASE cur = North
      <4>1. ~firstRound' /\ agent'[North].discards # 0
        BY <1>1, <3>2, <3>3, <3>4, <3>5
      <4> QED BY <1>4, <4>1 DEF FirstRoundExact
    <3>6. CASE cur # North
      <4>1. firstRound' <=> firstRound
        BY <1>1, <3>6
      <4> QED BY <1>4, <3>1, <3>3, <3>6, <4>1 DEF FirstRoundExact
    <3> QED BY <3>5, <3>6
  <2>3. NagashiExact' /\ Remembered'
    BY <1>2 DEF MarksInv, NagashiExact, Remembered, Basis
  <2>4. IppatsuIsFresh'
    BY <1>2, <1>4 DEF MarksInv, IppatsuIsFresh, Basis, SettledNow
  <2>5. RiichiStaysClosed'
    BY <1>2 DEF MarksInv, RiichiStaysClosed, Basis, SettledNow
  <2>6. Declared' /\ NoneFresh'
    <3>1. ASSUME NEW i \in Seats, agent'[i].declared PROVE agent'[i].riichi # 0
      BY <1>1, <1>2, <3>1 DEF MarksInv, Declared, Basis, SettledNow
    <3>2. \E i \in Seats : agent'[i].riichi = 0
      <4>1. CASE \E i \in Seats : RiichiSettled[i].riichi = 0
        BY <1>1, <4>1
      <4>2. CASE agent[cur].riichi # 0
        <5>1. PICK i \in Seats : agent[i].riichi = 0
          BY <1>1 DEF MarksInv, Declared
        <5> QED BY <1>2, <4>2, <5>1 DEF SettledNow
      <4> QED BY <1>1, <4>1, <4>2
    <3> QED BY <1>4, <3>1, <3>2 DEF Declared, NoneFresh
  <2>7. InTurn'
    <3>1. SUFFICES ASSUME NoMelds', NEW i \in Seats
                   PROVE  agent'[i].discards = agent'[North].discards
                            + (IF Turned(i)' /\ ~Turned(North)' THEN 1 ELSE 0)
      BY DEF InTurn
    <3>2. NoMelds
      BY <1>2, <3>1 DEF NoMelds
    <3>3. agent[i].discards = agent[North].discards
             + (IF Turned(i) /\ ~Turned(North) THEN 1 ELSE 0)
      BY <1>1, <3>1, <3>2 DEF MarksInv, InTurn
    <3>4. /\ Turned(i) <=> Place(i) < Place(cur) \/ i = cur
          /\ Turned(i)' <=> Place(i) < Place(Next1(cur))
          /\ Turned(North) <=> Place(North) < Place(cur) \/ North = cur
          /\ Turned(North)' <=> Place(North) < Place(Next1(cur))
      BY <1>1, <1>4 DEF Turned, Place
    <3>5. /\ Place(i) \in 0..3 /\ Place(cur) \in 0..3 /\ Place(North) = 3 /\ North \in Seats
          /\ Place(i) = Place(cur) => i = cur
          /\ Place(Next1(cur)) = IF cur = North THEN 0 ELSE Place(cur) + 1
      BY <1>1, <3>1, Places
    <3>6. agent'[i].discards = agent[i].discards /\ agent'[North].discards = agent[North].discards
      BY <1>2, <3>1, <3>5 DEF Basis
    <3>7. CASE cur = North
      <4>1. Turned(North) /\ ~Turned(i)'
        BY <3>4, <3>5, <3>7
      <4> QED BY <3>3, <3>6, <4>1
    <3>8. CASE cur # North
      <4>1. Place(Next1(cur)) = Place(cur) + 1 /\ Place(cur) # 3
        BY <1>1, <3>5, <3>8, Places
      <4>2. (Turned(i)' <=> Turned(i)) /\ (Turned(North)' <=> Turned(North))
        BY <3>4, <3>5, <3>8, <4>1
      <4> QED BY <3>3, <3>6, <4>2
    <3> QED BY <3>7, <3>8
  <2>8. WindsSeen'
    <3>1. SUFFICES ASSUME SameWind' PROVE FALSE
      BY DEF WindsSeen
    <3>2. SameWind
      <4>1. NoMelds
        BY <1>2, <3>1 DEF SameWind, NoMelds
      <4>2. \A i \in Seats : agent[i].discards > 0
        BY <1>2, <3>1 DEF SameWind, Basis
      <4>3. \E w \in Winds : \A i \in Seats : agent[i].first = w
        BY <1>2, <3>1 DEF SameWind, Basis
      <4> QED BY <4>1, <4>2, <4>3 DEF SameWind
    <3>3. firstRound /\ cur = North
      BY <1>1, <3>2 DEF MarksInv, WindsSeen
    <3> QED BY <1>1, <3>2, <3>3 DEF SameWind, FourWinds
  <2> QED BY <2>2, <2>3, <2>4, <2>5, <2>6, <2>7, <2>8 DEF MarksInv
<1> QED BY <1>1, <1>3, <1>4

(* Seat i has called the discard.                                             *)
LEMMA CallKeepsMarks ==
  ASSUME IInv, MarksInv, NEW ans \in Answers, NEW i \in Others(cur),
         CallChi(ans, i) \/ CallPon(ans, i) \/ CallKan(ans, i)
  PROVE  MarksInv'
<1>1. /\ pc = "answer" /\ pc' \in {"discard", "rinshan"} /\ firstRound' = FALSE /\ cur' = i
      /\ i \in Seats /\ i # cur /\ cur \in Seats /\ ans[i] \in {"chi", "pon", "kan"}
  BY DEF CallChi, CallPon, CallKan, KanThenRinshan, Survives, Others, IInv, TypeOK
<1>2. ASSUME NEW s \in Seats
      PROVE  /\ Melds(s)' = Melds(s) + (IF s = i THEN 1 ELSE 0)
             /\ s # i => agent'[s].chi = agent[s].chi /\ agent'[s].pon = agent[s].pon
             /\ agent'[s].kui = IF s = i THEN TRUE ELSE agent[s].kui
             /\ agent'[s].declared = agent[s].declared
             /\ agent'[s].nagashi = IF s = cur THEN FALSE ELSE agent[s].nagashi
             /\ agent'[s].discards = agent[s].discards
             /\ agent'[s].river = agent[s].river - (IF s = cur THEN 1 ELSE 0)
             /\ agent'[s].first = agent[s].first
             /\ agent'[s].riichi = RiichiSettled[s].riichi
             /\ ~agent'[s].ippatsu
  BY CallMarks
<1>3. \A s \in Seats : /\ agent[s].chi \in Nat /\ agent[s].pon \in Nat /\ kang[s] \in Nat
                       /\ agent[s].discards \in Nat /\ agent[s].river \in Nat
  BY MarkTypes DEF IInv
<1>4. \A s \in Seats : \/ (agent[s].declared /\ s = cur /\ RiichiSettled[s].riichi # 0)
                       \/ /\ ~(agent[s].declared /\ agent[s].riichi = 0 /\ s = cur)
                          /\ RiichiSettled[s].riichi = agent[s].riichi
  BY SettledCases DEF SettledNow
<1>5. agent[i].riichi = 0
  BY <1>1 DEF Answers
<1>6. ~NoMelds' /\ ~(\A s \in Seats : Melds(s)' = 0)
  <2>1. Melds(i)' = Melds(i) + 1
    BY <1>1, <1>2
  <2>2. Melds(i) \in Nat
    BY <1>1, <1>3 DEF Melds
  <2> QED BY <1>1, <2>1, <2>2 DEF NoMelds
<1>7. FirstRoundExact' /\ InTurn' /\ WindsSeen'
  BY <1>1, <1>6 DEF FirstRoundExact, InTurn, WindsSeen, SameWind
<1>8. NagashiExact'
  <2>1. ASSUME NEW s \in Seats
        PROVE  agent'[s].nagashi <=> agent'[s].river = agent'[s].discards
    <3>1. /\ agent[s].nagashi <=> agent[s].river = agent[s].discards
          /\ agent[s].river <= agent[s].discards
      BY DEF MarksInv, NagashiExact, Remembered
    <3>0. agent'[s].discards = agent[s].discards
          /\ agent[s].river \in Nat /\ agent[s].discards \in Nat
      BY <1>2, <1>3
    <3>2. CASE s = cur
      <4>1. ~agent'[s].nagashi /\ agent'[s].river = agent[s].river - 1
        BY <1>2, <3>2
      <4> QED BY <3>0, <3>1, <4>1
    <3>3. CASE s # cur
      <4>1. agent'[s].nagashi = agent[s].nagashi
        BY <1>2, <3>3
      <4>2. agent'[s].river = agent[s].river - 0
        BY <1>2, <3>3
      <4> QED BY <3>0, <3>1, <4>1, <4>2
    <3> QED BY <3>2, <3>3
  <2> QED BY <2>1 DEF NagashiExact
<1>9. Remembered'
  <2>1. ASSUME NEW s \in Seats
        PROVE  /\ agent'[s].river <= agent'[s].discards
               /\ agent'[s].discards > 0 <=> agent'[s].first # "none"
               /\ agent'[s].chi + agent'[s].pon > 0 => agent'[s].kui
    <3>1. agent'[s].river <= agent'[s].discards
      <4>1. agent'[s].river = agent[s].river - (IF s = cur THEN 1 ELSE 0)
            /\ agent'[s].discards = agent[s].discards
        BY <1>2
      <4>2. agent[s].river <= agent[s].discards
        BY DEF MarksInv, Remembered
      <4> QED BY <1>3, <4>1, <4>2
    <3>2. agent'[s].discards > 0 <=> agent'[s].first # "none"
      BY <1>2 DEF MarksInv, Remembered
    <3>3. agent'[s].chi + agent'[s].pon > 0 => agent'[s].kui
      BY <1>2 DEF MarksInv, Remembered
    <3> QED BY <3>1, <3>2, <3>3
  <2> QED BY <2>1 DEF Remembered
<1>10. IppatsuIsFresh' /\ NoneFresh'
  BY <1>2 DEF IppatsuIsFresh, NoneFresh
<1>11. RiichiStaysClosed'
  <2>1. SUFFICES ASSUME NEW s \in Seats, agent'[s].declared \/ agent'[s].riichi # 0
                 PROVE  ~agent'[s].kui /\ agent'[s].chi + agent'[s].pon = 0
    BY DEF RiichiStaysClosed
  <2>2. agent[s].declared \/ agent[s].riichi # 0
    BY <1>2, <1>4, <2>1
  <2>3. s # i
    BY <1>1, <1>5, <2>2 DEF MarksInv, Declared
  <2> QED BY <1>2, <2>2, <2>3 DEF MarksInv, RiichiStaysClosed
<1>12. Declared'
  <2>1. ASSUME NEW s \in Seats, agent'[s].declared PROVE agent'[s].riichi # 0
    <3>1. agent[s].declared /\ agent'[s].riichi = RiichiSettled[s].riichi
      BY <1>2, <2>1
    <3>2. agent[s].riichi # 0 \/ s = cur
      BY <1>1, <3>1 DEF MarksInv, Declared
    <3> QED BY <1>4, <3>1, <3>2
  <2>2. agent'[i].riichi = 0
    BY <1>1, <1>2, <1>4, <1>5
  <2> QED BY <1>1, <2>1, <2>2 DEF Declared
<1> QED BY <1>7, <1>8, <1>9, <1>10, <1>11, <1>12 DEF MarksInv

LEMMA MarksStep == IInv /\ MarksInv /\ [Next]_vars => MarksInv'
<1> SUFFICES ASSUME IInv, MarksInv, [Next]_vars PROVE MarksInv'
  OBVIOUS
<1>1. CASE DrawAndKeep \/ DrawAndRiichi
  BY <1>1, DrawnKeepsMarks
<1>2. CASE DrawAndWin \/ DrawAndAbort
  <2>1. pc' = "end" /\ \A i \in Seats : /\ Kept(agent', i)
                                        /\ agent'[i].declared = agent[i].declared
                                        /\ agent'[i].ippatsu = agent[i].ippatsu
    BY <1>2, LastDrawMarks DEF DrawAndWin, DrawAndAbort, End
  <2> QED BY <2>1, EndKeepsMarks DEF Kept, Basis
<1>3. CASE DrawAndClosedKan \/ DrawAndAddKan
  BY <1>3, KanKeepsMarks
<1>4. CASE \E w \in SUBSET Others(cur) : RobKan(w)
  <2>1. pc' = "end" /\ agent' = agent
    BY <1>4 DEF RobKan, EndByRon, End
  <2> QED BY <2>1, EndKeepsMarks DEF Basis
<1>5. CASE MakeAddKan
  BY <1>5, AddedKanKeepsMarks
<1>6. CASE \E tile \in FirstTiles : Discard(tile)
  BY <1>6, DiscardKeepsMarks
<1>7. CASE AnswerStep
  <2>1. PICK ans \in Answers :
          \/ Won(ans) \/ DiscardAborts(ans) \/ NobodyCalls(ans)
          \/ \E i \in Others(cur) : CallChi(ans, i) \/ CallPon(ans, i) \/ CallKan(ans, i)
    BY <1>7 DEF AnswerStep
  <2>2. CASE Won(ans) \/ (DiscardAborts(ans) /\ agent' = agent)
    <3>1. pc' = "end" /\ agent' = agent
      BY <2>2 DEF Won, EndByRon, DiscardAborts, End
    <3> QED BY <3>1, EndKeepsMarks DEF Basis
  <2>3. CASE DiscardAborts(ans) /\ agent' = RiichiSettled
    <3>1. pc' = "end"
      BY <2>3 DEF DiscardAborts, End
    <3>2. \A i \in Seats : Basis(i) /\
           \/ /\ agent'[i].riichi = agent[i].riichi /\ agent'[i].riichiAt = agent[i].riichiAt
              /\ agent'[i].ippatsu = agent[i].ippatsu
           \/ agent[i].declared /\ agent'[i].riichi # 0 /\ agent'[i].riichiAt = agent[i].discards
      BY <2>3, SettledMarks, SettledCases DEF Basis, SettledNow
    <3> QED BY <3>1, <3>2, EndKeepsMarks
  <2> QED BY <2>1, <2>2, <2>3, SettledKeepsMarks, CallKeepsMarks DEF DiscardAborts
<1>8. CASE UNCHANGED vars
  <2>1. /\ agent' = agent /\ kang' = kang /\ firstRound' = firstRound
        /\ cur' = cur /\ pc' = pc
    BY <1>8 DEF vars
  <2>2. FirstRoundExact' /\ NagashiExact' /\ IppatsuIsFresh' /\ RiichiStaysClosed'
    BY <2>1 DEF MarksInv, FirstRoundExact, NagashiExact, IppatsuIsFresh, RiichiStaysClosed,
                Melds
  <2>3. InTurn' /\ WindsSeen' /\ Remembered' /\ Declared' /\ NoneFresh'
    BY <2>1 DEF MarksInv, InTurn, Turned, Place, WindsSeen, SameWind, NoMelds, Melds,
                Remembered, Declared, NoneFresh
  <2> QED BY <2>2, <2>3 DEF MarksInv
<1> QED BY <1>1, <1>2, <1>3, <1>4, <1>5, <1>6, <1>7, <1>8 DEF Next, TurnStep, Done

LEMMA MarksKept == Spec => []MarksInv
<1> QED BY MarksInit, MarksStep, Inductive, PTL DEF Spec

(* The first round and the marks for nagashi mangan: the flags the loop keeps *)
(* say what happened, however the hand is played.                             *)
THEOREM MarksTrue == Spec => []MarksExact
<1>1. MarksInv => MarksExact
  BY DEF MarksInv, MarksExact
<1> QED BY <1>1, MarksKept, PTL

(* Ippatsu never outlives the next draw of its player or a call, and riichi is *)
(* never found together with an open meld.                                     *)
THEOREM RiichiTrue == Spec => []RiichiExact
<1>1. MarksInv => RiichiExact
  BY DEF MarksInv, RiichiExact
<1> QED BY <1>1, MarksKept, PTL

(* Four riichi and four equal winds are never played past.                    *)
THEOREM AbortsTaken == Spec => []AbortsHonoured
<1>1. MarksInv => AbortsHonoured
  BY DEF MarksInv, Declared, WindsSeen, SameWind, NoMelds, AbortsHonoured
<1> QED BY <1>1, MarksKept, PTL

-----------------------------------------------------------------------------
(* What single steps may do.                                                  *)

(* At an answer the seats before this one, and it, have discarded once more    *)
(* than the ones after it, so a first discard before any call is one in the    *)
(* first round.                                                                *)
LEMMA FirstDiscards ==
  ASSUME IInv, MarksInv, pc = "answer"
  PROVE  firstRound <=> agent[cur].discards = 1 /\ \A j \in Seats : Melds(j) = 0
<1>1. cur \in Seats /\ North \in Seats
  BY Places DEF IInv, TypeOK
<1>2. firstRound <=> /\ \A i \in Seats : Melds(i) = 0
                     /\ agent[North].discards = (IF cur = North THEN 1 ELSE 0)
  BY DEF MarksInv, FirstRoundExact
<1>3. SUFFICES ASSUME NoMelds
               PROVE  agent[North].discards = (IF cur = North THEN 1 ELSE 0)
                        <=> agent[cur].discards = 1
  BY <1>2 DEF NoMelds
<1>4. agent[cur].discards = agent[North].discards
        + (IF Turned(cur) /\ ~Turned(North) THEN 1 ELSE 0)
  BY <1>1, <1>3 DEF MarksInv, InTurn
<1>5. Turned(cur) /\ (Turned(North) <=> cur = North)
  BY <1>1, Places DEF Turned
<1>6. agent[North].discards \in Nat
  BY <1>1, MarkTypes DEF IInv
<1> QED BY <1>4, <1>5, <1>6

(* A step settles no riichi, or it settles the one of the last discard.       *)
LEMMA RiichiSteps ==
  ASSUME IInv, MarksInv, Next, NEW i \in Seats, agent'[i].riichi # agent[i].riichi
  PROVE  pc = "answer" /\ agent'[i].riichi = RiichiSettled[i].riichi
<1>1. CASE DrawAndKeep \/ DrawAndRiichi \/ DrawAndWin \/ DrawAndAbort
           \/ DrawAndClosedKan \/ DrawAndAddKan
  BY <1>1, KeepMarks, DeclareMarks, LastDrawMarks, ClosedKanMarks DEF Kept
<1>2. CASE MakeAddKan
  BY <1>2, AddKanMarks
<1>3. CASE \E tile \in FirstTiles : Discard(tile)
  BY <1>3, DiscardMarks
<1>4. CASE (\E w \in SUBSET Others(cur) : RobKan(w)) \/ Done
  BY <1>4 DEF RobKan, Done, vars
<1>5. CASE AnswerStep
  <2>1. PICK ans \in Answers :
          \/ Won(ans) \/ DiscardAborts(ans) \/ NobodyCalls(ans)
          \/ \E j \in Others(cur) : CallChi(ans, j) \/ CallPon(ans, j) \/ CallKan(ans, j)
    BY <1>5 DEF AnswerStep
  <2>2. pc = "answer"
    BY <1>5 DEF AnswerStep
  <2>3. CASE Won(ans) \/ DiscardAborts(ans) \/ NobodyCalls(ans)
    BY <2>2, <2>3 DEF Won, DiscardAborts, NobodyCalls
  <2>4. CASE \E j \in Others(cur) : CallChi(ans, j) \/ CallPon(ans, j) \/ CallKan(ans, j)
    BY <2>2, <2>4, CallMarks
  <2> QED BY <2>1, <2>3, <2>4
<1> QED BY <1>1, <1>2, <1>3, <1>4, <1>5 DEF Next, TurnStep

LEMMA DoubleStep ==
  ASSUME IInv, MarksInv, [Next]_vars, NEW i \in Seats, agent'[i].riichi # agent[i].riichi
  PROVE  agent'[i].riichi = 2 <=>
           agent[i].discards = 1 /\ \A j \in Seats : Melds(j) = 0
<1>1. Next
  BY DEF vars
<1>2. pc = "answer" /\ agent'[i].riichi = RiichiSettled[i].riichi
  BY <1>1, RiichiSteps
<1>3. Settles(i)
  BY <1>2, SettledMarks
<1>4. agent'[i].riichi = IF firstRound THEN 2 ELSE 1
  BY <1>2, <1>3, SettledMarks
<1> QED BY <1>2, <1>3, <1>4, FirstDiscards DEF Settles

(* Riichi is double exactly when it came with a first discard and nobody had   *)
(* called before.                                                              *)
THEOREM DoubleRiichi == Spec => DoubleRiichiExact
<1>1. IInv /\ MarksInv /\ [Next]_vars =>
        [\A i \in Seats : agent'[i].riichi # agent[i].riichi =>
          ( agent'[i].riichi = 2 <=>
              agent[i].discards = 1 /\ \A j \in Seats : Melds(j) = 0 )]_vars
  BY DoubleStep
<1> QED BY <1>1, Inductive, MarksKept, PTL DEF Spec, DoubleRiichiExact

LEMMA MeldStep ==
  ASSUME IInv, MarksInv, [Next]_vars, NEW i \in Seats, MeldChanged(i), NEW s \in Seats
  PROVE  ~agent'[s].ippatsu
<1>1. CASE DrawAndKeep \/ DrawAndRiichi \/ DrawAndWin \/ DrawAndAbort
  <2>1. kang' = kang /\ agent'[i].chi = agent[i].chi /\ agent'[i].pon = agent[i].pon
    BY <1>1, KeepMarks, DeclareMarks, LastDrawMarks
       DEF Kept, DrawAndKeep, DrawAndRiichi, DrawAndWin, DrawAndAbort
  <2> QED BY <2>1 DEF MeldChanged
<1>2. CASE DrawAndClosedKan \/ DrawAndAddKan
  BY <1>2, ClosedKanMarks
<1>3. CASE MakeAddKan
  <2>1. pc = "chankan"
    BY <1>3 DEF MakeAddKan
  <2> QED BY <1>3, <2>1, AddKanMarks DEF MarksInv, NoneFresh
<1>4. CASE \E tile \in FirstTiles : Discard(tile)
  <2>1. kang' = kang /\ agent'[i].chi = agent[i].chi /\ agent'[i].pon = agent[i].pon
    BY <1>4, DiscardMarks DEF Discard
  <2> QED BY <2>1 DEF MeldChanged
<1>5. CASE (\E w \in SUBSET Others(cur) : RobKan(w)) \/ Done \/ UNCHANGED vars
  BY <1>5 DEF RobKan, Done, vars, MeldChanged
<1>6. CASE AnswerStep
  <2>1. PICK ans \in Answers :
          \/ Won(ans) \/ DiscardAborts(ans) \/ NobodyCalls(ans)
          \/ \E j \in Others(cur) : CallChi(ans, j) \/ CallPon(ans, j) \/ CallKan(ans, j)
    BY <1>6 DEF AnswerStep
  <2>2. CASE Won(ans) \/ DiscardAborts(ans) \/ NobodyCalls(ans)
    <3>1. kang' = kang /\ (agent' = agent \/ agent' = RiichiSettled)
      BY <2>2 DEF Won, DiscardAborts, NobodyCalls
    <3>2. agent'[i].chi = agent[i].chi /\ agent'[i].pon = agent[i].pon
      BY <3>1, SettledMarks
    <3> QED BY <3>1, <3>2 DEF MeldChanged
  <2>3. CASE \E j \in Others(cur) : CallChi(ans, j) \/ CallPon(ans, j) \/ CallKan(ans, j)
    BY <2>3, CallMarks
  <2> QED BY <2>1, <2>2, <2>3
<1> QED BY <1>1, <1>2, <1>3, <1>4, <1>5, <1>6 DEF Next, TurnStep

(* Whoever calls a tile or makes a kan, a triplet turned into a kan included, *)
(* nobody's ippatsu survives it.                                              *)
THEOREM IppatsuEnds == Spec => IppatsuEndsWithCalls
<1>1. IInv /\ MarksInv /\ [Next]_vars =>
        [(\E i \in Seats : MeldChanged(i)) => \A i \in Seats : ~agent'[i].ippatsu]_vars
  BY MeldStep
<1> QED BY <1>1, Inductive, MarksKept, PTL DEF Spec, IppatsuEndsWithCalls

-----------------------------------------------------------------------------
(* Where the indicators lie.                                                  *)

\* The draws from the end of the wall so far.
Gone == Kans - (IF pc = "rinshan" THEN 1 ELSE 0)

\* But for its last tile, the wall is the first wall without as many tiles at its end.
WallInOrder == \A j \in 2..Len(yama) : FromEnd(yama, j) = j + Gone

\* The indicators lie on every other tile of the first wall, the first one apart.
DoraPlaces == \A k \in 1..Len(dora) : dora[k] = IF k = 1 THEN 6 ELSE 3 + 2 * k

WallInv == WallInOrder /\ DoraPlaces

LEMMA WallTypes ==
  ASSUME IInv
  PROVE  /\ yama \in Seq(Nat) /\ Len(yama) \in Nat /\ Len(yama) >= 14 /\ leftNum \in Nat
         /\ Len(yama) = leftNum + 14
         /\ dora \in Seq(Nat) /\ ura \in Seq(Nat) /\ Len(dora) = Kans + 1
         /\ Kans \in Nat /\ Kans <= MaxKans /\ MaxKans \in 0..8
BY KansNat, LoopBounds DEF IInv, TypeOK, Accounts, Ready, DeadWallKept, DeadTiles,
                           IndicatorsMatchKans

LEMMA PopKeeps ==
  ASSUME NEW s \in Seq(Nat), Len(s) >= 2, NEW k \in Nat, NEW p \in 1..(Len(s) - 2)
  PROVE  PopRinshan(s, k)[p] = s[p]
<1> DEFINE n == Len(s)
<1>1. n \in Nat /\ n >= 2 /\ p \in Int /\ 1 <= p /\ p <= n - 2
  OBVIOUS
<1>2. \A i \in 1..n : s[i] \in Nat
  OBVIOUS
<1>3. /\ SubSeq(s, 1, n - 2) \in Seq(Nat) /\ Len(SubSeq(s, 1, n - 2)) = n - 2
      /\ SubSeq(s, 1, n - 2)[p] = s[p]
  BY <1>1, <1>2
<1>4. SubSeq(s, 1, n - 1)[p] = s[p]
  BY <1>1, <1>2
<1>5. Append(SubSeq(s, 1, n - 2), s[n])[p] = s[p]
  BY <1>1, <1>3
<1> QED BY <1>4, <1>5 DEF PopRinshan

(* What was drawn from the end is gone from the end, whichever of the two      *)
(* last tiles it was.                                                          *)
LEMMA WallDrawn ==
  ASSUME IInv, WallInv, pc \in {"draw", "rinshan"}, TakeTile
  PROVE  /\ yama' \in Seq(Nat) /\ Len(yama') >= 14
         /\ \A j \in 2..Len(yama') : FromEnd(yama', j) = j + Kans
<1> DEFINE n == Len(yama)
<1>1. yama \in Seq(Nat) /\ n \in Nat /\ Kans \in Nat
  BY WallTypes
<1>2. yama' \in Seq(Nat) /\ Len(yama') = n - 1 /\ Len(yama') >= 14
  <2>1. leftNum > 0 /\ TypeOK /\ DeadWallKept
    BY DEF IInv, Ready, Accounts
  <2> QED BY <1>1, <2>1, TakeTileWall, WallTypes DEF DeadTiles
<1>3. \A j \in 2..n : yama[n + 1 - j] = j + Gone
  BY DEF WallInv, WallInOrder, FromEnd
<1>4. SUFFICES ASSUME NEW j \in 2..(n - 1)
               PROVE  yama'[n - j] = j + Kans
  BY <1>1, <1>2 DEF FromEnd
<1>7. j \in Int /\ 2 <= j /\ j <= n - 1 /\ j \in 2..n /\ j + 1 \in 2..n
  BY <1>1, <1>4
<1>5. CASE pc = "draw"
  <2>1. yama' = Tail(yama) /\ Gone = Kans
    BY <1>1, <1>5 DEF TakeTile, Gone
  <2>2. yama'[n - j] = yama[n + 1 - j]
    BY <1>1, <1>2, <1>4, <2>1
  <2>3. yama[n + 1 - j] = j + Gone
    BY <1>3, <1>7
  <2> QED BY <2>1, <2>2, <2>3
<1>6. CASE pc = "rinshan"
  <2>1. yama' = PopRinshan(yama, Kans) /\ Gone = Kans - 1
    BY <1>6 DEF TakeTile, Gone
  <2>2. yama'[n - j] = yama[n - j]
    <3>1. n - j \in 1..(n - 2)
      BY <1>1, <1>7
    <3>2. Len(yama) >= 2
      BY <1>1, <1>7
    <3>3. PopRinshan(yama, Kans)[n - j] = yama[n - j]
      BY <1>1, <3>1, <3>2, PopKeeps
    <3> QED BY <2>1, <3>3
  <2>3. yama[n + 1 - (j + 1)] = (j + 1) + Gone
    BY <1>3, <1>7
  <2>4. n + 1 - (j + 1) = n - j /\ (j + 1) + (Kans - 1) = j + Kans
    BY <1>1, <1>7
  <2> QED BY <2>1, <2>2, <2>3, <2>4
<1> QED BY <1>5, <1>6

(* An indicator is turned where the last one lies plus two.                    *)
LEMMA NextPlace ==
  ASSUME IInv, WallInv, Kans < MaxKans, NEW wall \in Seq(Nat), Len(wall) >= 14,
         \A j \in 2..Len(wall) : FromEnd(wall, j) = j + Kans, NewDora(wall, Kans + 1)
  PROVE  DoraPlaces'
<1>1. dora \in Seq(Nat) /\ Len(dora) = Kans + 1 /\ Kans \in 0..7 /\ Len(wall) \in Nat
  <2>1. /\ dora \in Seq(Nat) /\ Len(dora) = Kans + 1
        /\ Kans \in Nat /\ MaxKans \in 0..8
    BY WallTypes
  <2> QED BY <2>1
<1>2. dora' = Append(dora, 7 + 2 * Kans)
  <2>1. 6 + 2 * Len(dora) - (Kans + 1) = 7 + Kans
    BY <1>1
  <2>2. FromEnd(wall, 7 + Kans) = (7 + Kans) + Kans
    BY <1>1
  <2> QED BY <1>1, <2>1, <2>2 DEF NewDora
<1>3. \A k \in 1..(Kans + 1) : dora[k] = IF k = 1 THEN 6 ELSE 3 + 2 * k
  BY <1>1 DEF WallInv, DoraPlaces
<1>4. Len(dora') = Kans + 2
  BY <1>1, <1>2
<1>5. SUFFICES ASSUME NEW k \in 1..(Kans + 2)
               PROVE  dora'[k] = IF k = 1 THEN 6 ELSE 3 + 2 * k
  BY <1>4 DEF DoraPlaces
<1>6. CASE k = Kans + 2
  BY <1>1, <1>2, <1>6
<1>7. CASE k # Kans + 2
  <2>1. k \in 1..(Kans + 1) /\ dora'[k] = dora[k]
    BY <1>1, <1>2, <1>7
  <2> QED BY <1>3, <2>1
<1> QED BY <1>6, <1>7

LEMMA WallInit == Init => WallInv
<1> SUFFICES ASSUME Init PROVE WallInv
  OBVIOUS
<1> DEFINE n == LiveTiles + 14
<1>1. /\ yama = [p \in 1..n |-> n + 1 - p] /\ dora = <<FromEnd(yama, 6)>>
      /\ kang = [i \in Seats |-> 0] /\ pc = "draw" /\ n \in Nat /\ n > 14
  BY WallAssumption DEF Init, DeadTiles
<1>2. Len(yama) = n /\ \A j \in 1..n : FromEnd(yama, j) = j
  BY <1>1 DEF FromEnd
<1>3. Gone = 0
  BY <1>1, SeatsFour DEF Gone, Kans, SumSeats
<1>4. WallInOrder
  BY <1>1, <1>2, <1>3 DEF WallInOrder
<1>5. dora = <<6>>
  BY <1>1, <1>2
<1> QED BY <1>4, <1>5 DEF WallInv, DoraPlaces

LEMMA WallStep == IInv /\ WallInv /\ [Next]_vars => WallInv'
<1> SUFFICES ASSUME IInv, WallInv, [Next]_vars PROVE WallInv'
  OBVIOUS
<1>1. Kans \in Nat
  BY WallTypes
<1>2. CASE DrawAndKeep \/ DrawAndRiichi \/ DrawAndWin \/ DrawAndAbort \/ DrawAndAddKan
  <2>1. /\ pc \in {"draw", "rinshan"} /\ TakeTile /\ pc' # "rinshan"
        /\ dora' = dora /\ kang' = kang
    BY <1>2 DEF DrawAndKeep, DrawAndRiichi, DrawAndWin, DrawAndAbort, DrawAndAddKan, End
  <2>2. Gone' = Kans
    BY <1>1, <2>1 DEF Gone, Kans, SumSeats
  <2> QED BY <2>1, <2>2, WallDrawn DEF WallInv, WallInOrder, FromEnd, DoraPlaces
<1>3. CASE DrawAndClosedKan
  <2>1. /\ pc \in {"draw", "rinshan"} /\ TakeTile /\ pc' = "rinshan" /\ Kans < MaxKans
        /\ NewDora(yama', Kans + 1) /\ kang' = [kang EXCEPT ![cur] = @ + 1] /\ cur \in Seats
    BY <1>3 DEF DrawAndClosedKan, KanThenRinshan, IInv, TypeOK
  <2>2. Gone' = Kans
    <3>1. Kans' = Kans + 1
      BY <2>1, KansUp, IInvTypes
    <3> QED BY <1>1, <2>1, <3>1 DEF Gone
  <2>3. DoraPlaces'
    BY <2>1, WallDrawn, NextPlace
  <2> QED BY <2>1, <2>2, <2>3, WallDrawn DEF WallInv, WallInOrder, FromEnd
<1>4. ASSUME NEW i \in Seats, pc \in {"chankan", "answer"}, Kans < MaxKans, yama' = yama,
             pc' = "rinshan", NewDora(yama, Kans + 1), kang' = [kang EXCEPT ![i] = @ + 1]
      PROVE  WallInv'
  <2>1. Gone = Kans /\ Gone' = Kans
    <3>1. Kans' = Kans + 1
      BY <1>4, KansUp, IInvTypes
    <3> QED BY <1>1, <1>4, <3>1 DEF Gone
  <2>2. \A j \in 2..Len(yama) : FromEnd(yama, j) = j + Kans
    BY <2>1 DEF WallInv, WallInOrder
  <2>3. DoraPlaces'
    BY <1>4, <2>2, NextPlace, WallTypes
  <2> QED BY <1>4, <2>1, <2>2, <2>3 DEF WallInv, WallInOrder, FromEnd
<1>5. CASE MakeAddKan
  <2>1. /\ cur \in Seats /\ pc = "chankan" /\ Kans < MaxKans
        /\ yama' = yama /\ pc' = "rinshan" /\ NewDora(yama, Kans + 1)
        /\ kang' = [kang EXCEPT ![cur] = @ + 1]
    BY <1>5 DEF MakeAddKan, KanThenRinshan, IInv, TypeOK, Ready
  <2> QED BY <1>4, <2>1
<1>6. ASSUME pc \notin {"draw", "rinshan"}, pc' # "rinshan", UNCHANGED <<yama, dora, kang>>
      PROVE  WallInv'
  <2>1. Gone' = Gone
    BY <1>6 DEF Gone, Kans, SumSeats
  <2> QED BY <1>6, <2>1 DEF WallInv, WallInOrder, DoraPlaces, FromEnd
<1>7. CASE (\E tile \in FirstTiles : Discard(tile)) \/ (\E w \in SUBSET Others(cur) : RobKan(w))
  <2>1. /\ pc \notin {"draw", "rinshan"} /\ pc' # "rinshan"
        /\ UNCHANGED <<yama, dora, kang>>
    BY <1>7 DEF Discard, RobKan, EndByRon, End
  <2> QED BY <1>6, <2>1
<1>8. CASE AnswerStep
  <2>1. PICK ans \in Answers :
          \/ Won(ans) \/ DiscardAborts(ans) \/ NobodyCalls(ans)
          \/ \E i \in Others(cur) : CallChi(ans, i) \/ CallPon(ans, i) \/ CallKan(ans, i)
    BY <1>8 DEF AnswerStep
  <2>2. pc = "answer"
    BY <1>8 DEF AnswerStep
  <2>3. CASE \/ Won(ans) \/ DiscardAborts(ans) \/ NobodyCalls(ans)
             \/ \E i \in Others(cur) : CallChi(ans, i) \/ CallPon(ans, i)
    <3>1. pc' # "rinshan" /\ UNCHANGED <<yama, dora, kang>>
      BY <2>3 DEF Won, EndByRon, DiscardAborts, NobodyCalls, CallChi, CallPon, End
    <3> QED BY <1>6, <2>2, <3>1
  <2>4. ASSUME NEW i \in Others(cur), CallKan(ans, i) PROVE WallInv'
    <3>1. i \in Seats /\ Kans < MaxKans
      BY <2>2, <2>4, Claim DEF CallKan
    <3>2. /\ yama' = yama /\ pc' = "rinshan" /\ NewDora(yama, Kans + 1)
          /\ kang' = [kang EXCEPT ![i] = @ + 1]
      BY <2>4 DEF CallKan, KanThenRinshan
    <3> QED BY <1>4, <2>2, <3>1, <3>2
  <2> QED BY <2>1, <2>3, <2>4
<1>9. CASE UNCHANGED vars
  <2>1. UNCHANGED <<yama, dora, kang, pc>>
    BY <1>9 DEF vars
  <2> QED BY <2>1 DEF WallInv, WallInOrder, DoraPlaces, FromEnd, Gone, Kans, SumSeats
<1> QED BY <1>2, <1>3, <1>5, <1>7, <1>8, <1>9 DEF Next, TurnStep, Done

LEMMA WallKept == Spec => []WallInv
<1> QED BY WallInit, WallStep, Inductive, PTL DEF Spec

(* With at most four kans every indicator is a tile that stays in the wall,    *)
(* and no tile is turned up twice.                                             *)
THEOREM IndicatorsKept == Spec => []IndicatorsInWall
<1>1. ASSUME IInv, WallInv, Kans <= 4 PROVE IndicatorsInWall
  <2>1. /\ Len(yama) \in Nat /\ Len(yama) >= 14 /\ Kans \in 0..4 /\ yama \in Seq(Nat)
        /\ DOMAIN dora = 1..(Kans + 1)
    <3>1. /\ Len(yama) \in Nat /\ Len(yama) >= 14 /\ yama \in Seq(Nat)
          /\ Kans \in Nat /\ dora \in Seq(Nat) /\ Len(dora) = Kans + 1
      BY <1>1, WallTypes
    <3> QED BY <1>1, <3>1
  <2>2. \A k \in DOMAIN dora : dora[k] = IF k = 1 THEN 6 ELSE 3 + 2 * k
    BY <1>1, <2>1, WallTypes DEF WallInv, DoraPlaces
  <2>3. ASSUME NEW k \in DOMAIN dora PROVE \E p \in DOMAIN yama : yama[p] = dora[k]
    <3>1. Gone \in Int /\ 0 <= Gone + 1 /\ Gone <= 4
      BY <2>1 DEF Gone
    <3>2. dora[k] \in Int /\ 6 <= dora[k] /\ dora[k] <= 13
      <4>1. k \in Int /\ 1 <= k /\ k <= 5
        BY <2>1
      <4>2. CASE k = 1
        BY <2>2, <4>2
      <4>3. CASE k # 1
        <5>1. dora[k] = 3 + 2 * k
          BY <2>2, <4>3
        <5> QED BY <4>1, <4>3, <5>1
      <4> QED BY <4>2, <4>3
    <3>3. dora[k] - Gone \in 2..Len(yama)
      BY <2>1, <3>1, <3>2
    <3>4. yama[Len(yama) + 1 - (dora[k] - Gone)] = (dora[k] - Gone) + Gone
      BY <1>1, <3>3 DEF WallInv, WallInOrder, FromEnd
    <3>5. Len(yama) + 1 - (dora[k] - Gone) \in DOMAIN yama
      BY <2>1, <3>3
    <3> QED BY <3>1, <3>2, <3>4, <3>5
  <2>4. ASSUME NEW k \in DOMAIN dora, NEW l \in DOMAIN dora, dora[k] = dora[l] PROVE k = l
    <3>1. k \in Int /\ 1 <= k /\ l \in Int /\ 1 <= l
      BY <2>1
    <3>2. /\ dora[k] = (IF k = 1 THEN 6 ELSE 3 + 2 * k)
          /\ dora[l] = (IF l = 1 THEN 6 ELSE 3 + 2 * l)
      BY <2>2
    <3>3. ASSUME NEW m \in Int, NEW o \in Int, m # o
          PROVE  3 + 2 * m # 6 /\ 3 + 2 * m # 3 + 2 * o
      BY <3>3
    <3>4. CASE k = 1
      BY <2>4, <3>1, <3>2, <3>3, <3>4
    <3>5. CASE k # 1
      BY <2>4, <3>1, <3>2, <3>3, <3>5
    <3> QED BY <3>4, <3>5
  <2> QED BY <2>3, <2>4 DEF IndicatorsInWall
<1> QED BY <1>1, Inductive, WallKept, PTL DEF IndicatorsInWall

=============================================================================
