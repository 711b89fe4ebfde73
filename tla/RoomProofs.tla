------------------------------- MODULE RoomProofs -------------------------------
(* Proofs about module Room, for any players, bots and number of connections,  *)
(* with or without observers, whichever thread moves when.                     *)
EXTENDS Room, FiniteSetTheorems, TLAPS

-----------------------------------------------------------------------------
(* The inductive invariant.                                                    *)

\* game_start goes with the thread, or with one that has died in a match.
StartExact ==
  /\ thread \in {"marked", "play"} => gameStart
  /\ gameStart => thread \in {"none", "marked", "play"}

\* Before a match nobody sits without a connection, or twice, so a name that is
\* there is refused.
OneSeatEach ==
  ~brokeOff /\ ~gameStart /\ thread \in {"none", "begin", "cleared"} =>
    \A j \in Seated : /\ IsHuman(seats[j])
                      /\ \A k \in Seated : seats[j].name = seats[k].name => j = k

\* SeatsAreRead holds from the moment the room is cleared.
Read(k) ==
  IsHuman(seats[k]) /\ Of(seats[k].name) = {k} => conns[seats[k].conn].user = seats[k].name

AllRead ==
  ~brokeOff /\ thread \in {"none", "begin", "marked", "play", "cleared"} =>
    \A k \in Seated : Read(k)

RoomInv == TypeOK /\ StartExact /\ OneSeatEach /\ AllRead

Conn == [user : Names \union {Uuid}, at : {"open", "ended", "unread"}]
People == [name : Names, conn : 0..MaxConns]

LEMMA Types ==
  ASSUME TypeOK
  PROVE  /\ seats \in [Places -> {NoSeat} \union People]
         /\ conns \in [Slots -> {Free} \union Conn]
         /\ Seated \subseteq Places
         /\ \A k \in Seated : seats[k] \in People /\ seats[k].name \in Names
                              /\ seats[k].conn \in 0..MaxConns
BY DEF TypeOK, Conn, People, Seated

LEMMA ClientIs ==
  ASSUME NEW n \in Names, NEW c \in 0..MaxConns
  PROVE  /\ Client(n, c) \in People /\ Client(n, c) # NoSeat
         /\ Client(n, c).name = n /\ Client(n, c).conn = c
BY NameAssumption DEF Client, People, NoSeat

(* Nobody is called like a free connection or an observer.                     *)
LEMMA NamesApart ==
  Nobody \notin Names /\ Uuid \notin Names /\ Uuid # Nobody /\ Free.user = Nobody
BY NameAssumption DEF Free, Uuid, Nobody

LEMMA FreeIsNoConn == Free \notin Conn
BY NamesApart DEF Free, Conn

(* There are at most four seated, and they can be counted.                     *)
LEMMA Counted ==
  ASSUME NEW S \in SUBSET Places
  PROVE  IsFiniteSet(S) /\ Cardinality(S) \in 0..4
<1>1. IsFiniteSet(1..4) /\ Cardinality(1..4) = 4
  <2>1. 1 \in Int /\ 4 \in Int
    OBVIOUS
  <2>2. IsFiniteSet(1..4) /\ Cardinality(1..4) = IF 1 > 4 THEN 0 ELSE 4 - 1 + 1
    BY ONLY <2>1, FS_Interval, Zenon
  <2> QED BY <2>2
<1>2. S \in SUBSET (1..4)
  BY DEF Places
<1>3. IsFiniteSet(S) /\ Cardinality(S) <= Cardinality(1..4)
  BY ONLY <1>1, <1>2, FS_Subset, Zenon
<1>4. Cardinality(S) \in Nat
  BY <1>3, FS_CardinalityType
<1> QED BY <1>1, <1>3, <1>4

LEMMA Adding ==
  ASSUME NEW S \in SUBSET Places, NEW k \in Places \ S
  PROVE  Cardinality(S \union {k}) = Cardinality(S) + 1
BY Counted, FS_AddElement

LEMMA Removing ==
  ASSUME NEW S \in SUBSET Places, NEW k \in S
  PROVE  Cardinality(S \ {k}) = Cardinality(S) - 1
BY Counted, FS_RemoveElement

LEMMA SizeIs ==
  ASSUME TypeOK
  PROVE  /\ Cardinality(Seated) \in Nat /\ bots \in Nat /\ Size = Cardinality(Seated) + bots
         /\ Size \in Nat
<1>1. Cardinality(Seated) \in 0..4
  BY Types, Counted
<1>2. bots \in Nat
  BY RoomBounds DEF TypeOK
<1> QED BY <1>1, <1>2 DEF Size

LEMMA RoomInit == Init => RoomInv
<1> SUFFICES ASSUME Init PROVE RoomInv
  OBVIOUS
<1>1. /\ seats = [k \in Places |-> NoSeat] /\ bots = Bots /\ gameStart = FALSE
      /\ thread = "none" /\ waited = {} /\ conns = [c \in Slots |-> Free] /\ brokeOff = FALSE
  BY DEF Init
<1>2. Seated = {}
  BY <1>1 DEF Seated
<1>3. bots \in 0..Bots
  BY <1>1, RoomBounds
<1>4. TypeOK
  BY <1>1, <1>3 DEF TypeOK
<1> QED BY <1>1, <1>2, <1>4 DEF RoomInv, StartExact, OneSeatEach, AllRead

-----------------------------------------------------------------------------
(* The accept thread.                                                          *)

(* A new connection is nobody's yet.                                           *)
LEMMA Welcomed ==
  ASSUME RoomInv, NEW u \in Names \union {Uuid}, NEW c \in Slots, Welcome(u, c)
  PROVE  /\ conns' \in [Slots -> {Free} \union Conn]
         /\ conns[c].user = Nobody /\ conns'[c].user = u
         /\ \A d \in Slots : d # c => conns'[d] = conns[d]
<1>1. PICK at \in {"open", "unread"} : conns' = [conns EXCEPT ![c] = [user |-> u, at |-> at]]
  BY DEF Welcome
<1>2. conns[c] = Free /\ conns \in [Slots -> {Free} \union Conn]
  BY Types DEF Welcome, RoomInv
<1>3. [user |-> u, at |-> at] \in Conn
  BY DEF Conn
<1> QED BY <1>1, <1>2, <1>3, NamesApart

(* Nor does any seat that is read point at it.                                 *)
LEMMA NotTheirs ==
  ASSUME RoomInv, NEW u \in Names \union {Uuid}, NEW c \in Slots, Welcome(u, c),
         NEW k \in Seated, Read(k), IsHuman(seats[k]), Of(seats[k].name) = {k}
  PROVE  /\ seats[k].conn # c /\ conns'[seats[k].conn].user = seats[k].name
<1>1. seats[k].name \in Names /\ seats[k].conn \in Slots
  BY Types, RoomBounds DEF RoomInv, IsHuman, Slots
<1>2. conns[seats[k].conn].user = seats[k].name
  BY DEF Read
<1> QED BY <1>1, <1>2, Welcomed, NamesApart

LEMMA WatchKeeps ==
  ASSUME RoomInv, NEW c \in Slots, Watch(c) PROVE RoomInv'
<1>1. Welcome(Uuid, c) /\ UNCHANGED <<seats, bots, gameStart, thread, waited, brokeOff>>
  BY DEF Watch
<1>2. conns' \in [Slots -> {Free} \union Conn]
  BY <1>1, Welcomed
<1>3. UNCHANGED <<Seated, Size>> /\ \A n : Of(n)' = Of(n)
  BY <1>1 DEF Seated, Size, Of
<1>4. TypeOK' /\ StartExact' /\ OneSeatEach'
  BY <1>1, <1>2, <1>3 DEF RoomInv, TypeOK, Conn, StartExact, OneSeatEach
<1>5. ASSUME NEW k \in Seated, Read(k) PROVE Read(k)'
  BY <1>1, <1>3, <1>5, NotTheirs DEF Read
<1> QED BY <1>1, <1>3, <1>4, <1>5 DEF RoomInv, AllRead

(* A place gets a client of name n: whose place it was or who is new there.    *)
LEMMA Placed ==
  ASSUME RoomInv, NEW n \in Names, NEW c \in 0..MaxConns, NEW k \in Places,
         k \in Of(n) \/ k \notin Seated, seats' = [seats EXCEPT ![k] = Client(n, c)]
  PROVE  /\ seats' \in [Places -> {NoSeat} \union People]
         /\ seats'[k] = Client(n, c) /\ seats'[k].name = n /\ seats'[k].conn = c
         /\ \A j \in Places : j # k => seats'[j] = seats[j]
         /\ Seated' = Seated \union {k} /\ Of(n)' = Of(n) \union {k}
         /\ \A m \in Names : m # n => Of(m)' = Of(m)
<1>1. seats \in [Places -> {NoSeat} \union People] /\ Seated \subseteq Places
  BY Types DEF RoomInv
<1>2. /\ Client(n, c) \in People /\ Client(n, c) # NoSeat
      /\ Client(n, c).name = n /\ Client(n, c).conn = c
  BY ClientIs
<1>3. /\ seats' \in [Places -> {NoSeat} \union People] /\ seats'[k] = Client(n, c)
      /\ \A j \in Places : j # k => seats'[j] = seats[j]
  BY <1>1, <1>2
<1>4. Seated' = Seated \union {k}
  BY <1>2, <1>3 DEF Seated
<1>5. Of(n)' = Of(n) \union {k}
  BY <1>1, <1>2, <1>3, <1>4 DEF Of
<1>6. ASSUME NEW m \in Names, m # n PROVE Of(m)' = Of(m)
  BY <1>1, <1>2, <1>3, <1>4, <1>6 DEF Of
<1> QED BY <1>2, <1>3, <1>4, <1>5, <1>6

(* A player with a new connection: every seat that was read still is, and his  *)
(* is if it is the only one of the name.                                       *)
LEMMA PlacedRead ==
  ASSUME RoomInv, NEW n \in Names, NEW c \in Slots, Welcome(n, c), NEW k \in Places,
         k \in Of(n) \/ k \notin Seated, seats' = [seats EXCEPT ![k] = Client(n, c)],
         UNCHANGED <<thread, brokeOff>>
  PROVE  AllRead'
<1>1. c \in 0..MaxConns
  BY RoomBounds DEF Slots
<1>2. /\ seats'[k].name = n /\ seats'[k].conn = c
      /\ \A j \in Places : j # k => seats'[j] = seats[j]
      /\ Seated' = Seated \union {k} /\ Of(n)' = Of(n) \union {k}
      /\ \A m \in Names : m # n => Of(m)' = Of(m)
  BY <1>1, Placed
<1>3. Seated \subseteq Places /\ \A j \in Seated : seats[j].name \in Names
  BY Types DEF RoomInv
<1>4. ASSUME NEW j \in Seated', \A i \in Seated : Read(i) PROVE Read(j)'
  <2>1. CASE j = k
    BY <1>2, <2>1, Welcomed DEF Read
  <2>2. CASE j # k
    <3>1. j \in Seated /\ seats'[j] = seats[j] /\ Read(j)
      BY <1>2, <1>3, <1>4, <2>2
    <3>2. SUFFICES ASSUME IsHuman(seats[j]), Of(seats[j].name)' = {j}
                   PROVE  conns'[seats[j].conn].user = seats[j].name
      BY <3>1 DEF Read, IsHuman
    <3>3. seats[j].name # n /\ Of(seats[j].name) = {j}
      BY <1>2, <1>3, <2>2, <3>1, <3>2
    <3> QED BY <3>1, <3>2, <3>3, NotTheirs
  <2> QED BY <2>1, <2>2
<1> QED BY <1>4 DEF RoomInv, AllRead

LEMMA RejoinKeeps ==
  ASSUME RoomInv, NEW n \in Names, NEW c \in Slots, Rejoin(n, c) PROVE RoomInv'
<1>1. Welcome(n, c) /\ UNCHANGED <<bots, gameStart, thread, waited, brokeOff>>
  BY DEF Rejoin
<1>2. PICK k \in Of(n) : Returns(k) /\ seats' = [seats EXCEPT ![k] = Client(n, c)]
  BY DEF Rejoin
<1>3. gameStart /\ k \in Places /\ k \in Seated /\ c \in 0..MaxConns
  BY <1>2, RoomBounds, Types DEF Returns, Of, RoomInv, Slots
<1>4. /\ seats' \in [Places -> {NoSeat} \union People]
      /\ Seated' = Seated \union {k}
  BY <1>2, <1>3, Placed
<1>5. conns' \in [Slots -> {Free} \union Conn] /\ Seated' = Seated
  BY <1>1, <1>3, <1>4, Welcomed
<1>6. TypeOK'
  BY <1>1, <1>4, <1>5 DEF RoomInv, TypeOK, Size, Conn, People
<1>7. StartExact' /\ OneSeatEach'
  BY <1>1, <1>3 DEF RoomInv, StartExact, OneSeatEach
<1>8. AllRead'
  BY <1>1, <1>2, <1>3, PlacedRead
<1> QED BY <1>6, <1>7, <1>8 DEF RoomInv

LEMMA SeatKeeps ==
  ASSUME RoomInv, NEW n \in Names, NEW c \in Slots, Seat(n, c) PROVE RoomInv'
<1>1. /\ Welcome(n, c) /\ Newcomer(n) /\ Size < 4
      /\ UNCHANGED <<bots, gameStart, thread, waited, brokeOff>>
  BY DEF Seat, TakeSeat
<1>2. PICK k \in Places \ Seated : seats' = [seats EXCEPT ![k] = Client(n, c)]
  BY DEF Seat, TakeSeat
<1>3. c \in 0..MaxConns /\ c # 0
  BY RoomBounds DEF Slots
<1>4. /\ seats' \in [Places -> {NoSeat} \union People] /\ Seated' = Seated \union {k}
      /\ seats'[k].name = n /\ seats'[k].conn = c
      /\ \A j \in Places : j # k => seats'[j] = seats[j]
  BY <1>2, <1>3, Placed
<1>5. conns' \in [Slots -> {Free} \union Conn]
  BY <1>1, Welcomed
<1>6. Seated \in SUBSET Places /\ TypeOK
  BY Types DEF RoomInv
<1>7. Size' <= 4
  <2>1. Cardinality(Seated \union {k}) = Cardinality(Seated) + 1
    BY <1>2, <1>6, Adding
  <2>2. Size' = Cardinality(Seated) + 1 + bots
    BY <1>1, <1>4, <2>1 DEF Size
  <2> QED BY <1>1, <1>6, <2>2, SizeIs
<1>8. TypeOK'
  BY <1>1, <1>4, <1>5, <1>6, <1>7 DEF TypeOK, Conn, People
<1>9. OneSeatEach'
  <2>1. SUFFICES ASSUME ~brokeOff, ~gameStart, thread \in {"none", "begin", "cleared"}
                 PROVE  \A j \in Seated' :
                          /\ IsHuman(seats'[j])
                          /\ \A i \in Seated' : seats'[j].name = seats'[i].name => j = i
    BY <1>1 DEF OneSeatEach, IsHuman
  <2>2. \A j \in Seated : /\ IsHuman(seats[j])
                          /\ \A i \in Seated : seats[j].name = seats[i].name => j = i
    BY <2>1 DEF RoomInv, OneSeatEach
  <2>3. Of(n) = {}
    BY <1>1, <2>1, <2>2 DEF Newcomer, Refused, Of
  <2>4. \A j \in Seated : seats[j].name # n /\ seats'[j] = seats[j]
    BY <1>2, <1>4, <1>6, <2>3 DEF Of
  <2>5. IsHuman(seats'[k])
    BY <1>3, <1>4 DEF IsHuman
  <2> QED BY <1>4, <2>2, <2>4, <2>5
<1>10. AllRead'
  BY <1>1, <1>2, PlacedRead
<1> QED BY <1>1, <1>8, <1>9, <1>10 DEF RoomInv, StartExact

LEMMA JoinKeeps ==
  ASSUME RoomInv, NEW n \in Names, NEW c \in Slots, PlayerJoin(n, c) PROVE RoomInv'
<1>1. CASE JoinToObserve(c) \/ JoinFull(n, c)
  BY <1>1, WatchKeeps DEF JoinToObserve, JoinFull
<1> QED BY <1>1, RejoinKeeps, SeatKeeps DEF PlayerJoin

-----------------------------------------------------------------------------
(* The reader threads.                                                         *)

LEMMA LoseKeeps ==
  ASSUME RoomInv, NEW c \in Slots, Lose(c) PROVE RoomInv'
<1>1. /\ conns[c].at = "open" /\ conns' = [conns EXCEPT ![c].at = "ended"]
      /\ UNCHANGED <<seats, bots, gameStart, thread, waited, brokeOff>>
  BY DEF Lose
<1>2. conns \in [Slots -> {Free} \union Conn] /\ conns[c] # Free
  BY <1>1, Types DEF RoomInv, Free
<1>3. [conns[c] EXCEPT !.at = "ended"] \in Conn
      /\ [conns[c] EXCEPT !.at = "ended"].user = conns[c].user
  BY <1>2 DEF Conn
<1>4. conns' \in [Slots -> {Free} \union Conn] /\ \A d \in Slots : conns'[d].user = conns[d].user
  BY <1>1, <1>2, <1>3
<1>5. UNCHANGED <<Seated, Size>> /\ \A n : Of(n)' = Of(n)
  BY <1>1 DEF Seated, Size, Of
<1>6. TypeOK' /\ StartExact' /\ OneSeatEach'
  BY <1>1, <1>4, <1>5 DEF RoomInv, TypeOK, Conn, StartExact, OneSeatEach
<1>7. ASSUME NEW k \in Seated, Read(k) PROVE Read(k)'
  <2>1. IsHuman(seats[k]) => seats[k].conn \in Slots
    BY Types, RoomBounds DEF RoomInv, IsHuman, Slots
  <2> QED BY <1>1, <1>4, <1>5, <1>7, <2>1 DEF Read, IsHuman
<1> QED BY <1>1, <1>5, <1>6, <1>7 DEF RoomInv, AllRead

(* What player_disconnect does.                                                *)
LEMMA DropIs ==
  ASSUME RoomInv, NEW c \in Slots, ReaderEnds(c)
  PROVE  \/ Of(conns[c].user) = {} /\ seats' = seats
         \/ \E k \in Of(conns[c].user) :
              /\ conns[c].user \in Names /\ k \in Places /\ k \in Seated
              /\ seats[k].name = conns[c].user
              /\ \/ gameStart /\ seats' = [seats EXCEPT ![k] = Client(conns[c].user, 0)]
                 \/ ~gameStart /\ seats' = [seats EXCEPT ![k] = NoSeat]
<1>1. DropEntry(conns[c].user)
  BY DEF ReaderEnds
<1>2. \A k \in Of(conns[c].user) :
        /\ conns[c].user \in Names /\ k \in Places /\ k \in Seated
        /\ seats[k].name = conns[c].user
  BY Types DEF RoomInv, Of
<1> QED BY <1>1, <1>2 DEF DropEntry

(* A reader ends only for its own name.                                        *)
LEMMA ReadElsewhere ==
  ASSUME RoomInv, NEW c \in Slots, ReaderEnds(c),
         NEW k \in Seated, seats[k].name # conns[c].user, Read(k), IsHuman(seats[k]),
         Of(seats[k].name) = {k}
  PROVE  conns'[seats[k].conn].user = seats[k].name
<1>1. seats[k].conn \in Slots /\ conns \in [Slots -> {Free} \union Conn]
  BY Types, RoomBounds DEF RoomInv, IsHuman, Slots
<1>2. conns[seats[k].conn].user = seats[k].name
  BY DEF Read
<1>3. conns' = [conns EXCEPT ![c] = Free]
  BY DEF ReaderEnds
<1> QED BY <1>1, <1>2, <1>3

LEMMA ReaderKeeps ==
  ASSUME RoomInv, NEW c \in Slots, ReaderEnds(c) PROVE RoomInv'
<1>1. /\ waited' = waited \ {c} /\ conns' = [conns EXCEPT ![c] = Free]
      /\ UNCHANGED <<bots, gameStart, thread, brokeOff>>
  BY DEF ReaderEnds
<1>2. conns' \in [Slots -> {Free} \union Conn] /\ waited' \subseteq Slots
  BY <1>1, Types DEF RoomInv, TypeOK
<1>3. /\ seats \in [Places -> {NoSeat} \union People] /\ Seated \in SUBSET Places /\ TypeOK
      /\ \A k \in Seated : seats[k].name \in Names /\ seats[k].conn \in 0..MaxConns
  BY Types DEF RoomInv
<1>4. CASE Of(conns[c].user) = {} /\ seats' = seats
  <2>1. UNCHANGED <<Seated, Size>> /\ \A n : Of(n)' = Of(n)
    BY <1>1, <1>4 DEF Seated, Size, Of
  <2>2. TypeOK' /\ StartExact' /\ OneSeatEach'
    BY <1>1, <1>2, <1>4, <2>1 DEF RoomInv, TypeOK, Conn, StartExact, OneSeatEach
  <2>3. \A k \in Seated : seats[k].name # conns[c].user
    BY <1>4 DEF Of
  <2>4. ASSUME NEW k \in Seated, Read(k) PROVE Read(k)'
    BY <1>4, <2>1, <2>3, <2>4, ReadElsewhere DEF Read
  <2> QED BY <1>1, <2>1, <2>2, <2>4 DEF RoomInv, AllRead
<1>5. ASSUME NEW u \in Names, u = conns[c].user, NEW k \in Of(u), k \in Places, k \in Seated, seats[k].name = u, gameStart,
             seats' = [seats EXCEPT ![k] = Client(u, 0)]
      PROVE  RoomInv'
  <2>1. 0 \in 0..MaxConns
    BY RoomBounds
  <2>2. /\ seats' \in [Places -> {NoSeat} \union People] /\ seats'[k] = Client(u, 0)
        /\ seats'[k].conn = 0 /\ seats'[k].name = u
        /\ \A j \in Places : j # k => seats'[j] = seats[j]
        /\ Seated' = Seated \union {k} /\ Of(u)' = Of(u) \union {k}
        /\ \A m \in Names : m # u => Of(m)' = Of(m)
    BY <1>5, <2>1, Placed
  <2>3. Seated' = Seated /\ Of(u)' = Of(u) /\ \A m \in Names : Of(m)' = Of(m)
    BY <1>5, <2>2
  <2>4. TypeOK'
    BY <1>1, <1>2, <1>3, <2>2, <2>3 DEF TypeOK, Size, Conn, People
  <2>5. StartExact' /\ OneSeatEach'
    BY <1>1, <1>5 DEF RoomInv, StartExact, OneSeatEach
  <2>6. ASSUME NEW j \in Seated, Read(j) PROVE Read(j)'
    <3>1. CASE j = k
      BY <2>2, <3>1 DEF Read, IsHuman
    <3>2. CASE j # k
      <4>1. seats'[j] = seats[j] /\ Of(seats[j].name)' = Of(seats[j].name)
        BY <1>3, <2>2, <2>3, <3>2
      <4>2. SUFFICES ASSUME IsHuman(seats[j]), Of(seats[j].name) = {j}
                     PROVE  conns'[seats[j].conn].user = seats[j].name
        BY <4>1 DEF Read, IsHuman
      <4>3. seats[j].name # u
        BY <1>5, <3>2, <4>2
      <4> QED BY <1>5, <2>6, <4>2, <4>3, ReadElsewhere
    <3> QED BY <3>1, <3>2
  <2> QED BY <1>1, <2>3, <2>4, <2>5, <2>6 DEF RoomInv, AllRead
<1>6. ASSUME NEW u \in Names, u = conns[c].user, NEW k \in Of(u), k \in Places, k \in Seated, seats[k].name = u, ~gameStart,
             seats' = [seats EXCEPT ![k] = NoSeat]
      PROVE  RoomInv'
  <2>1. /\ seats' \in [Places -> {NoSeat} \union People] /\ seats'[k] = NoSeat
        /\ \A j \in Places : j # k => seats'[j] = seats[j]
    BY <1>3, <1>6
  <2>2. Seated' = Seated \ {k}
    BY <1>3, <2>1 DEF Seated
  <2>3. Size' <= Size
    BY <1>1, <1>3, <1>6, <2>2, Removing, SizeIs DEF Size
  <2>4. Size' <= 4 \/ ~(Size <= 4)
    <3>1. Size' = Cardinality(Seated \ {k}) + bots
      BY <1>1, <2>2 DEF Size
    <3>2. Cardinality(Seated \ {k}) \in Nat /\ Size \in Nat /\ bots \in Nat
      BY <1>3, Counted, SizeIs
    <3> QED BY <2>3, <3>1, <3>2
  <2>5. TypeOK'
    BY <1>1, <1>2, <1>3, <2>1, <2>4 DEF TypeOK, Conn, People
  <2>6. StartExact' /\ OneSeatEach'
    BY <1>1, <1>3, <2>1, <2>2 DEF RoomInv, StartExact, OneSeatEach, IsHuman
  <2>7. ASSUME ~brokeOff, thread \in {"none", "begin", "marked", "play", "cleared"}, NEW j \in Seated'
        PROVE  Read(j)'
    <3>1. /\ j \in Seated /\ j # k /\ seats'[j] = seats[j] /\ Read(j)
          /\ thread \in {"none", "begin", "cleared"}
      BY <1>3, <1>6, <2>1, <2>2, <2>7 DEF RoomInv, AllRead, StartExact
    <3>2. /\ IsHuman(seats[j]) /\ \A i \in Seated : seats[j].name = seats[i].name => j = i
      BY <1>6, <2>7, <3>1 DEF RoomInv, OneSeatEach
    <3>3. Of(seats[j].name) = {j} /\ seats[j].name # u
      BY <1>6, <3>1, <3>2 DEF Of
    <3>4. conns'[seats[j].conn].user = seats[j].name
      BY <1>6, <3>1, <3>2, <3>3, ReadElsewhere
    <3> QED BY <3>1, <3>4 DEF Read
  <2> QED BY <1>1, <2>5, <2>6, <2>7 DEF RoomInv, AllRead
<1> QED BY <1>4, <1>5, <1>6, DropIs

-----------------------------------------------------------------------------
(* run() and the game thread.                                                  *)

(* What moves the thread only.                                                 *)
LEMMA SeatsStay ==
  ASSUME RoomInv, UNCHANGED <<seats, bots>>
  PROVE  /\ UNCHANGED <<Seated, Size>>
         /\ \A n : Of(n)' = Of(n)
         /\ conns' = conns => \A k \in Seated : Read(k)' = Read(k)
BY DEF Seated, Size, Of, Read

LEMMA ConfirmKeeps ==
  ASSUME RoomInv, NEW c \in Slots, Confirm(c) PROVE RoomInv'
<1>1. /\ waited' \subseteq waited
      /\ UNCHANGED <<seats, bots, gameStart, thread, conns, brokeOff>>
  BY DEF Confirm
<1> QED BY <1>1, SeatsStay DEF RoomInv, TypeOK, StartExact, OneSeatEach, AllRead

LEMMA CountKeeps ==
  ASSUME RoomInv, Count \/ Mark \/ Deal PROVE RoomInv'
<1>1. UNCHANGED <<seats, bots, waited, conns, brokeOff>>
  BY DEF Count, Mark, Deal
<1>2. /\ thread \in {"none", "begin", "marked"} /\ thread' \in {"begin", "marked", "play"}
      /\ gameStart' \in BOOLEAN
  BY DEF Count, Mark, Deal, Step, RoomInv, TypeOK
<1>3. Size <= 4
  BY SizeIs DEF Count, Mark, Deal, Step, RoomInv, TypeOK
<1>4. TypeOK' /\ AllRead'
  BY <1>1, <1>2, <1>3, SeatsStay DEF RoomInv, TypeOK, AllRead
<1>5. StartExact' /\ OneSeatEach'
  BY <1>1, SeatsStay DEF Count, Mark, Deal, Step, RoomInv, StartExact, OneSeatEach
<1> QED BY <1>4, <1>5 DEF RoomInv

LEMMA CrashKeeps ==
  ASSUME RoomInv, Crash PROVE RoomInv'
<1>1. /\ UNCHANGED <<seats, bots, gameStart, waited, conns>>
      /\ thread \in {"marked", "play", "over", "rank"} /\ thread' = "none"
      /\ brokeOff' = (brokeOff \/ ~gameStart)
  BY DEF Crash, Step
<1>2. brokeOff' \in BOOLEAN
  BY <1>1 DEF RoomInv, TypeOK
<1>3. TypeOK'
  BY <1>1, <1>2, SeatsStay DEF RoomInv, TypeOK
<1>4. ~brokeOff' => ~brokeOff /\ gameStart /\ thread \in {"marked", "play"}
  BY <1>1 DEF RoomInv, StartExact
<1> QED BY <1>1, <1>3, <1>4, SeatsStay DEF RoomInv, StartExact, OneSeatEach, AllRead

LEMMA OverKeeps ==
  ASSUME RoomInv, MatchOver \/ Rank \/ CloseAll PROVE RoomInv'
<1>1. /\ UNCHANGED <<seats, bots, brokeOff>> /\ gameStart' = FALSE
      /\ thread \in {"play", "over", "rank"} /\ thread' \in {"over", "rank", "closed"}
  BY DEF MatchOver, Rank, CloseAll, Step, RoomInv, TypeOK, StartExact
<1>2. waited' \subseteq Slots
  <2>1. \A k \in Seated : IsHuman(seats[k]) => seats[k].conn \in Slots
    BY Types, RoomBounds DEF RoomInv, IsHuman, Slots
  <2> QED BY <2>1 DEF MatchOver, Rank, CloseAll, RoomInv, TypeOK
<1>3. conns' \in [Slots -> {Free} \union Conn]
  <2>1. CASE MatchOver \/ Rank
    BY <2>1, Types DEF MatchOver, Rank, RoomInv
  <2>2. CASE CloseAll
    <3>1. \A c \in Slots : conns[c].at \notin {"free", "unread"}
                             => [conns[c] EXCEPT !.at = "ended"] \in Conn
      BY Types DEF RoomInv, Conn, Free
    <3>2. \A c \in Slots : conns'[c] \in {conns[c], Free, [conns[c] EXCEPT !.at = "ended"]}
                           /\ (conns'[c] \in {conns[c], Free} \/ conns[c].at \notin {"free", "unread"})
      BY <2>2 DEF CloseAll
    <3>3. conns' \in [Slots -> {conns'[c] : c \in Slots}]
      BY <2>2 DEF CloseAll
    <3> QED BY <3>1, <3>2, <3>3, Types DEF RoomInv
  <2> QED BY <2>1, <2>2
<1>4. Size <= 4
  BY <1>1 DEF RoomInv, TypeOK
<1>5. TypeOK'
  BY <1>1, <1>2, <1>3, <1>4, SeatsStay DEF RoomInv, TypeOK, Conn
<1> QED BY <1>1, <1>5 DEF RoomInv, StartExact, OneSeatEach, AllRead

LEMMA ClearKeeps ==
  ASSUME RoomInv, Clear PROVE RoomInv'
<1>1. /\ seats' = [k \in Places |-> NoSeat] /\ bots' = 0 /\ brokeOff' = FALSE
      /\ thread = "closed" /\ thread' = "cleared" /\ UNCHANGED <<gameStart, waited, conns>>
  BY DEF Clear, Step
<1>2. Seated' = {} /\ gameStart' = FALSE
  BY <1>1 DEF Seated, RoomInv, StartExact, TypeOK
<1>3. bots' \in 0..Bots
  BY <1>1, RoomBounds
<1>4. seats' \in [Places -> {NoSeat} \union [name : Names, conn : 0..MaxConns]]
  BY <1>1
<1>5. TypeOK'
  BY <1>1, <1>2, <1>3, <1>4 DEF RoomInv, TypeOK
<1> QED BY <1>1, <1>2, <1>5 DEF RoomInv, StartExact, OneSeatEach, AllRead

LEMMA ReopenKeeps ==
  ASSUME RoomInv, PutBot \/ Reopen PROVE RoomInv'
<1>1. /\ UNCHANGED <<seats, waited, conns, brokeOff>> /\ ~gameStart /\ gameStart' = FALSE
      /\ thread = "cleared" /\ thread' \in {"cleared", "none"} /\ bots' \in 0..Bots
  BY RoomBounds DEF PutBot, Reopen, Step, RoomInv, TypeOK, StartExact
<1>2. Seated' = Seated /\ (\A n : Of(n)' = Of(n)) /\ \A k \in Seated : Read(k)' = Read(k)
  BY <1>1 DEF Seated, Of, Read
<1> QED BY <1>1, <1>2 DEF RoomInv, TypeOK, StartExact, OneSeatEach, AllRead

LEMMA RoomStep == RoomInv /\ [Next]_vars => RoomInv'
<1> SUFFICES ASSUME RoomInv, [Next]_vars PROVE RoomInv'
  OBVIOUS
<1>1. CASE \E n \in Names, c \in Slots : PlayerJoin(n, c)
  BY <1>1, JoinKeeps
<1>2. CASE \E c \in Slots : Lose(c) \/ ReaderEnds(c) \/ Confirm(c)
  BY <1>2, LoseKeeps, ReaderKeeps, ConfirmKeeps
<1>3. CASE Count \/ GameThread
  BY <1>3, CountKeeps, CrashKeeps, OverKeeps, ClearKeeps, ReopenKeeps DEF GameThread
<1>4. CASE UNCHANGED vars
  BY <1>4, SeatsStay DEF vars, RoomInv, TypeOK, StartExact, OneSeatEach, AllRead
<1> QED BY <1>1, <1>2, <1>3, <1>4 DEF Next

LEMMA RoomKept == Spec => []RoomInv
<1>1. RoomInv /\ [Next]_vars => RoomInv'
  BY RoomStep
<1> QED BY <1>1, RoomInit, PTL DEF Spec

(* Once it has counted four the room holds no more than four until reset(),    *)
(* whoever comes and goes between the steps of run() and of the game thread.   *)
THEOREM FourAtMost == Spec => []TypeOK
<1>1. RoomInv => TypeOK
  BY DEF RoomInv
<1> QED BY <1>1, RoomKept, PTL

(* However late the readers of older connections are, a seat whose name sits   *)
(* once keeps its own connection, whose reader will give it up.                *)
THEOREM NoGhosts == Spec => []SeatsAreRead
<1>1. RoomInv => SeatsAreRead
  BY DEF RoomInv, AllRead, Read, SeatsAreRead
<1> QED BY <1>1, RoomKept, PTL

-----------------------------------------------------------------------------
(* What Lobby promises.                                                        *)

Name == [k \in Places |-> seats[k].name]
Away == {k \in Seated : ~IsHuman(seats[k])}

LEMMA SameCount == ASSUME NEW S PROVE L!Cardinality(S) = Cardinality(S)
BY DEF L!Cardinality, Cardinality

(* Its places are the seats.                                                   *)
LEMMA LobbyTaken ==
  ASSUME TypeOK PROVE L!Places = Places /\ L!Taken = Seated /\ L!Size = Size
<1>1. \A k \in Places : seats[k].name # Nobody <=> seats[k] # NoSeat
  BY Types, NamesApart DEF People, NoSeat, Client
<1>2. L!Places = Places
  BY DEF L!Places, Places
<1>3. L!Taken = Seated
  BY <1>1, <1>2 DEF L!Taken, Seated
<1> QED BY <1>2, <1>3, SameCount DEF L!Size, Size

(* A match is what has game_start.                                             *)
LEMMA Phases ==
  ASSUME RoomInv
  PROVE  /\ gameStart <=> phase \in L!Match
         /\ UNCHANGED <<gameStart, thread>> => phase' = phase
         /\ thread = "cleared" <=> phase = "empty"
<1>1. gameStart \in BOOLEAN
      /\ thread \in {"none", "begin", "marked", "play", "over", "rank", "closed", "cleared"}
  BY DEF RoomInv, TypeOK
<1>2. gameStart <=> phase \in L!Match
  BY <1>1 DEF RoomInv, StartExact, phase, L!Match
<1> QED BY <1>1, <1>2 DEF phase

(* Its steps, said of Room's variables.                                        *)
LEMMA LobbyStutter ==
  ASSUME UNCHANGED <<seats, bots>>, phase' = phase PROVE UNCHANGED L!lobby
<1>1. Seated' = Seated
  BY DEF Seated
<1> QED BY <1>1 DEF L!lobby, IsHuman

LEMMA LobbyTurn ==
  ASSUME UNCHANGED <<seats, bots>>, NEW p, NEW q, phase = p, phase' = q
  PROVE  L!Turn(p, q)
<1>1. Seated' = Seated
  BY DEF Seated
<1> QED BY <1>1 DEF L!Turn, IsHuman

LEMMA LobbyJoin ==
  ASSUME TypeOK, NEW n \in Names, NEW k \in Places \ Seated, Size < 4,
         Name' = [Name EXCEPT ![k] = n], Away' = Away, phase' = phase, bots' = bots
  PROVE  L!Next
<1>1. L!Join(n, k) /\ k \in L!Places
  BY LobbyTaken DEF L!Join, Name, Away
<1> QED BY <1>1 DEF L!Next

LEMMA LobbyLeave ==
  ASSUME TypeOK, phase \notin L!Match, NEW k \in Seated, k \in Places,
         Name' = [Name EXCEPT ![k] = Nobody], Away' = Away \ {k}, phase' = phase, bots' = bots
  PROVE  L!Next
<1>1. L!Leave(k) /\ k \in L!Places
  BY LobbyTaken DEF L!Leave, Name, Away
<1> QED BY <1>1 DEF L!Next

LEMMA LobbyLose ==
  ASSUME TypeOK, phase \in L!Match, NEW k \in Seated, k \in Places,
         Name' = Name, Away' = Away \union {k}, phase' = phase, bots' = bots
  PROVE  L!Next
<1>1. L!Lose(k) /\ k \in L!Places
  BY LobbyTaken DEF L!Lose, Name, Away
<1> QED BY <1>1 DEF L!Next

LEMMA LobbyReturn ==
  ASSUME TypeOK, phase \in L!Match, NEW k \in Away, k \in Places,
         Name' = Name, Away' = Away \ {k}, phase' = phase, bots' = bots
  PROVE  L!Next
<1>1. L!Return(k) /\ k \in L!Places
  BY LobbyTaken DEF L!Return, Name, Away
<1> QED BY <1>1 DEF L!Next

(* What a seat given to a player does to the names and to who is away.         *)
LEMMA PlacedAs ==
  ASSUME RoomInv, NEW n \in Names, NEW c \in 0..MaxConns, NEW k \in Places,
         k \in Of(n) \/ k \notin Seated, seats' = [seats EXCEPT ![k] = Client(n, c)]
  PROVE  /\ Name' = [Name EXCEPT ![k] = n]
         /\ k \in Of(n) => Name' = Name
         /\ c # 0 => Away' = Away \ {k}
         /\ c = 0 => Away' = Away \union {k}
<1>1. /\ seats'[k].name = n /\ seats'[k].conn = c
      /\ \A j \in Places : j # k => seats'[j] = seats[j]
      /\ Seated' = Seated \union {k} /\ Seated \subseteq Places
  BY Placed, Types DEF RoomInv
<1>2. \A j \in Places : seats'[j].name = IF j = k THEN n ELSE seats[j].name
  BY <1>1
<1>3. Name' = [Name EXCEPT ![k] = n]
  BY <1>2 DEF Name
<1>4. k \in Of(n) => Name' = Name
  BY <1>2 DEF Name, Of
<1>5. c # 0 => Away' = Away \ {k}
  BY <1>1 DEF Away, IsHuman
<1>6. c = 0 => Away' = Away \union {k}
  BY <1>1 DEF Away, IsHuman
<1> QED BY <1>3, <1>4, <1>5, <1>6

LEMMA ReturnStep ==
  ASSUME RoomInv, NEW n \in Names, NEW c \in Slots, Rejoin(n, c) PROVE L!Next
<1>1. UNCHANGED <<bots, gameStart, thread>>
  BY DEF Rejoin
<1>2. PICK k \in Of(n) : Returns(k) /\ seats' = [seats EXCEPT ![k] = Client(n, c)]
  BY DEF Rejoin
<1>3. gameStart /\ k \in Places /\ k \in Away /\ c \in 0..MaxConns /\ c # 0
  BY <1>2, RoomBounds, Types DEF Returns, Of, Away, RoomInv, Slots
<1>4. Name' = Name /\ Away' = Away \ {k}
  BY <1>2, <1>3, PlacedAs
<1>5. phase \in L!Match /\ phase' = phase /\ TypeOK
  BY <1>1, <1>3, Phases DEF RoomInv
<1> QED BY <1>1, <1>3, <1>4, <1>5, LobbyReturn

LEMMA JoinStep ==
  ASSUME RoomInv, NEW n \in Names, NEW c \in Slots, Seat(n, c) PROVE L!Next
<1>1. Size < 4 /\ UNCHANGED <<bots, gameStart, thread>>
  BY DEF Seat, TakeSeat
<1>2. PICK k \in Places \ Seated : seats' = [seats EXCEPT ![k] = Client(n, c)]
  BY DEF Seat, TakeSeat
<1>3. c \in 0..MaxConns /\ c # 0
  BY RoomBounds DEF Slots
<1>4. Name' = [Name EXCEPT ![k] = n] /\ Away' = Away \ {k}
  BY <1>2, <1>3, PlacedAs
<1>5. Away' = Away
  BY <1>2, <1>4 DEF Away
<1>6. phase' = phase /\ TypeOK
  BY <1>1, Phases DEF RoomInv
<1> QED BY <1>1, <1>2, <1>4, <1>5, <1>6, LobbyJoin

(* The reader of a lost connection takes the seat of its name away between     *)
(* matches; in a match it only marks the seat.                                 *)
LEMMA LeaveStep ==
  ASSUME RoomInv, NEW c \in Slots, ReaderEnds(c) PROVE [L!Next]_(L!lobby)
<1>1. UNCHANGED <<bots, gameStart, thread>>
  BY DEF ReaderEnds
<1>2. phase' = phase /\ TypeOK
  BY <1>1, Phases DEF RoomInv
<1>3. CASE seats' = seats
  BY <1>1, <1>2, <1>3, LobbyStutter
<1>4. ASSUME NEW u \in Names, NEW k \in Of(u), k \in Places, k \in Seated, gameStart,
             seats' = [seats EXCEPT ![k] = Client(u, 0)]
      PROVE  L!Next
  <2>1. 0 \in 0..MaxConns
    BY RoomBounds
  <2>2. Name' = Name /\ Away' = Away \union {k}
    BY <1>4, <2>1, PlacedAs
  <2>3. phase \in L!Match
    BY <1>4, Phases
  <2> QED BY <1>1, <1>2, <1>4, <2>2, <2>3, LobbyLose
<1>5. ASSUME NEW k \in Places, k \in Seated, ~gameStart, seats' = [seats EXCEPT ![k] = NoSeat]
      PROVE  L!Next
  <2>1. /\ \A j \in Places : seats'[j] = IF j = k THEN NoSeat ELSE seats[j]
        /\ Seated \subseteq Places /\ NoSeat.name = Nobody
    BY <1>2, <1>5, Types DEF NoSeat, Client
  <2>2. \A j \in Places : seats'[j].name = IF j = k THEN Nobody ELSE seats[j].name
    BY <2>1
  <2>3. Name' = [Name EXCEPT ![k] = Nobody]
    BY <2>2 DEF Name
  <2>4. Seated' = Seated \ {k}
    BY <2>1 DEF Seated
  <2>5. Away' = Away \ {k}
    BY <2>1, <2>4 DEF Away, IsHuman
  <2>6. phase \notin L!Match
    BY <1>5, Phases
  <2> QED BY <1>1, <1>2, <1>5, <2>3, <2>5, <2>6, LobbyLeave
<1> QED BY <1>3, <1>4, <1>5, DropIs

(* The steps of the game thread.                                               *)
LEMMA ThreadStep ==
  ASSUME RoomInv, Count \/ GameThread PROVE [L!Next]_(L!lobby)
<1>1. L!Size = Size
  BY LobbyTaken DEF RoomInv
<1>2. CASE Count
  <2>1. UNCHANGED <<seats, bots>> /\ phase = "waiting" /\ phase' = "called" /\ Size = 4
    BY <1>2 DEF Count, Step, phase
  <2>2. L!Call
    BY <1>1, <2>1, LobbyTurn DEF L!Call
  <2> QED BY <2>2 DEF L!Next
<1>3. CASE Mark
  <2>1. UNCHANGED <<seats, bots>> /\ phase = "called" /\ phase' = "dealing"
    BY <1>3 DEF Mark, Step, phase
  <2>2. L!Start
    BY <2>1, LobbyTurn DEF L!Start
  <2> QED BY <2>2 DEF L!Next
<1>4. CASE Deal
  <2>1. UNCHANGED <<seats, bots>> /\ phase = "dealing" /\ phase' = "playing" /\ Size = 4
    BY <1>4 DEF Deal, Step, phase
  <2>2. L!Deal
    BY <1>1, <2>1, LobbyTurn DEF L!Deal
  <2> QED BY <2>2 DEF L!Next
<1>5. CASE Crash
  <2>1. /\ UNCHANGED <<seats, bots>>
        /\ \/ phase \in {"dealing", "playing"} /\ phase' = "broken"
           \/ phase = "over" /\ phase' = "waiting"
    BY <1>5 DEF Crash, Step, phase, RoomInv, StartExact
  <2>2. L!Break \/ L!Abandon
    BY <2>1, LobbyTurn DEF L!Break, L!Abandon
  <2> QED BY <2>2 DEF L!Next
<1>6. CASE MatchOver
  <2>1. UNCHANGED <<seats, bots>> /\ phase = "playing" /\ phase' = "over"
    BY <1>6 DEF MatchOver, Step, phase
  <2>2. L!Finish
    BY <2>1, LobbyTurn DEF L!Finish
  <2> QED BY <2>2 DEF L!Next
<1>7. CASE Rank \/ CloseAll
  <2>1. UNCHANGED <<seats, bots>> /\ phase' = phase
    BY <1>7 DEF Rank, CloseAll, Step, phase
  <2> QED BY <2>1, LobbyStutter
<1>8. CASE Clear
  <2>1. /\ seats' = [k \in Places |-> NoSeat] /\ bots' = 0
        /\ phase = "over" /\ phase' = "empty"
    BY <1>8 DEF Clear, Step, phase
  <2>2. Name' = [k \in Places |-> Nobody] /\ Away' = {}
    BY <2>1 DEF Name, Away, Seated, NoSeat, Client
  <2>3. L!Empty
    BY <1>1, <2>1, <2>2, LobbyTaken DEF L!Empty, Name, Away, RoomInv
  <2> QED BY <2>3 DEF L!Next
<1>9. CASE PutBot
  <2>1. /\ UNCHANGED seats /\ bots < Bots /\ bots' = bots + 1
        /\ phase = "empty" /\ phase' = "empty"
    BY <1>9 DEF PutBot, phase
  <2>2. UNCHANGED <<Name, Away>>
    BY <2>1 DEF Name, Away, Seated, IsHuman
  <2>3. L!PutBot
    BY <2>1, <2>2 DEF L!PutBot, Name, Away
  <2> QED BY <2>3 DEF L!Next
<1>10. CASE Reopen
  <2>1. UNCHANGED <<seats, bots>> /\ bots = Bots /\ phase = "empty" /\ phase' = "waiting"
    BY <1>10 DEF Reopen, Step, phase
  <2>2. L!Reopen
    BY <2>1, LobbyTurn DEF L!Reopen
  <2> QED BY <2>2 DEF L!Next
<1> QED
  BY <1>2, <1>3, <1>4, <1>5, <1>6, <1>7, <1>8, <1>9, <1>10 DEF GameThread

LEMMA LobbyStep == RoomInv /\ [Next]_vars => [L!Next]_(L!lobby)
<1> SUFFICES ASSUME RoomInv, [Next]_vars PROVE [L!Next]_(L!lobby)
  OBVIOUS
<1>1. ASSUME NEW n \in Names, NEW c \in Slots, PlayerJoin(n, c) PROVE [L!Next]_(L!lobby)
  <2>1. CASE JoinToObserve(c) \/ JoinFull(n, c)
    <3>1. UNCHANGED <<seats, bots, gameStart, thread>>
      BY <2>1 DEF JoinToObserve, JoinFull, Watch
    <3> QED BY <3>1, LobbyStutter, Phases
  <2> QED BY <1>1, <2>1, ReturnStep, JoinStep DEF PlayerJoin
<1>2. ASSUME NEW c \in Slots, ReaderEnds(c) PROVE [L!Next]_(L!lobby)
  BY <1>2, LeaveStep
<1>3. CASE (\E c \in Slots : Lose(c) \/ Confirm(c)) \/ UNCHANGED vars
  <2>1. UNCHANGED <<seats, bots, gameStart, thread>>
    BY <1>3 DEF Lose, Confirm, vars
  <2> QED BY <2>1, LobbyStutter, Phases
<1> QED BY <1>1, <1>2, <1>3, ThreadStep DEF Next

(* The room with its threads, its late readers and its observers implements    *)
(* Lobby: a match is dealt to four or it breaks off, the places of a match     *)
(* that was dealt stay with their names to its end, whoever is lost may        *)
(* return, and the room is then emptied and reopened.                          *)
THEOREM RoomIsLobby == Spec => LobbyKept
<1>1. Init => L!Init
  <2> SUFFICES ASSUME Init PROVE L!Init
    OBVIOUS
  <2>1. /\ seats = [k \in Places |-> NoSeat] /\ bots = Bots /\ phase = "waiting"
    BY DEF Init, phase
  <2>2. Name = [k \in Places |-> Nobody] /\ Away = {}
    BY <2>1 DEF Name, Away, Seated, NoSeat, Client
  <2> QED BY <2>1, <2>2 DEF L!Init, L!Places, Places, Name, Away
<1>2. RoomInv /\ [Next]_vars => [L!Next]_(L!lobby)
  BY LobbyStep
<1> QED BY <1>1, <1>2, RoomKept, PTL DEF Spec, LobbyKept, L!Spec

=============================================================================
