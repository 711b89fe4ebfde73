---------------------------------- MODULE Room ----------------------------------
(***************************************************************************)
(* The room of online_game/server.py: the accept thread (handle_connection,*)
(* player_join), one reader thread per connection (handle_client,          *)
(* player_disconnect), the loop of run() that starts a match when four are *)
(* there, and the game thread from the beginning of a match to reset().    *)
(* They share clients and game_start without a lock, so that any of them   *)
(* may move between two steps of another; player_join and player_disconnect*)
(* are one step each.  What is said on the connections is Exchange's.      *)
(***************************************************************************)
EXTENDS Integers, FiniteSets

CONSTANTS
  Names,         \* what the players call themselves, no bot among them
  Bots,          \* how many players the server provides (-A)
  AllowObserve,  \* -ob
  MaxConns       \* bound: connections the server has at a time

ASSUME RoomBounds ==
  /\ Bots \in 0..4 /\ AllowObserve \in BOOLEAN /\ MaxConns \in Nat \ {0}

VARIABLES
  seats,      \* the players in self.clients
  bots,       \* how many bots are in self.clients
  gameStart,  \* game_start
  thread,     \* how far the game thread is, "none" when there is none
  waited,     \* whose ready the ranking waits for
  conns,      \* the connections the server has accepted
  brokeOff    \* history: since the last reset() a match broke off after its end

vars == <<seats, bots, gameStart, thread, waited, conns, brokeOff>>

Slots == 1..MaxConns
Nobody == "nobody"
Free == [user |-> Nobody, at |-> "free"]
Uuid == "uuid"   \* the name an observer is given
ASSUME NameAssumption == {Nobody, Uuid} \intersect Names = {}

\* An entry of clients; conn is 0 for the socket 'Disconnected'.  Four places do:
\* a newcomer is seated only where there are fewer than four.
Places == 1..4
Client(name, conn) == [name |-> name, conn |-> conn]
NoSeat == Client(Nobody, 0)
IsHuman(e) == e.conn # 0

Seated == {k \in Places : seats[k] # NoSeat}
Size == Cardinality(Seated) + bots   \* len(self.clients)

\* self.clients.index(username): one of these.  The list is shuffled when a match
\* begins, so with a name that sits twice it may be either.
Of(name) == {k \in Seated : seats[k].name = name}

Init ==
  /\ seats = [k \in Places |-> NoSeat] /\ bots = Bots
  /\ gameStart = FALSE /\ thread = "none" /\ waited = {}
  /\ conns = [c \in Slots |-> Free] /\ brokeOff = FALSE

-----------------------------------------------------------------------------
(* The accept thread.                                                      *)

\* player_join finds room for the newcomer and greets him.  If that raises,
\* handle_connection goes on to the next connection: nobody reads this one.
Welcome(user, c) ==
  /\ conns[c] = Free /\ \A d \in 1..(c - 1) : conns[d] # Free
  /\ \E at \in {"open", "unread"} : conns' = [conns EXCEPT ![c] = [user |-> user, at |-> at]]

\* Nothing here depends on who is being watched.
Watch(c) ==
  /\ AllowObserve /\ Welcome(Uuid, c)
  /\ UNCHANGED <<seats, bots, gameStart, thread, waited, brokeOff>>

JoinToObserve(c) == Watch(c)

Refused(k) == ~gameStart /\ IsHuman(seats[k])
Returns(k) == gameStart /\ ~IsHuman(seats[k])

\* A name that is new, or whose seat is neither held against nor kept for him.
Newcomer(n) == Of(n) = {} \/ \E k \in Of(n) : ~Refused(k) /\ ~Returns(k)

\* The player of a match who is 'Disconnected' gets his seat back.
Rejoin(n, c) ==
  /\ Welcome(n, c)
  /\ \E k \in Of(n) : Returns(k) /\ seats' = [seats EXCEPT ![k] = Client(n, c)]
  /\ UNCHANGED <<bots, gameStart, thread, waited, brokeOff>>

\* Everybody else watches a room that is full, if that is allowed.
JoinFull(n, c) == Newcomer(n) /\ Size >= 4 /\ Watch(c)

TakeSeat(n, c) ==
  /\ Welcome(n, c)
  /\ \E k \in Places \ Seated :
       /\ 1..(k - 1) \subseteq Seated
       /\ seats' = [seats EXCEPT ![k] = Client(n, c)]
  /\ UNCHANGED <<bots, gameStart, thread, waited, brokeOff>>

\* Mutant: a seat too many.
SeatFifth(n, c) == Newcomer(n) /\ Size <= 4 /\ TakeSeat(n, c)

Seat(n, c) == Newcomer(n) /\ Size < 4 /\ TakeSeat(n, c)

PlayerJoin(n, c) == JoinToObserve(c) \/ Rejoin(n, c) \/ JoinFull(n, c) \/ Seat(n, c)

-----------------------------------------------------------------------------
(* The reader threads.                                                     *)

\* A player quits or his connection is lost; the server does not know yet.
Lose(c) ==
  /\ conns[c].at = "open"
  /\ conns' = [conns EXCEPT ![c].at = "ended"]
  /\ UNCHANGED <<seats, bots, gameStart, thread, waited, brokeOff>>

\* Mutant: player_disconnect gives the seat up in a match, too.
DropAlways(name) ==
  IF Of(name) = {} THEN UNCHANGED seats
  ELSE \E k \in Of(name) : seats' = [seats EXCEPT ![k] = NoSeat]

\* player_disconnect looks the client up by name.
DropEntry(name) ==
  IF Of(name) = {} THEN UNCHANGED seats
  ELSE \E k \in Of(name) :
         seats' = [seats EXCEPT ![k] = IF gameStart THEN Client(name, 0) ELSE NoSeat]

\* Mutant: the reader ends without player_disconnect.
ReaderEndsSilently(c) ==
  /\ conns[c].at = "ended"
  /\ waited' = waited \ {c}
  /\ conns' = [conns EXCEPT ![c] = Free]
  /\ UNCHANGED <<seats, bots, gameStart, thread, brokeOff>>

\* The reader puts 'quit' on the queue and ends.
ReaderEnds(c) ==
  /\ conns[c].at = "ended"
  /\ DropEntry(conns[c].user)
  /\ waited' = waited \ {c}
  /\ conns' = [conns EXCEPT ![c] = Free]
  /\ UNCHANGED <<bots, gameStart, thread, brokeOff>>

-----------------------------------------------------------------------------
(* run() and the game thread.                                              *)

Step(from, to) == thread = from /\ thread' = to

\* Mutant: a match does not wait for the fourth.
CountThree ==
  /\ Step("none", "begin") /\ Size >= 3 /\ ~gameStart
  /\ UNCHANGED <<seats, bots, gameStart, waited, conns, brokeOff>>

\* run() counts the clients and starts the thread.
Count ==
  /\ Step("none", "begin") /\ Size = 4 /\ ~gameStart
  /\ UNCHANGED <<seats, bots, gameStart, waited, conns, brokeOff>>

Mark ==
  /\ Step("begin", "marked")
  /\ gameStart' = TRUE
  /\ UNCHANGED <<seats, bots, waited, conns, brokeOff>>

\* send_all_game_info needs clients[0] to clients[3].
Deal ==
  /\ Step("marked", "play") /\ Size = 4
  /\ UNCHANGED <<seats, bots, gameStart, waited, conns, brokeOff>>

\* Whatever is raised in a match or after it, game_thread catches, and that is all.
Crash ==
  /\ waited = {} /\ \E at \in {"marked", "play", "over", "rank"} : Step(at, "none")
  /\ brokeOff' = (brokeOff \/ ~gameStart)
  /\ UNCHANGED <<seats, bots, gameStart, waited, conns>>

\* After the last hand of the match game_start is reset ...
MatchOver ==
  /\ Step("play", "over")
  /\ gameStart' = FALSE
  /\ UNCHANGED <<seats, bots, waited, conns, brokeOff>>

\* ... and a moment later the ranking is sent, to wait for the players there are.
Rank ==
  /\ Step("over", "rank")
  /\ waited' = {seats[k].conn : k \in {j \in Seated : IsHuman(seats[j])}}
  /\ UNCHANGED <<seats, bots, gameStart, conns, brokeOff>>

\* A player confirms the ranking.
Confirm(c) ==
  /\ thread = "rank" /\ c \in waited /\ conns[c].at = "open"
  /\ waited' = waited \ {c}
  /\ UNCHANGED <<seats, bots, gameStart, thread, conns, brokeOff>>

\* The server closes the players' connections; their readers are still there.
CloseAll ==
  /\ Step("rank", "closed") /\ waited = {}
  /\ conns' = [c \in Slots |->
       IF \A k \in Seated : seats[k].conn # c THEN conns[c]
       ELSE IF conns[c].at \in {"free", "unread"} THEN Free
       ELSE [conns[c] EXCEPT !.at = "ended"]]
  /\ UNCHANGED <<seats, bots, gameStart, waited, brokeOff>>

\* reset() clears the lists ...
Clear ==
  /\ Step("closed", "cleared")
  /\ seats' = [k \in Places |-> NoSeat] /\ bots' = 0 /\ brokeOff' = FALSE
  /\ UNCHANGED <<gameStart, waited, conns>>

\* ... and puts the bots back, one by one.
PutBot ==
  /\ thread = "cleared" /\ bots < Bots
  /\ gameStart' = FALSE /\ bots' = bots + 1
  /\ UNCHANGED <<seats, thread, waited, conns, brokeOff>>

Reopen ==
  /\ Step("cleared", "none") /\ bots = Bots
  /\ gameStart' = FALSE
  /\ UNCHANGED <<seats, bots, waited, conns, brokeOff>>

GameThread ==
  \/ Mark \/ Deal \/ Crash \/ MatchOver \/ Rank \/ CloseAll \/ Clear \/ PutBot \/ Reopen

Next ==
  \/ \E n \in Names, c \in Slots : PlayerJoin(n, c)
  \/ \E c \in Slots : Lose(c) \/ ReaderEnds(c) \/ Confirm(c)
  \/ Count \/ GameThread

Spec == Init /\ [][Next]_vars

-----------------------------------------------------------------------------
(* Properties.                                                             *)

\* The room holds four from the moment it has counted four until reset(), however
\* many come and go.  It may hold more when some came before the bots were back.
TypeOK ==
  /\ seats \in [Places -> {NoSeat} \union [name : Names, conn : 0..MaxConns]]
  /\ bots \in 0..Bots
  /\ thread \notin {"none", "cleared"} \/ gameStart => Size <= 4
  /\ gameStart \in BOOLEAN
  /\ thread \in {"none", "begin", "marked", "play", "over", "rank", "closed", "cleared"}
  /\ conns \in [Slots -> {Free} \union
                  [user : Names \union {Uuid}, at : {"open", "ended", "unread"}]]
  /\ waited \subseteq Slots /\ brokeOff \in BOOLEAN

phase ==
  CASE thread = "none" -> IF gameStart THEN "broken" ELSE "waiting"
    [] thread = "begin" -> "called"
    [] thread = "marked" -> "dealing"
    [] thread = "play" -> "playing"
    [] thread \in {"over", "rank", "closed"} -> "over"
    [] thread = "cleared" -> "empty"

L == INSTANCE Lobby WITH
       Nobody <- Nobody,
       place <- [k \in Places |-> seats[k].name],
       away <- {k \in Seated : ~IsHuman(seats[k])}

\* However joins, losses, readers of older connections and the game thread
\* interleave, the room keeps to Lobby (player_join, player_disconnect,
\* game_main_loop, reset): the four places of a match that was dealt stay with
\* their names to its end, and it is dealt to four or not at all.
LobbyKept == L!Spec

\* While a room waits or plays, a seat with a connection has a reader that will give
\* the seat up when the player leaves, though player_disconnect finds seats by name
\* and may be late: no ghost fills the room.  Excepted are a seat whose player could
\* not be greeted ("unread"), that of a name that sits twice, and a room whose last
\* match broke off after its end, which keeps the seats of its ranking.
SeatsAreRead ==
  ~brokeOff /\ thread \in {"none", "begin", "marked", "play"} =>
    \A k \in Seated :
      IsHuman(seats[k]) /\ Of(seats[k].name) = {k} => conns[seats[k].conn].user = seats[k].name

\* online_game/Server/README.md: during a game disconnected players can
\* reconnect with the same username.  So who has a place in the match and no
\* connection that works is not made to watch it.
ReconnectSeats ==
  [][\A n \in Names, c \in Slots :
       gameStart /\ Of(n) # {} /\ (\A d \in Slots : conns[d].user = n => conns[d].at = "ended")
       => ~JoinFull(n, c)]_vars
=============================================================================
