--------------------------------- MODULE Lobby ---------------------------------
(***************************************************************************)
(* What the room of online_game/server.py keeps to, without connections,   *)
(* threads or observers.  People come and go until four places are taken,  *)
(* and then the four are called.  Until the match is dealt they may still  *)
(* come and go, so the match may find fewer than four: it is dealt to four *)
(* or it breaks off.  Once it is dealt its four places stay with their     *)
(* names to its end, whoever loses the connection keeps the place, and     *)
(* after the ranking the room is emptied and the bots put back, whoever    *)
(* comes in between.  A room whose match broke off is never called again;  *)
(* one whose ranking did is called with whoever is in it.                  *)
(* Room implements it.                                                     *)
(***************************************************************************)
EXTENDS Integers, FiniteSets

CONSTANTS
  Names,   \* the players
  Nobody,  \* the name of a place that is not taken
  Bots     \* how many players the server itself provides

VARIABLES
  place,  \* who has each of the places
  away,   \* the places whose player is not connected
  bots,   \* the bots in the room
  phase   \* "waiting", "called", "dealing", "playing", "broken", "over", "empty"

lobby == <<place, away, bots, phase>>

Places == 1..4
Taken == {k \in Places : place[k] # Nobody}
Size == Cardinality(Taken) + bots
Match == {"dealing", "playing", "broken"}

Init ==
  /\ place = [k \in Places |-> Nobody] /\ away = {} /\ bots = Bots
  /\ phase = "waiting"

Join(n, k) ==
  /\ Size < 4 /\ k \notin Taken
  /\ place' = [place EXCEPT ![k] = n]
  /\ UNCHANGED <<away, bots, phase>>

\* Between matches a player who is gone gives up the place.
Leave(k) ==
  /\ phase \notin Match /\ k \in Taken
  /\ place' = [place EXCEPT ![k] = Nobody] /\ away' = away \ {k}
  /\ UNCHANGED <<bots, phase>>

\* During one he keeps it.
Lose(k) ==
  /\ phase \in Match /\ k \in Taken
  /\ away' = away \union {k}
  /\ UNCHANGED <<place, bots, phase>>

Return(k) ==
  /\ phase \in Match /\ k \in away
  /\ away' = away \ {k}
  /\ UNCHANGED <<place, bots, phase>>

Turn(from, to) ==
  /\ phase = from /\ phase' = to
  /\ UNCHANGED <<place, away, bots>>

Call == Size = 4 /\ Turn("waiting", "called")
Start == Turn("called", "dealing")
Deal == Size = 4 /\ Turn("dealing", "playing")
Break == Turn("dealing", "broken") \/ Turn("playing", "broken")
Finish == Turn("playing", "over")
Abandon == Turn("over", "waiting")

\* The room is cleared, then opened with the bots back in it.
Empty ==
  /\ phase = "over" /\ phase' = "empty"
  /\ place' = [k \in Places |-> Nobody] /\ away' = {} /\ bots' = 0

PutBot ==
  /\ phase = "empty" /\ bots < Bots
  /\ bots' = bots + 1
  /\ UNCHANGED <<place, away, phase>>

Reopen == bots = Bots /\ Turn("empty", "waiting")

Next ==
  \/ \E k \in Places : (\E n \in Names : Join(n, k)) \/ Leave(k) \/ Lose(k) \/ Return(k)
  \/ Call \/ Start \/ Deal \/ Break \/ Finish \/ Abandon \/ Empty \/ PutBot \/ Reopen

Spec == Init /\ [][Next]_lobby
=============================================================================
