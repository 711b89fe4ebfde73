------------------------------- MODULE Exchange -------------------------------
(***************************************************************************)
(* How the game thread of online_game/server.py and one human player       *)
(* exchange questions and answers: the ControlledQueue between the reader  *)
(* thread (handle_client) and the game thread (fetch_message), the terminal*)
(* client of online_game/client.py at the other end of the connection, and *)
(* what happens to all of them when the connection is lost and taken up    *)
(* again.  What is asked and answered is left out; a message knows only    *)
(* which question it belongs to.                                           *)
(***************************************************************************)
EXTENDS Integers, Sequences

CONSTANTS
  Hasty,      \* kinds of message the player may send before the server waits
  HasAI,      \* the server was started with AI players (-A above 0)
  MaxHands,   \* bound: hands of the match
  MaxAsks,    \* bound: questions to this player in one hand
  MaxDrops,   \* bound: connections this player loses
  MaxExtra    \* bound: messages this player sends without being asked

ASSUME HastyAssumption == Hasty \subseteq {"answer", "ready"}
ASSUME ExchangeBounds ==
  /\ HasAI \in BOOLEAN
  /\ MaxHands \in Nat /\ MaxAsks \in Nat /\ MaxDrops \in Nat
  /\ MaxExtra \in Nat

VARIABLES
  queues,    \* the ControlledQueues made for this player, the last is message_queue
  socket,    \* client_socket is a socket, not 'Disconnected'
  joining,   \* player_join has set client_socket and not yet message_queue
  up,        \* the player's end of the connection is open
  toClient,  \* what the server sent on it
  toServer,  \* what the player sent on it
  owes,      \* the message the client is about to send
  reader,    \* the reader thread of this connection
  pc,        \* the game thread
  expect,    \* what it asked for last: "answer", "ready" or "final"
  held,      \* the queue it is taking a message from
  asked,     \* questions asked so far
  asks,      \* questions of this hand, for the bound
  hands, drops, extras,
  overtaken  \* history: the game thread used connection or queue while joining

vars == <<queues, socket, joining, up, toClient, toServer, owes, reader,
          pc, expect, held, asked, asks, hands, drops, extras, overtaken>>
connection == <<socket, joining, up, toClient, toServer, owes, reader, drops, extras>>

Msg(kind, id) == [kind |-> kind, id |-> id]
Quit == Msg("quit", 0)
Nothing == Msg("nothing", 0)

NewQueue == [allow |-> TRUE, items |-> <<>>]
Current == Len(queues)
Idle == [at |-> "read", msg |-> Nothing, queue |-> 0]

-----------------------------------------------------------------------------
(* The connection as the game thread uses it.                              *)

\* send_multiply: what cannot be sent is dropped.
Broadcast(kind) ==
  toClient' = IF socket /\ up THEN Append(toClient, Msg(kind, hands)) ELSE toClient

\* send_personal, when it does not raise.
Personal(kind, id) ==
  toClient' = IF up THEN Append(toClient, Msg(kind, id)) ELSE toClient

Goto(label) == pc' = label

-----------------------------------------------------------------------------
(* The game thread.                                                        *)

\* GameEnvironment.start makes a queue, send_all_game_info tells the player.
StartHand ==
  /\ pc = "start" /\ hands < MaxHands
  /\ queues' = IF socket THEN Append(queues, NewQueue) ELSE queues
  /\ IF socket THEN Personal("start", 0) ELSE UNCHANGED toClient
  /\ hands' = hands + 1 /\ asks' = 0 /\ Goto("turn")
  /\ UNCHANGED <<socket, joining, up, toServer, owes, reader, drops, extras, expect, held, asked>>

\* The player has something to decide: a decision or select_tile event.
Ask ==
  /\ pc = "turn" /\ socket /\ asks < MaxAsks
  /\ asked' = asked + 1 /\ asks' = asks + 1
  /\ Personal("question", asked + 1)
  /\ expect' = "answer" /\ Goto("recheck")
  /\ UNCHANGED <<queues, socket, joining, up, toServer, owes, reader, drops, extras, held, hands>>

\* The same when the player is gone: the AI decides, if there is one.
AskNobody ==
  /\ pc = "turn" /\ ~socket /\ asks < MaxAsks
  /\ asks' = asks + 1
  /\ Goto(IF HasAI THEN "turn" ELSE "dead")
  /\ UNCHANGED <<queues, connection, expect, held, asked, hands>>

\* sendall raises on a connection that is gone and nobody has noticed: the
\* exception ends game_thread.
SendRaises ==
  /\ pc \in {"turn", "start"} /\ socket /\ ~up
  /\ Goto("dead")
  /\ UNCHANGED <<queues, connection, expect, held, asked, asks, hands, overtaken>>

\* fetch_decision_message and fetch_discard_message look again.
Recheck ==
  /\ pc = "recheck"
  /\ Goto(IF socket THEN "allow" ELSE IF HasAI THEN "turn" ELSE "dead")
  /\ UNCHANGED <<queues, connection, expect, held, asked, asks, hands>>

\* As a fault: fetch_message without allow_put.
AllowPutForgotten ==
  /\ pc = "allow"
  /\ Goto("grab")
  /\ UNCHANGED <<queues, connection, expect, held, asked, asks, hands>>

\* fetch_message: allow_put on the queue the player has now ...
AllowPut ==
  /\ pc = "allow"
  /\ queues' = [queues EXCEPT ![Current].allow = TRUE]
  /\ Goto("grab")
  /\ UNCHANGED <<connection, expect, held, asked, asks, hands>>

\* ... then get on the queue he has by then.
Grab ==
  /\ pc = "grab"
  /\ held' = Current /\ Goto("get")
  /\ UNCHANGED <<queues, connection, expect, asked, asks, hands>>

\* get returns: an answer is used, anything else leaves the decision to the AI;
\* at the end of a hand any message lets the match go on.
Get ==
  /\ pc = "get" /\ queues[held].items # <<>>
  /\ queues' = [queues EXCEPT ![held].items = Tail(@)]
  /\ Goto(CASE expect = "answer" ->
                 IF HasAI \/ Head(queues[held].items).kind = "answer" THEN "turn" ELSE "dead"
            [] expect = "ready" -> "next"
            [] expect = "final" -> "close")
  /\ UNCHANGED <<connection, expect, held, asked, asks, hands>>

\* The hand is over: agari or ryuukyoku is sent.
EndHand ==
  /\ pc = "turn"
  /\ Broadcast("over") /\ Goto("pause")
  /\ UNCHANGED <<queues, socket, joining, up, toServer, owes, reader, drops, extras,
                 expect, held, asked, asks, hands>>

\* After game_update and a pause of two seconds: settlement, then the wait for
\* the players that are there.
Settle ==
  /\ pc = "pause"
  /\ Broadcast("settlement") /\ expect' = "ready"
  /\ Goto(IF socket THEN "allow" ELSE "next")
  /\ UNCHANGED <<queues, socket, joining, up, toServer, owes, reader, drops, extras,
                 held, asked, asks, hands>>

NextHand ==
  /\ pc = "next" /\ hands < MaxHands /\ Goto("start")
  /\ UNCHANGED <<queues, connection, expect, held, asked, asks, hands>>

\* The match is over: the ranking is sent and confirmed once more.
MatchOver ==
  /\ pc = "next"
  /\ Broadcast("score") /\ expect' = "final"
  /\ Goto(IF socket THEN "allow" ELSE "close")
  /\ UNCHANGED <<queues, socket, joining, up, toServer, owes, reader, drops, extras,
                 held, asked, asks, hands>>

\* end is sent, the connections are closed and the room is reset.
CloseMatch ==
  /\ pc = "close"
  /\ Broadcast("end") /\ Goto("done")
  /\ UNCHANGED <<queues, socket, joining, up, toServer, owes, reader, drops, extras,
                 expect, held, asked, asks, hands>>

\* It may run between the two assignments of player_join: what it sends is then on
\* the new connection before there is a new queue, what it takes is from the old one.
GameThread ==
  \/ /\ StartHand \/ Ask \/ Get \/ EndHand \/ Settle \/ MatchOver \/ CloseMatch
     /\ overtaken' = (overtaken \/ joining)
  \/ /\ AskNobody \/ Recheck \/ AllowPut \/ Grab \/ NextHand
     /\ UNCHANGED overtaken

-----------------------------------------------------------------------------
(* The reader thread: handle_client and ControlledQueue.put.               *)

game == <<pc, expect, held, asked, asks, hands, overtaken>>

\* As faults: the end of the connection does not reach the queue; the queue is
\* numbered from zero.
ReadEndSilently ==
  /\ socket /\ reader.at = "read" /\ toServer # <<>>
  /\ toServer' = Tail(toServer)
  /\ reader' = [at |-> IF Head(toServer) = Quit THEN "leave" ELSE "check",
                msg |-> Head(toServer), queue |-> Current]
  /\ UNCHANGED <<queues, socket, joining, up, toClient, owes, drops, extras, game>>

ReadQueueBefore ==
  /\ socket /\ reader.at = "read" /\ toServer # <<>>
  /\ toServer' = Tail(toServer)
  /\ reader' = [at |-> "check", msg |-> Head(toServer), queue |-> Current - 1]
  /\ UNCHANGED <<queues, socket, joining, up, toClient, owes, drops, extras, game>>

\* A message, or the end of the connection, which is turned into a quit.
Read ==
  /\ socket /\ reader.at = "read" /\ toServer # <<>>
  /\ toServer' = Tail(toServer)
  /\ reader' = [at |-> "check", msg |-> Head(toServer), queue |-> Current]
  /\ UNCHANGED <<queues, socket, joining, up, toClient, owes, drops, extras, game>>

\* Where a message leaves the reader: after a quit it removes the player.
After(msg) == [Idle EXCEPT !.at = IF msg = Quit THEN "leave" ELSE "read"]

\* put finds _allow_put unset and drops the message.
PutRefused ==
  /\ reader.at = "check" /\ ~queues[reader.queue].allow
  /\ reader' = After(reader.msg)
  /\ UNCHANGED <<queues, socket, joining, up, toClient, toServer, owes, drops, extras, game>>

PutAllowed ==
  /\ reader.at = "check" /\ queues[reader.queue].allow
  /\ reader' = [reader EXCEPT !.at = "clear"]
  /\ UNCHANGED <<queues, socket, joining, up, toClient, toServer, owes, drops, extras, game>>

\* As a fault: put leaves the permission for the next message.
PutKeepsPermission ==
  /\ reader.at = "clear"
  /\ reader' = [reader EXCEPT !.at = "enqueue"]
  /\ UNCHANGED <<queues, socket, joining, up, toClient, toServer, owes, drops, extras, game>>

PutClear ==
  /\ reader.at = "clear"
  /\ queues' = [queues EXCEPT ![reader.queue].allow = FALSE]
  /\ reader' = [reader EXCEPT !.at = "enqueue"]
  /\ UNCHANGED <<socket, joining, up, toClient, toServer, owes, drops, extras, game>>

PutItem ==
  /\ reader.at = "enqueue"
  /\ queues' = [queues EXCEPT ![reader.queue].items = Append(@, reader.msg)]
  /\ reader' = After(reader.msg)
  /\ UNCHANGED <<socket, joining, up, toClient, toServer, owes, drops, extras, game>>

\* player_disconnect while a game is on.
Leave ==
  /\ reader.at = "leave"
  /\ socket' = FALSE /\ reader' = Idle /\ toServer' = <<>> /\ toClient' = <<>>
  /\ UNCHANGED <<queues, joining, up, owes, drops, extras, game>>

ReaderThread == Read \/ PutRefused \/ PutAllowed \/ PutClear \/ PutItem \/ Leave

-----------------------------------------------------------------------------
(* The terminal client and its player.                                     *)

\* handle_connection of client.py takes the next event.  The end of a hand, not
\* the settlement, makes it ask for Enter; nothing makes it confirm the ranking.
Receive ==
  /\ up /\ owes = Nothing /\ toClient # <<>>
  /\ toClient' = Tail(toClient)
  /\ LET event == Head(toClient)
     IN  owes' = CASE event.kind = "question" -> Msg("answer", event.id)
                   [] event.kind = "over" -> Msg("ready", event.id)
                   [] OTHER -> Nothing
  /\ UNCHANGED <<queues, socket, joining, up, toServer, reader, drops, extras, game>>

\* The player decides or presses Enter.
Reply ==
  /\ up /\ owes # Nothing
  /\ owes.kind \in Hasty \/ pc = "get"
  /\ toServer' = Append(toServer, owes) /\ owes' = Nothing
  /\ UNCHANGED <<queues, socket, joining, up, toClient, reader, drops, extras, game>>

\* Another client than the terminal's may send an answer nobody asked for, or the
\* same answer twice.
Extra ==
  /\ up /\ extras < MaxExtra /\ pc # "done"
  /\ toServer' = Append(toServer, Msg("answer", asked)) /\ extras' = extras + 1
  /\ UNCHANGED <<queues, socket, joining, up, toClient, owes, reader, drops, game>>

\* The connection is lost; the server sees its end after what was sent before.
Drop ==
  /\ up /\ socket /\ ~joining /\ drops < MaxDrops /\ pc # "done"
  /\ up' = FALSE /\ drops' = drops + 1 /\ owes' = Nothing /\ toClient' = <<>>
  /\ toServer' = Append(toServer, Quit)
  /\ UNCHANGED <<queues, socket, joining, reader, extras, game>>

\* player_join with the name of a disconnected player: first the socket ...
Rejoin ==
  /\ ~up /\ ~socket /\ ~joining /\ expect # "final"
  /\ socket' = TRUE /\ up' = TRUE /\ joining' = TRUE
  /\ UNCHANGED <<queues, toClient, toServer, owes, reader, drops, extras, game>>

\* As a fault: the player comes back to his old queue.
RejoinSameQueue ==
  /\ joining
  /\ joining' = FALSE
  /\ Personal("start", 0)
  /\ UNCHANGED <<queues, socket, up, toServer, owes, reader, drops, extras, game>>

\* ... then a new queue; the reader of the new connection starts after that.
RejoinQueue ==
  /\ joining
  /\ queues' = Append(queues, NewQueue) /\ joining' = FALSE
  /\ Personal("start", 0)
  /\ UNCHANGED <<socket, up, toServer, owes, reader, drops, extras, game>>

\* Nothing is left to do: the match was closed, or the thread is gone.
Stopped == pc \in {"done", "dead"} /\ UNCHANGED vars

-----------------------------------------------------------------------------
Init ==
  /\ queues = <<NewQueue>> /\ socket = TRUE /\ joining = FALSE /\ up = TRUE
  /\ toClient = <<>> /\ toServer = <<>> /\ owes = Nothing /\ reader = Idle
  /\ pc = "start" /\ expect = "answer" /\ held = 1
  /\ asked = 0 /\ asks = 0 /\ hands = 0 /\ drops = 0 /\ extras = 0
  /\ overtaken = FALSE

Next ==
  \/ GameThread \/ SendRaises \/ ReaderThread
  \/ Receive \/ Reply \/ Extra \/ Drop \/ Rejoin \/ RejoinQueue \/ Stopped

Spec == Init /\ [][Next]_vars

\* Both threads of the server run, and a player who is asked answers in the end.
\* Nothing makes a player leave or come back.
FairSpec ==
  /\ Spec
  /\ WF_vars(GameThread) /\ WF_vars(ReaderThread)
  /\ WF_vars(Receive) /\ WF_vars(Reply) /\ WF_vars(RejoinQueue)

-----------------------------------------------------------------------------
(* Properties.                                                             *)

Messages == [kind : {"answer", "ready", "quit", "nothing"}, id : Nat]
Events == [kind : {"question", "over", "settlement", "score", "end", "start"}, id : Nat]
Labels == {"start", "turn", "recheck", "allow", "grab", "get", "pause", "next",
           "close", "done", "dead"}

TypeOK ==
  /\ queues \in Seq([allow : BOOLEAN, items : Seq(Messages)]) /\ queues # <<>>
  /\ socket \in BOOLEAN /\ joining \in BOOLEAN /\ up \in BOOLEAN
  /\ toClient \in Seq(Events) /\ toServer \in Seq(Messages) /\ owes \in Messages
  /\ reader \in [at : {"read", "check", "clear", "enqueue", "leave"},
                msg : Messages, queue : 0..Current]
  /\ reader.at \in {"check", "clear", "enqueue"} => reader.queue # 0
  /\ pc \in Labels /\ expect \in {"answer", "ready", "final"} /\ held \in 1..Current
  /\ asked \in Nat /\ asks \in Nat /\ hands \in Nat /\ drops \in Nat /\ extras \in Nat
  /\ overtaken \in BOOLEAN

\* Each decision step consumes the message made for it (Server/README.md:153): what
\* the game thread takes for an answer was sent for the question it has asked, and
\* what it takes for a confirmation confirms this hand, or the player is gone.
Fits(msg) ==
  \/ msg = Quit
  \/ expect = "answer" /\ msg = Msg("answer", asked)
  \/ expect \in {"ready", "final"} /\ msg = Msg("ready", hands)
AnswersMatch ==
  ~overtaken /\ extras = 0 /\ pc = "get" /\ queues[held].items # <<>> =>
    Fits(Head(queues[held].items))

\* put lets in one message for each allow_put, however its three steps and those of
\* the game thread interleave and whatever the player sends: a queue holds one message
\* or permission, and a second only while the game thread is taking one.
Tokens(q) ==
  Len(queues[q].items)
  + (IF queues[q].allow THEN 1 ELSE 0)
  + (IF reader.at = "enqueue" /\ reader.queue = q THEN 1 ELSE 0)
OnePermission ==
  /\ reader.at = "clear" => queues[reader.queue].allow
  /\ \A q \in 1..Current :
       /\ Tokens(q) <= 2
       /\ q = Current /\ pc # "grab" /\ ~(pc = "get" /\ held = q) => Tokens(q) <= 1

\* What the game thread could still take: the question or the end of the hand with the
\* player, his answer or the end of the connection on the way to the queue.
OnItsWay ==
  \/ /\ up
     /\ \/ \E k \in DOMAIN toClient : toClient[k] = Msg("question", asked)
        \/ owes = Msg("answer", asked)
  \/ toServer # <<>>
  \/ reader.at \in {"check", "clear", "enqueue"} /\ reader.queue = held

\* Once the thread takes from the queue the player has, and will keep until he leaves,
\* put drops nothing it could have taken: his answer ends the wait, whatever else he
\* sent, and so does the end of his connection, at whatever moment of the wait it comes.
AskedIsServed == (pc = "get" /\ held = Current /\ ~joining /\ OnItsWay) ~> pc # "get"

\* A wait for an answer, or for the Enter that the client asks for with
\* `press Enter to continue' (client.py:392), comes to an end while the connection lasts.
Waiting == pc \in {"allow", "grab", "get"}
WaitsEnd == (Waiting /\ expect # "final" /\ drops = 0) ~> (~Waiting \/ drops > 0)

\* `This guarantees that the game loop consumes exactly one client message per decision
\* step' (Server/README.md:153): so too when the player of that step is gone and does not
\* come back, whose leaving is a message like any other.
DecisionStepEnds == (pc = "get" /\ expect = "answer" /\ ~up) ~> (pc # "get" \/ up)

\* A disconnected player who reconnects with the same username (Server/README.md)
\* is asked again, sooner or later, unless the match ends or he leaves again.
ReconnectWorks ==
  (up /\ socket /\ drops > 0) ~> (~up \/ pc = "done" \/ owes # Nothing \/ toServer # <<>>)

\* reset() and wait for next game (Server/README.md): a finished match is closed.
MatchCloses == (pc = "next" /\ hands = MaxHands) ~> pc = "done"

=============================================================================
