---------------------------- MODULE ExchangeProofs ----------------------------
(* Proofs about module Exchange, for any player, any number of hands,          *)
(* questions, lost connections and unasked messages.                           *)
EXTENDS Exchange, SequenceTheorems, TLAPS

QueueSet == [allow : BOOLEAN, items : Seq(Messages)]

(* What is sent is a message, and an event is an event.                        *)
LEMMA MessageTypes ==
  /\ Quit \in Messages /\ Nothing \in Messages
  /\ \A id \in Nat : Msg("answer", id) \in Messages /\ Msg("ready", id) \in Messages
  /\ \A id \in Nat : \A kind \in {"question", "over", "settlement", "score", "end", "start"} :
       Msg(kind, id) \in Events
BY DEF Quit, Nothing, Msg, Messages, Events

(* A queue that is made, opened, closed, filled or emptied is a queue.         *)
LEMMA QueueParts ==
  ASSUME NEW q \in QueueSet
  PROVE  /\ q.allow \in BOOLEAN /\ q.items \in Seq(Messages)
         /\ \A b \in BOOLEAN : [q EXCEPT !.allow = b] \in QueueSet
         /\ \A i \in Seq(Messages) : [q EXCEPT !.items = i] \in QueueSet
BY Zenon DEF QueueSet

LEMMA NewQueueType == NewQueue \in QueueSet
<1>1. <<>> \in Seq(Messages)
  OBVIOUS
<1> QED BY <1>1, Zenon DEF NewQueue, QueueSet

LEMMA QueueSeqs ==
  ASSUME NEW s \in Seq(QueueSet), NEW k \in 1..Len(s), NEW v \in QueueSet
  PROVE  /\ [s EXCEPT ![k] = v] \in Seq(QueueSet)
         /\ Len([s EXCEPT ![k] = v]) = Len(s)
OBVIOUS

LEMMA QueueAt ==
  ASSUME NEW s \in Seq(QueueSet), NEW k \in 1..Len(s)
  PROVE  s[k] \in QueueSet
OBVIOUS

LEMMA QueueAdded ==
  ASSUME NEW s \in Seq(QueueSet), NEW v \in QueueSet
  PROVE  /\ Append(s, v) \in Seq(QueueSet) /\ Append(s, v) # <<>>
         /\ Len(Append(s, v)) = Len(s) + 1 /\ Len(s) \in Nat
OBVIOUS

LEMMA EventSent ==
  ASSUME NEW s \in Seq(Events), NEW e \in Events PROVE Append(s, e) \in Seq(Events)
OBVIOUS

LEMMA MessageSent ==
  ASSUME NEW s \in Seq(Messages), NEW e \in Messages PROVE Append(s, e) \in Seq(Messages)
OBVIOUS

LEMMA NoMessages == <<>> \in Seq(Events) /\ <<>> \in Seq(Messages)
OBVIOUS

(* The type invariant in the names used here.                                  *)
ReaderSet == [at : {"read", "check", "clear", "enqueue", "leave"},
              msg : Messages, queue : 0..Current]

LEMMA TypeInit == Init => TypeOK
<1> SUFFICES ASSUME Init PROVE TypeOK
  OBVIOUS
<1>1. queues = <<NewQueue>> /\ queues \in Seq(QueueSet) /\ Current = 1
  BY NewQueueType DEF Init, Current
<1>2. reader \in ReaderSet /\ reader.at = "read"
  BY <1>1, MessageTypes DEF Init, Idle, ReaderSet, Current
<1>3. toClient \in Seq(Events) /\ toServer \in Seq(Messages) /\ queues # <<>>
  BY <1>1, NoMessages DEF Init
<1>4. socket \in BOOLEAN /\ joining \in BOOLEAN /\ up \in BOOLEAN /\ overtaken \in BOOLEAN
  BY DEF Init
<1> QED BY <1>1, <1>2, <1>3, <1>4, MessageTypes DEF Init, TypeOK, QueueSet, ReaderSet, Labels

(* The game thread keeps the types: the queues it makes, opens and empties.    *)
LEMMA TypeGame == TypeOK /\ (GameThread \/ SendRaises) => TypeOK'
<1> SUFFICES ASSUME TypeOK, GameThread \/ SendRaises PROVE TypeOK'
  OBVIOUS
<1>0. overtaken' \in BOOLEAN
  BY DEF TypeOK, GameThread, SendRaises
<1> USE <1>0, MessageTypes, NoMessages DEF TypeOK, Current, Labels, Goto, connection
<1>1. CASE StartHand
  <2>1. queues' \in Seq(QueueSet) /\ queues' # <<>> /\ Len(queues) <= Len(queues')
    <3>1. queues \in Seq(QueueSet) /\ queues # <<>> /\ Len(queues) \in Nat
      BY DEF QueueSet
    <3>2. Append(queues, NewQueue) \in Seq(QueueSet) /\ Append(queues, NewQueue) # <<>>
          /\ Len(Append(queues, NewQueue)) = Len(queues) + 1
      BY <3>1, NewQueueType, QueueAdded
    <3>3. queues' = Append(queues, NewQueue) \/ queues' = queues
      BY <1>1, Zenon DEF StartHand
    <3>4. CASE queues' = Append(queues, NewQueue)
      BY <3>1, <3>2, <3>4
    <3>5. CASE queues' = queues
      BY <3>1, <3>5
    <3> QED BY <3>3, <3>4, <3>5
  <2>2. reader' \in [at : {"read", "check", "clear", "enqueue", "leave"},
                     msg : Messages, queue : 0..Len(queues')]
    BY <1>1, <2>1 DEF StartHand
  <2>3. toClient' \in Seq(Events)
    <3>1. Msg("start", 0) \in Events
      OBVIOUS
    <3>2. toClient' = Append(toClient, Msg("start", 0)) \/ toClient' = toClient
      BY <1>1, Zenon DEF StartHand, Personal
    <3>3. toClient \in Seq(Events)
      OBVIOUS
    <3> QED BY <3>1, <3>2, <3>3, EventSent, Zenon
  <2> QED BY <1>1, <2>1, <2>2, <2>3 DEF StartHand, QueueSet
<1>2. CASE Ask
  BY <1>2 DEF Ask, Personal
<1>3. CASE AskNobody
  BY <1>3 DEF AskNobody
<1>4. CASE Recheck
  BY <1>4 DEF Recheck
<1>5. CASE AllowPut
  <2>1. queues \in Seq(QueueSet) /\ Len(queues) \in 1..Len(queues)
    BY DEF QueueSet
  <2>2. [queues[Len(queues)] EXCEPT !.allow = TRUE] \in QueueSet
    BY <2>1, QueueAt, QueueParts
  <2>3. queues' \in Seq(QueueSet) /\ Len(queues') = Len(queues) /\ queues' # <<>>
    BY <1>5, <2>1, <2>2, QueueSeqs DEF AllowPut
  <2> QED BY <1>5, <2>3 DEF AllowPut, QueueSet
<1>6. CASE Grab
  BY <1>6 DEF Grab
<1>7. CASE Get
  <2>1. queues \in Seq(QueueSet) /\ held \in 1..Len(queues) /\ queues[held] \in QueueSet
    <3>1. queues \in Seq(QueueSet) /\ held \in 1..Len(queues)
      BY DEF QueueSet
    <3> QED BY <3>1, QueueAt
  <2>2. Tail(queues[held].items) \in Seq(Messages)
    BY <1>7, <2>1, QueueParts DEF Get
  <2>3. [queues[held] EXCEPT !.items = Tail(queues[held].items)] \in QueueSet
    BY <2>1, <2>2, QueueParts
  <2>4. queues' \in Seq(QueueSet) /\ Len(queues') = Len(queues) /\ queues' # <<>>
    BY <1>7, <2>1, <2>3, QueueSeqs DEF Get
  <2>5. pc' \in Labels
    BY <1>7 DEF Get
  <2> QED BY <1>7, <2>4, <2>5 DEF Get, QueueSet
<1>8. CASE EndHand
  BY <1>8 DEF EndHand, Broadcast
<1>9. CASE Settle
  BY <1>9 DEF Settle, Broadcast
<1>10. CASE NextHand
  BY <1>10 DEF NextHand
<1>11. CASE MatchOver
  BY <1>11 DEF MatchOver, Broadcast
<1>12. CASE CloseMatch
  BY <1>12 DEF CloseMatch, Broadcast
<1>13. CASE SendRaises
  BY <1>13 DEF SendRaises
<1> QED BY <1>1, <1>2, <1>3, <1>4, <1>5, <1>6, <1>7, <1>8, <1>9, <1>10, <1>11,
           <1>12, <1>13 DEF GameThread

LEMMA IdleType ==
  /\ Idle.at = "read"
  /\ \A n \in Nat : Idle \in [at : {"read", "check", "clear", "enqueue", "leave"},
                          msg : Messages, queue : 0..n]
BY MessageTypes DEF Idle

(* After a message the reader reads on or leaves.                              *)
LEMMA AfterType ==
  ASSUME NEW msg
  PROVE  /\ After(msg).at \in {"read", "leave"}
         /\ \A n \in Nat : After(msg) \in [at : {"read", "check", "clear", "enqueue", "leave"},
                                          msg : Messages, queue : 0..n]
<1>1. [Idle EXCEPT !.at = "leave"] = [at |-> "leave", msg |-> Nothing, queue |-> 0]
  BY DEF Idle
<1>2. [Idle EXCEPT !.at = "read"] = [at |-> "read", msg |-> Nothing, queue |-> 0]
  BY DEF Idle
<1>3. CASE msg = Quit
  BY <1>1, <1>3, MessageTypes DEF After
<1>4. CASE msg # Quit
  BY <1>2, <1>4, MessageTypes DEF After
<1> QED BY <1>3, <1>4

(* So do the reader thread, the client and the network.                        *)
LEMMA TypeOthers ==
  TypeOK /\ (ReaderThread \/ Receive \/ Reply \/ Extra \/ Drop \/ Rejoin \/ RejoinQueue)
    => TypeOK'
<1> SUFFICES ASSUME TypeOK,
                    ReaderThread \/ Receive \/ Reply \/ Extra \/ Drop \/ Rejoin \/ RejoinQueue
             PROVE TypeOK'
  OBVIOUS
<1> USE MessageTypes, NoMessages DEF TypeOK, Current, Labels, game
<1>1. CASE Read
  BY <1>1 DEF Read
<1>2. CASE PutRefused
  <2>1. /\ reader' \in [at : {"read", "check", "clear", "enqueue", "leave"},
                        msg : Messages, queue : 0..Len(queues')]
        /\ reader'.at \in {"read", "leave"}
    BY <1>2, AfterType DEF PutRefused
  <2> QED BY <1>2, <2>1 DEF PutRefused
<1>3. CASE PutAllowed
  <2>1. /\ reader' \in [at : {"read", "check", "clear", "enqueue", "leave"},
                        msg : Messages, queue : 0..Len(queues')]
        /\ reader'.at = "clear" /\ reader'.queue = reader.queue
    BY <1>3, Zenon DEF PutAllowed
  <2> QED BY <1>3, <2>1 DEF PutAllowed
<1>4. CASE PutClear
  <2>1. queues \in Seq(QueueSet) /\ reader.queue \in 1..Len(queues)
    BY <1>4 DEF PutClear, QueueSet
  <2>2. [queues[reader.queue] EXCEPT !.allow = FALSE] \in QueueSet
    BY <2>1, QueueAt, QueueParts
  <2>3. queues' \in Seq(QueueSet) /\ Len(queues') = Len(queues) /\ queues' # <<>>
    BY <1>4, <2>1, <2>2, QueueSeqs DEF PutClear
  <2>4. /\ reader' \in [at : {"read", "check", "clear", "enqueue", "leave"},
                        msg : Messages, queue : 0..Len(queues')]
        /\ reader'.at = "enqueue" /\ reader'.queue = reader.queue
    BY <1>4, <2>3, Zenon DEF PutClear
  <2> QED BY <1>4, <2>1, <2>3, <2>4 DEF PutClear, QueueSet
<1>5. CASE PutItem
  <2>1. queues \in Seq(QueueSet) /\ reader.queue \in 1..Len(queues)
    BY <1>5 DEF PutItem, QueueSet
  <2>2. queues[reader.queue] \in QueueSet /\ reader.msg \in Messages
    BY <2>1, QueueAt
  <2>3. Append(queues[reader.queue].items, reader.msg) \in Seq(Messages)
    BY <2>2, QueueParts
  <2>4. [queues[reader.queue] EXCEPT !.items = Append(@, reader.msg)] \in QueueSet
    BY <2>2, <2>3, QueueParts
  <2>5. queues' \in Seq(QueueSet) /\ Len(queues') = Len(queues) /\ queues' # <<>>
    BY <1>5, <2>1, <2>4, QueueSeqs DEF PutItem
  <2>6. /\ reader' \in [at : {"read", "check", "clear", "enqueue", "leave"},
                        msg : Messages, queue : 0..Len(queues')]
        /\ reader'.at \in {"read", "leave"}
    BY <1>5, <2>5, AfterType DEF PutItem
  <2> QED BY <1>5, <2>5, <2>6 DEF PutItem, QueueSet
<1>6. CASE Leave
  <2>1. reader' = Idle /\ queues' = queues /\ Len(queues) \in Nat
    BY <1>6 DEF Leave
  <2>2. /\ reader' \in [at : {"read", "check", "clear", "enqueue", "leave"},
                        msg : Messages, queue : 0..Len(queues')]
        /\ reader'.at = "read"
    BY <2>1, IdleType
  <2>3. socket' \in BOOLEAN
    BY <1>6 DEF Leave
  <2> QED BY <1>6, <2>1, <2>2, <2>3 DEF Leave
<1>7. CASE Receive
  <2>1. Head(toClient) \in Events /\ toClient' \in Seq(Events)
    BY <1>7 DEF Receive
  <2>0. Head(toClient).id \in Nat
    BY <2>1 DEF Events
  <2>2. owes' \in Messages
    BY <1>7, <2>0 DEF Receive
  <2> QED BY <1>7, <2>1, <2>2 DEF Receive
<1>8. CASE Reply
  BY <1>8 DEF Reply
<1>9. CASE Extra
  BY <1>9 DEF Extra
<1>10. CASE Drop
  <2>0. up' \in BOOLEAN
    BY <1>10, Zenon DEF Drop
  <2>1. drops' \in Nat /\ owes' \in Messages
    BY <1>10, MessageTypes DEF Drop
  <2>2. toClient' \in Seq(Events)
    BY <1>10, NoMessages, Zenon DEF Drop
  <2>3. toServer' \in Seq(Messages)
    <3>1. toServer \in Seq(Messages) /\ Quit \in Messages
      OBVIOUS
    <3>2. toServer' = Append(toServer, Quit)
      BY <1>10 DEF Drop
    <3> QED BY <3>1, <3>2, MessageSent, Zenon
  <2> QED BY <1>10, <2>0, <2>1, <2>2, <2>3 DEF Drop
<1>11. CASE Rejoin
  BY <1>11 DEF Rejoin
<1>12. CASE RejoinQueue
  <2>1. queues \in Seq(QueueSet) /\ Len(queues) \in Nat
    BY DEF QueueSet
  <2>2. queues' \in Seq(QueueSet) /\ queues' # <<>> /\ Len(queues') = Len(queues) + 1
    BY <1>12, <2>1, NewQueueType, QueueAdded DEF RejoinQueue
  <2>3. reader' \in [at : {"read", "check", "clear", "enqueue", "leave"},
                     msg : Messages, queue : 0..Len(queues')]
    BY <1>12, <2>1, <2>2 DEF RejoinQueue
  <2>4. toClient' \in Seq(Events)
    <3>1. Msg("start", 0) \in Events
      OBVIOUS
    <3>2. toClient' = Append(toClient, Msg("start", 0)) \/ toClient' = toClient
      BY <1>12, Zenon DEF RejoinQueue, Personal
    <3>3. toClient \in Seq(Events)
      OBVIOUS
    <3> QED BY <3>1, <3>2, <3>3, EventSent, Zenon
  <2>5. joining' \in BOOLEAN /\ (reader'.at \in {"check", "clear", "enqueue"} => reader'.queue # 0)
    BY <1>12, Zenon DEF RejoinQueue
  <2>6. UNCHANGED <<socket, up, toServer, owes, drops, extras, pc, expect, held, asked, asks, hands,
                    overtaken>>
    BY <1>12 DEF RejoinQueue
  <2>7. held' \in 1..Len(queues')
    BY <2>1, <2>2, <2>6
  <2> QED BY <2>2, <2>3, <2>4, <2>5, <2>6, <2>7 DEF QueueSet
<1> QED BY <1>1, <1>2, <1>3, <1>4, <1>5, <1>6, <1>7, <1>8, <1>9, <1>10, <1>11,
           <1>12 DEF ReaderThread

(* A step of the specification keeps the types.                                *)
LEMMA TypeStep == TypeOK /\ [Next]_vars => TypeOK'
<1> SUFFICES ASSUME TypeOK, [Next]_vars PROVE TypeOK'
  OBVIOUS
<1>1. CASE UNCHANGED vars
  BY <1>1 DEF TypeOK, vars, Current
<1>2. CASE Stopped
  BY <1>2 DEF TypeOK, vars, Current, Stopped
<1> QED BY <1>1, <1>2, TypeGame, TypeOthers DEF Next

(* Every variable of the exchange keeps its type, and the reader's and the game *)
(* thread's queue numbers always name a queue.                                  *)
THEOREM TypeCorrect == Spec => []TypeOK
BY TypeInit, TypeStep, PTL DEF Spec

-----------------------------------------------------------------------------
(* The balance of permissions and messages.                                    *)

Worth(n, a, e) == n + (IF a THEN 1 ELSE 0) + (IF e THEN 1 ELSE 0)
Arriving(q) == reader.at = "enqueue" /\ reader.queue = q

LEMMA WorthValues ==
  ASSUME NEW n \in Int, NEW a \in BOOLEAN, NEW e \in BOOLEAN
  PROVE  /\ Worth(n, a, e) \in Int
         /\ n <= Worth(n, a, e) /\ Worth(n, a, e) <= n + 2
         /\ Worth(n, TRUE, e) <= Worth(n, a, e) + 1
         /\ Worth(n + 1, a, FALSE) = Worth(n, a, TRUE)
         /\ Worth(n - 1, a, e) = Worth(n, a, e) - 1
         /\ Worth(n, FALSE, TRUE) = Worth(n, TRUE, FALSE)
         /\ Worth(0, TRUE, FALSE) = 1
BY DEF Worth

LEMMA TokensWorth ==
  \A q : Tokens(q) = Worth(Len(queues[q].items), queues[q].allow, Arriving(q))
BY Zenon DEF Tokens, Worth, Arriving

LEMMA TokensWorthNext ==
  \A q : Tokens(q)' = Worth(Len(queues'[q].items), queues'[q].allow, Arriving(q)')
BY Zenon DEF Tokens, Worth, Arriving

LEMMA TokensInt ==
  ASSUME TypeOK, NEW q \in 1..Current
  PROVE  Tokens(q) \in Int /\ Len(queues[q].items) \in Nat /\ queues[q] \in QueueSet
<1>1. queues[q] \in QueueSet
  BY QueueAt DEF TypeOK, Current, QueueSet
<1>2. queues[q].items \in Seq(Messages)
  BY <1>1, QueueParts
<1>3. Len(queues[q].items) \in Nat
  BY <1>2
<1> QED BY <1>1, <1>3 DEF Tokens

(* A step that leaves the queues alone, moves no message through put and does   *)
(* not end a wait keeps the balance.                                           *)
LEMMA QuietStep ==
  ASSUME TypeOK, OnePermission, queues' = queues,
         \/ reader' = reader
         \/ reader.at # "enqueue" /\ reader'.at \notin {"clear", "enqueue"}
         \/ /\ reader.at # "enqueue" /\ reader'.at = "clear"
            /\ queues[reader'.queue].allow,
         \/ pc' = pc /\ held' = held
         \/ pc \notin {"grab", "get"}
         \/ pc = "grab" /\ pc' = "get" /\ held' = Current
  PROVE  OnePermission'
<1>1. reader'.at = "clear" => queues'[reader'.queue].allow
  BY DEF OnePermission
<1>2. ASSUME NEW q \in 1..Current
      PROVE  /\ Tokens(q)' <= 2
             /\ q = Current /\ pc' # "grab" /\ ~(pc' = "get" /\ held' = q) => Tokens(q)' <= 1
  <2>1. Tokens(q)' <= Tokens(q) /\ Tokens(q)' \in Int /\ Tokens(q) \in Int
    <3>1. reader'.at = "enqueue" /\ reader'.queue = q
            => reader.at = "enqueue" /\ reader.queue = q
      OBVIOUS
    <3> QED BY <3>1, TokensInt DEF Tokens
  <2>2. Tokens(q) <= 2
    BY DEF OnePermission
  <2>3. q = Current /\ pc # "grab" /\ ~(pc = "get" /\ held = q) => Tokens(q) <= 1
    BY DEF OnePermission
  <2> QED BY <2>1, <2>2, <2>3
<1>3. Current' = Current
  BY DEF Current
<1> QED BY <1>1, <1>2, <1>3 DEF OnePermission

(* A new queue has one permission, and the queues before it are left alone.    *)
LEMMA NewQueueStep ==
  ASSUME TypeOK, OnePermission, queues' = Append(queues, NewQueue),
         reader' = reader, reader.at = "enqueue" => reader.queue \in 1..Current
  PROVE  OnePermission'
<1>1. queues \in Seq(QueueSet) /\ Current \in Nat /\ Current' = Current + 1
  BY NewQueueType DEF TypeOK, Current, QueueSet
<1>2. ASSUME NEW q \in 1..Current PROVE queues'[q] = queues[q]
  BY <1>1 DEF Current
<1>3. queues'[Current + 1] = NewQueue
  BY <1>1 DEF Current
<1>4. reader.at = "clear" => reader.queue \in 1..Current
  BY <1>1 DEF TypeOK
<1>5. reader'.at = "clear" => queues'[reader'.queue].allow
  BY <1>2, <1>4 DEF OnePermission
<1>6. ASSUME NEW q \in 1..Current PROVE Tokens(q)' <= 2
  <2>1. Tokens(q)' = Tokens(q)
    BY <1>2, <1>6 DEF Tokens
  <2> QED BY <2>1 DEF OnePermission
<1>7. ASSUME NEW q, q = Current + 1 PROVE Tokens(q)' = 1
  <2>1. Arriving(q)' = FALSE
    BY <1>1, <1>7 DEF Arriving
  <2>2. NewQueue.items = <<>> /\ NewQueue.allow = TRUE
    BY DEF NewQueue
  <2>3. Len(queues'[q].items) = 0 /\ queues'[q].allow = TRUE
    <3>1. queues'[q] = NewQueue /\ Len(<<>>) = 0
      BY <1>3, <1>7
    <3> QED BY <2>2, <3>1, Zenon
  <2>4. Tokens(q)' = Worth(0, TRUE, FALSE)
    BY <2>1, <2>3, TokensWorthNext
  <2>5. Worth(0, TRUE, FALSE) = 1
    <3>1. 0 \in Int /\ TRUE \in BOOLEAN /\ FALSE \in BOOLEAN
      OBVIOUS
    <3> QED BY <3>1, WorthValues
  <2> QED BY <2>4, <2>5
<1>8. ASSUME NEW q \in 1..(Current + 1)
      PROVE Tokens(q)' <= 2 /\ (q = Current + 1 => Tokens(q)' <= 1)
  <2>1. CASE q = Current + 1
    BY <1>7, <2>1
  <2>2. CASE q \in 1..Current
    BY <1>1, <1>6, <2>2
  <2> QED BY <1>1, <2>1, <2>2
<1> QED BY <1>1, <1>5, <1>8 DEF OnePermission

(* allow_put adds a permission to the present queue only.                       *)
LEMMA AllowStep == TypeOK /\ OnePermission /\ AllowPut => OnePermission'
<1> SUFFICES ASSUME TypeOK, OnePermission, AllowPut PROVE OnePermission'
  OBVIOUS
<1>1. /\ queues \in Seq(QueueSet) /\ Current \in 1..Current /\ Current' = Current
      /\ reader' = reader /\ pc' = "grab" /\ held' = held
  BY DEF AllowPut, TypeOK, Current, QueueSet, Goto, connection
<1>2. queues'[Current].items = queues[Current].items /\ queues'[Current].allow = TRUE
  <2>1. queues'[Current] = [queues[Current] EXCEPT !.allow = TRUE]
    BY <1>1 DEF AllowPut, Current
  <2>2. queues[Current] \in QueueSet
    BY <1>1, TokensInt
  <2> QED BY <2>1, <2>2 DEF QueueSet
<1>3. \A q \in 1..Current : q # Current => queues'[q] = queues[q]
  BY <1>1 DEF AllowPut, Current
<1>4. reader'.at = "clear" => queues'[reader'.queue].allow
  <2>1. reader.at = "clear" => reader.queue \in 1..Current
    BY <1>1 DEF TypeOK
  <2> QED BY <1>1, <1>2, <1>3, <2>1 DEF OnePermission
<1>5. ASSUME NEW q \in 1..Current PROVE Tokens(q)' <= 2
  <2>1. CASE q = Current
    <3>1. Tokens(q) <= 1
      BY <2>1 DEF OnePermission, AllowPut
    <3>2. Tokens(q)' <= Tokens(q) + 1 /\ Tokens(q)' \in Int
      <4> DEFINE n == Len(queues[q].items)
      <4>1. queues[q].allow \in BOOLEAN /\ n \in Int /\ Arriving(q) \in BOOLEAN
        BY TokensInt, QueueParts DEF Arriving
      <4>2. Arriving(q)' = Arriving(q)
        BY <1>1 DEF Arriving
      <4>3. Tokens(q)' = Worth(n, TRUE, Arriving(q))
        BY <1>2, <2>1, <4>2, TokensWorthNext
      <4>4. Tokens(q) = Worth(n, queues[q].allow, Arriving(q))
        BY TokensWorth
      <4>5. /\ Worth(n, TRUE, Arriving(q)) <= Worth(n, queues[q].allow, Arriving(q)) + 1
            /\ Worth(n, TRUE, Arriving(q)) \in Int
        BY <4>1, WorthValues
      <4> QED BY <4>3, <4>4, <4>5
    <3> QED BY <3>1, <3>2, TokensInt
  <2>2. CASE q # Current
    BY <1>1, <1>3, <2>2 DEF Tokens, OnePermission
  <2> QED BY <2>1, <2>2
<1> QED BY <1>1, <1>4, <1>5 DEF OnePermission

(* get takes the message the wait was for.                                      *)
LEMMA GetStep == TypeOK /\ OnePermission /\ Get => OnePermission'
<1> SUFFICES ASSUME TypeOK, OnePermission, Get PROVE OnePermission'
  OBVIOUS
<1>1. /\ queues \in Seq(QueueSet) /\ held \in 1..Current /\ Current' = Current
      /\ reader' = reader /\ pc = "get" /\ pc' \notin {"get", "grab"}
      /\ queues[held].items # <<>>
  BY DEF Get, TypeOK, Current, QueueSet, Goto, connection
<1>2. queues[held] \in QueueSet /\ queues[held].items \in Seq(Messages)
  BY <1>1, TokensInt, QueueParts
<1>3. /\ queues'[held].allow = queues[held].allow
      /\ Len(queues'[held].items) = Len(queues[held].items) - 1
  <2>1. queues'[held] = [queues[held] EXCEPT !.items = Tail(@)]
    BY <1>1 DEF Get, Current
  <2>2. queues'[held].items = Tail(queues[held].items)
        /\ queues'[held].allow = queues[held].allow
    BY <1>2, <2>1 DEF QueueSet
  <2> QED BY <1>1, <1>2, <2>2
<1>4. \A q \in 1..Current : q # held => queues'[q] = queues[q]
  BY <1>1 DEF Get, Current
<1>5. reader'.at = "clear" => queues'[reader'.queue].allow
  <2>1. reader.at = "clear" => reader.queue \in 1..Current
    BY <1>1 DEF TypeOK
  <2> QED BY <1>1, <1>3, <1>4, <2>1 DEF OnePermission
<1>6. ASSUME NEW q \in 1..Current
      PROVE  Tokens(q)' <= 2 /\ (q = Current => Tokens(q)' <= 1)
  <2>1. CASE q = held
    <3>1. Tokens(q)' = Tokens(q) - 1
      <4> DEFINE n == Len(queues[q].items)
      <4>1. queues[q].allow \in BOOLEAN /\ n \in Int /\ Arriving(q) \in BOOLEAN
        BY TokensInt, QueueParts DEF Arriving
      <4>2. Arriving(q)' = Arriving(q)
        BY <1>1 DEF Arriving
      <4>3. Tokens(q)' = Worth(n - 1, queues[q].allow, Arriving(q))
        BY <1>3, <2>1, <4>2, TokensWorthNext
      <4> QED BY <4>1, <4>3, TokensWorth, WorthValues
    <3>2. Tokens(q) <= 2
      BY DEF OnePermission
    <3> QED BY <3>1, <3>2, TokensInt
  <2>2. CASE q # held
    <3>1. Tokens(q)' = Tokens(q)
      BY <1>1, <1>4, <2>2 DEF Tokens
    <3> QED BY <1>1, <2>2, <3>1 DEF OnePermission
  <2> QED BY <2>1, <2>2
<1> QED BY <1>1, <1>5, <1>6 DEF OnePermission

(* put exchanges the permission for a message on its way in ...                 *)
LEMMA ClearStep == TypeOK /\ OnePermission /\ PutClear => OnePermission'
<1> SUFFICES ASSUME TypeOK, OnePermission, PutClear PROVE OnePermission'
  OBVIOUS
<1> DEFINE k == reader.queue
<1>1. /\ queues \in Seq(QueueSet) /\ k \in 1..Current /\ Current' = Current
      /\ pc' = pc /\ held' = held /\ reader.at = "clear"
      /\ reader'.at = "enqueue" /\ reader'.queue = k /\ queues[k].allow = TRUE
  <2>1. reader'.at = "enqueue" /\ reader'.queue = k
    BY Zenon DEF PutClear, TypeOK
  <2>2. queues[k].allow = TRUE
    <3>1. k \in 1..Current
      BY DEF PutClear, TypeOK, Current
    <3>2. queues[k].allow \in BOOLEAN
      BY <3>1, TokensInt, QueueParts
    <3> QED BY <3>2 DEF OnePermission, PutClear
  <2> QED BY <2>1, <2>2 DEF PutClear, TypeOK, Current, QueueSet, game
<1>2. queues'[k].items = queues[k].items /\ queues'[k].allow = FALSE
  <2>1. queues'[k] = [queues[k] EXCEPT !.allow = FALSE]
    <3>1. queues' = [queues EXCEPT ![k] = [queues[k] EXCEPT !.allow = FALSE]]
      BY DEF PutClear
    <3> HIDE DEF k
    <3> QED BY <1>1, <3>1 DEF Current
  <2> QED BY <1>1, <2>1, TokensInt DEF QueueSet
<1>3. \A q \in 1..Current : q # k => queues'[q] = queues[q]
  BY <1>1 DEF PutClear, Current
<1>4. ASSUME NEW q \in 1..Current PROVE Tokens(q)' = Tokens(q)
  <2>1. CASE q = k
    <3> DEFINE n == Len(queues[q].items)
    <3>1. n \in Int
      BY TokensInt
    <3>2. Arriving(q) = FALSE /\ Arriving(q)' = TRUE
      BY <1>1, <2>1 DEF Arriving
    <3>3. Tokens(q) = Worth(n, TRUE, FALSE)
      BY <1>1, <2>1, <3>2, TokensWorth
    <3>4. Tokens(q)' = Worth(n, FALSE, TRUE)
      BY <1>2, <2>1, <3>2, TokensWorthNext
    <3> QED BY <3>1, <3>3, <3>4, WorthValues
  <2>2. CASE q # k
    BY <1>1, <1>3, <2>2 DEF Tokens
  <2> QED BY <2>1, <2>2
<1> QED BY <1>1, <1>4 DEF OnePermission

(* ... and that for a message in the queue.                                     *)
LEMMA ItemStep == TypeOK /\ OnePermission /\ PutItem => OnePermission'
<1> SUFFICES ASSUME TypeOK, OnePermission, PutItem PROVE OnePermission'
  OBVIOUS
<1> DEFINE k == reader.queue
<1>1. /\ queues \in Seq(QueueSet) /\ k \in 1..Current /\ Current' = Current
      /\ pc' = pc /\ held' = held /\ reader.at = "enqueue" /\ reader.msg \in Messages
      /\ reader'.at \in {"read", "leave"}
  BY AfterType DEF PutItem, TypeOK, Current, QueueSet, game
<1>2. /\ queues'[k].allow = queues[k].allow
      /\ Len(queues'[k].items) = Len(queues[k].items) + 1
  <2>1. queues'[k] = [queues[k] EXCEPT !.items = Append(@, reader.msg)]
    <3>1. queues' = [queues EXCEPT ![k] =
                       [queues[k] EXCEPT !.items = Append(@, reader.msg)]]
      BY DEF PutItem
    <3> HIDE DEF k
    <3> QED BY <1>1, <3>1 DEF Current
  <2>2. queues[k] \in QueueSet /\ queues[k].items \in Seq(Messages)
    BY <1>1, TokensInt, QueueParts
  <2>3. queues'[k].items = Append(queues[k].items, reader.msg)
        /\ queues'[k].allow = queues[k].allow
    BY <2>1, <2>2 DEF QueueSet
  <2> QED BY <1>1, <2>2, <2>3
<1>3. \A q \in 1..Current : q # k => queues'[q] = queues[q]
  BY <1>1 DEF PutItem, Current
<1>4. ASSUME NEW q \in 1..Current PROVE Tokens(q)' = Tokens(q)
  <2>1. CASE q = k
    <3> DEFINE n == Len(queues[q].items)
    <3>1. queues[q].allow \in BOOLEAN /\ n \in Int
      BY TokensInt, QueueParts
    <3>2. Arriving(q) = TRUE /\ Arriving(q)' = FALSE
      BY <1>1, <2>1 DEF Arriving
    <3>3. Tokens(q) = Worth(n, queues[q].allow, TRUE)
      BY <3>2, TokensWorth
    <3>4. Tokens(q)' = Worth(n + 1, queues[q].allow, FALSE)
      BY <1>2, <2>1, <3>2, TokensWorthNext
    <3> QED BY <3>1, <3>3, <3>4, WorthValues
  <2>2. CASE q # k
    BY <1>1, <1>3, <2>2 DEF Tokens
  <2> QED BY <2>1, <2>2
<1> QED BY <1>1, <1>4 DEF OnePermission

LEMMA BalanceInit == Init => OnePermission
<1> SUFFICES ASSUME Init PROVE OnePermission
  OBVIOUS
<1>1. Current = 1 /\ queues[1] = NewQueue /\ reader = Idle
  BY DEF Init, Current
<1>2. NewQueue.items = <<>> /\ NewQueue.allow = TRUE /\ Idle.at = "read"
  BY IdleType DEF NewQueue
<1>3. Tokens(1) = 1
  BY <1>1, <1>2 DEF Tokens
<1> QED BY <1>1, <1>2, <1>3 DEF OnePermission

LEMMA BalanceStep == TypeOK /\ OnePermission /\ [Next]_vars => OnePermission'
<1> SUFFICES ASSUME TypeOK, OnePermission, [Next]_vars PROVE OnePermission'
  OBVIOUS
<1>1. CASE StartHand
  <2>1. CASE queues' = Append(queues, NewQueue)
    <3>1. reader' = reader /\ (reader.at = "enqueue" => reader.queue \in 1..Current)
      BY <1>1 DEF StartHand, TypeOK
    <3> QED BY <2>1, <3>1, NewQueueStep
  <2>2. CASE queues' = queues
    BY <1>1, <2>2, QuietStep DEF StartHand
  <2>3. queues' = Append(queues, NewQueue) \/ queues' = queues
    BY <1>1, Zenon DEF StartHand
  <2> QED BY <2>1, <2>2, <2>3
<1>2. CASE Ask \/ AskNobody \/ Recheck \/ Grab
  BY <1>2, QuietStep DEF Ask, AskNobody, Recheck, Grab, connection, Goto
<1>3. CASE EndHand \/ Settle \/ NextHand \/ MatchOver \/ CloseMatch \/ SendRaises
  BY <1>3, QuietStep DEF EndHand, Settle, NextHand, MatchOver, CloseMatch, SendRaises, connection
<1>4. CASE Read \/ PutRefused \/ Leave
  <2>1. reader'.at \notin {"clear", "enqueue"} /\ reader.at # "enqueue" /\ queues' = queues
    BY <1>4, AfterType, IdleType DEF Read, PutRefused, Leave
  <2> QED BY <1>4, <2>1, QuietStep DEF Read, PutRefused, Leave, game
<1>5. CASE PutAllowed
  <2>1. reader'.at = "clear" /\ reader'.queue = reader.queue
    BY <1>5, Zenon DEF PutAllowed, TypeOK
  <2> QED BY <1>5, <2>1, QuietStep DEF PutAllowed, game
<1>6. CASE Receive \/ Reply \/ Extra \/ Drop \/ Rejoin \/ Stopped
  BY <1>6, QuietStep DEF Receive, Reply, Extra, Drop, Rejoin, Stopped, vars, game
<1>7. CASE RejoinQueue
  <2>1. reader' = reader /\ (reader.at = "enqueue" => reader.queue \in 1..Current)
    BY <1>7 DEF RejoinQueue, TypeOK
  <2> QED BY <1>7, <2>1, NewQueueStep DEF RejoinQueue
<1>8. CASE UNCHANGED vars
  BY <1>8, QuietStep DEF vars
<1> QED BY <1>1, <1>2, <1>3, <1>4, <1>5, <1>6, <1>7, <1>8,
           AllowStep, GetStep, ClearStep, ItemStep DEF Next, GameThread, ReaderThread

QueueBound == \A q \in 1..Current : Len(queues[q].items) <= 2

(* The queue of a player holds at most as many messages as there were          *)
(* permissions, and never more than two, whatever the player sends and however *)
(* the two threads and a reconnection interleave.                              *)
THEOREM PermissionsBalance == Spec => [](OnePermission /\ QueueBound)
<1>1. TypeOK /\ OnePermission => QueueBound
  <2> SUFFICES ASSUME TypeOK, OnePermission, NEW q \in 1..Current
               PROVE Len(queues[q].items) <= 2
    BY DEF QueueBound
  <2>1. Tokens(q) <= 2 /\ Len(queues[q].items) <= Tokens(q)
    <3>1. /\ queues[q].allow \in BOOLEAN /\ Arriving(q) \in BOOLEAN
          /\ Len(queues[q].items) \in Int
      BY TokensInt, QueueParts DEF Arriving
    <3>2. Len(queues[q].items) <= Tokens(q)
      BY <3>1, WorthValues, TokensWorth
    <3> QED BY <3>2 DEF OnePermission
  <2> QED BY <2>1, TokensInt
<1>2. Init => TypeOK /\ OnePermission
  BY TypeInit, BalanceInit
<1>3. TypeOK /\ OnePermission /\ [Next]_vars => (TypeOK /\ OnePermission)'
  BY TypeStep, BalanceStep
<1> QED BY <1>1, <1>2, <1>3, PTL DEF Spec

-----------------------------------------------------------------------------
(* What is on its way to the game thread.                                      *)

Present == queues[Current].items
Busy == reader.at \in {"check", "clear", "enqueue"}
WaitLabels == {"recheck", "allow", "grab", "get"}

\* Messages an event makes the client send.
Demanded(event) ==
  {m \in {Msg("answer", event.id)} : event.kind = "question"}
    \cup {m \in {Msg("ready", event.id)} : event.kind = "over"}

\* The message the game thread is, or will be, waiting for.
Due ==
  {m \in {Msg("answer", asked)} : pc \in WaitLabels /\ expect = "answer"}
    \cup {m \in {Msg("ready", hands)} : pc = "pause" \/ (pc \in WaitLabels /\ expect = "ready")}
\* It may still come on the present connection, unless the thread waits at an older queue.
DueHere == {m \in Due : ~(pc = "get" /\ held # Current)}

\* One message that is due, and then nothing but the end of the connection.
FitsLine(line, due) ==
  \A k \in 1..Len(line) : line[k] = Quit \/ (k = 1 /\ line[k] \in due)

\* A connection that is closed, or is being taken up again, is empty.
Gone ==
  /\ ~socket => ~up
  /\ joining => socket /\ up
  /\ ~up => owes = Nothing /\ toClient = <<>>
  /\ ~socket \/ joining =>
       toServer = <<>> /\ toClient = <<>> /\ owes = Nothing /\ reader.at = "read"

\* The end of a connection is seen only when it ended.
QuitsAreReal ==
  up /\ ~joining =>
    /\ reader.at # "leave" /\ (Busy => reader.msg # Quit) /\ owes # Quit
    /\ \A k \in 1..Len(toServer) : toServer[k] # Quit
    /\ \A k \in 1..Len(Present) : Present[k] # Quit

\* The due message is in one place of the line from the client's screen to the queue, with
\* nothing before it.
AskedOnce(due) ==
  \A k \in 1..Len(toClient) :
    Demanded(toClient[k]) # {} =>
      /\ Demanded(toClient[k]) \subseteq due
      /\ owes = Nothing /\ toServer = <<>> /\ reader.at = "read" /\ Present = <<>>
      /\ \A j \in 1..Len(toClient) : Demanded(toClient[j]) # {} => j = k
OwedOnce(due) ==
  owes # Nothing =>
    owes \in due /\ toServer = <<>> /\ reader.at = "read" /\ Present = <<>>
SentOnce(due) ==
  /\ FitsLine(toServer, due)
  /\ toServer # <<>> /\ Head(toServer) # Quit => reader.at = "read" /\ Present = <<>>
ReadOnce(due) ==
  Busy /\ reader.msg # Quit =>
    reader.msg \in due /\ reader.queue = Current /\ Present = <<>>
OnLine(due) == AskedOnce(due) /\ OwedOnce(due) /\ SentOnce(due) /\ ReadOnce(due)
QueuedOnce(due) == pc \in WaitLabels \/ (socket /\ ~joining) => FitsLine(Present, due)
HeldFits == pc = "get" => FitsLine(queues[held].items, Due)

Ended == {"close", "done", "dead"}
Line == pc \notin Ended => OnLine(DueHere) /\ QueuedOnce(DueHere) /\ HeldFits

LineInv == Gone /\ QuitsAreReal /\ Line

LEMMA MessagesDiffer ==
  /\ Quit # Nothing
  /\ \A id : /\ Msg("answer", id) # Quit /\ Msg("answer", id) # Nothing
             /\ Msg("ready", id) # Quit /\ Msg("ready", id) # Nothing
BY DEF Quit, Nothing, Msg

LEMMA Demands ==
  /\ \A id : /\ Demanded(Msg("question", id)) = {Msg("answer", id)}
             /\ Demanded(Msg("over", id)) = {Msg("ready", id)}
  /\ \A id : \A kind \in {"settlement", "score", "end", "start"} : Demanded(Msg(kind, id)) = {}
BY DEF Demanded, Msg

LEMMA DueIsAsked ==
  /\ Quit \notin Due /\ Nothing \notin Due /\ DueHere \subseteq Due
  /\ pc \in {"start", "turn", "next"} => Due = {} /\ DueHere = {}
  /\ ~(pc = "get" /\ held # Current) => DueHere = Due
  /\ pc = "get" /\ held # Current => DueHere = {}
BY MessagesDiffer DEF Due, DueHere, WaitLabels

LEMMA DueAfter ==
  /\ pc' \in {"start", "turn", "next"} => Due' = {} /\ DueHere' = {}
  /\ pc' = "pause" => Due' = {Msg("ready", hands')} /\ DueHere' = Due'
  /\ pc' = "recheck" /\ expect' = "answer" => Due' = {Msg("answer", asked')} /\ DueHere' = Due'
  /\ pc' = "allow" /\ expect' = "ready" => Due' = {Msg("ready", hands')} /\ DueHere' = Due'
  /\ pc' = "allow" /\ expect' = "final" => Due' = {} /\ DueHere' = {}
  /\ UNCHANGED <<pc, expect, asked, hands>> => Due' = Due
  /\ pc \in WaitLabels /\ pc' \in WaitLabels /\ UNCHANGED <<expect, asked, hands>> => Due' = Due
  /\ ~(pc' = "get" /\ held' # Current') => DueHere' = Due'
  /\ pc' = "get" /\ held' # Current' => DueHere' = {}
  /\ DueHere' \subseteq Due'
BY DEF Due, DueHere, WaitLabels

\* Lines of messages.
LEMMA LineFacts ==
  ASSUME NEW line \in Seq(Messages), NEW d, FitsLine(line, d)
  PROVE  /\ \A e : d \subseteq e => FitsLine(line, e)
         /\ FitsLine(Append(line, Quit), d)
         /\ line = <<>> \/ Head(line) = Quit => \A e : FitsLine(line, e)
<1>1. \A e : d \subseteq e => FitsLine(line, e)
  BY DEF FitsLine
<1>2. FitsLine(Append(line, Quit), d)
  <2>1. /\ Len(line) \in Nat /\ Len(Append(line, Quit)) = Len(line) + 1
        /\ \A k \in 1..Len(line) : Append(line, Quit)[k] = line[k]
        /\ Append(line, Quit)[Len(line) + 1] = Quit
    BY MessageTypes, AppendProperties
  <2>2. \A k \in 1..Len(line) + 1 : k \in 1..Len(line) \/ k = Len(line) + 1
    BY <2>1
  <2> QED BY <2>1, <2>2 DEF FitsLine
<1>4. ASSUME line = <<>> \/ Head(line) = Quit
      PROVE  \A e : FitsLine(line, e)
  <2>1. \A k \in 1..Len(line) : line[k] = Quit
    <3> SUFFICES ASSUME NEW k \in 1..Len(line) PROVE line[k] = Quit
      OBVIOUS
    <3>1. line # <<>> /\ Head(line) = line[1]
      OBVIOUS
    <3> QED BY <1>4, <3>1 DEF FitsLine
  <2> QED BY <2>1 DEF FitsLine
<1> QED BY <1>1, <1>2, <1>4

LEMMA LineTail ==
  ASSUME NEW line \in Seq(Messages), NEW d, FitsLine(line, d), line # <<>>
  PROVE  /\ Head(line) = Quit \/ Head(line) \in d
         /\ \A e : FitsLine(Tail(line), e)
         /\ Tail(line) # <<>> => Head(Tail(line)) = Quit
<1>1. Len(line) \in Nat \ {0} /\ Head(line) = line[1] /\ 1 \in 1..Len(line)
  OBVIOUS
<1>2. /\ Tail(line) \in Seq(Messages) /\ Len(Tail(line)) = Len(line) - 1
      /\ \A k \in 1..Len(Tail(line)) : Tail(line)[k] = line[k + 1]
  BY HeadTailProperties
<1>3. \A k \in 1..Len(Tail(line)) : Tail(line)[k] = Quit
  <2> SUFFICES ASSUME NEW k \in 1..Len(Tail(line)) PROVE Tail(line)[k] = Quit
    OBVIOUS
  <2>1. k + 1 \in 1..Len(line) /\ k + 1 # 1
    BY <1>1, <1>2
  <2> QED BY <1>2, <2>1 DEF FitsLine
<1>4. Head(line) = Quit \/ Head(line) \in d
  BY <1>1 DEF FitsLine
<1>5. Tail(line) # <<>> => 1 \in 1..Len(Tail(line)) /\ Head(Tail(line)) = Tail(line)[1]
  BY <1>2
<1> QED BY <1>3, <1>4, <1>5 DEF FitsLine

LEMMA ShortLines ==
  \A d : FitsLine(<<>>, d) /\ \A m \in d : FitsLine(<<m>>, d)
BY DEF FitsLine

\* The parts of the invariant, put together after a step.
LEMMA LineIsKept ==
  ASSUME Gone', QuitsAreReal', NEW d,
         pc' \notin Ended => d = DueHere' /\ OnLine(d)' /\ QueuedOnce(d)' /\ HeldFits'
  PROVE  LineInv'
<1>1. ASSUME pc' \notin Ended
      PROVE  (OnLine(DueHere) /\ QueuedOnce(DueHere))'
  BY <1>1 DEF OnLine, AskedOnce, OwedOnce, SentOnce, ReadOnce, QueuedOnce
<1> QED BY <1>1 DEF LineInv, Line

\* What depends on the connection alone stays while the connection does.
LEMMA ConnectionStays ==
  ASSUME Gone, QuitsAreReal, UNCHANGED <<socket, joining, up, toServer, owes, reader>>,
         toClient' = toClient \/ (socket /\ up /\ ~joining),
         Present' = Present \/ Present' = <<>>
  PROVE  Gone' /\ QuitsAreReal'
BY DEF Gone, QuitsAreReal, Busy

LEMMA OnLineStays ==
  ASSUME NEW d, NEW e, d \subseteq e, OnLine(d), UNCHANGED <<toClient, owes, toServer, reader, queues>>
  PROVE  OnLine(e)'
BY DEF OnLine, AskedOnce, OwedOnce, SentOnce, ReadOnce, FitsLine, Present, Current, Busy

LEMMA EmptyLine ==
  ASSUME NEW e, toClient' = <<>>, owes' = Nothing, toServer' = <<>>, reader'.at = "read"
  PROVE  OnLine(e)'
BY ShortLines DEF OnLine, AskedOnce, OwedOnce, SentOnce, ReadOnce, Busy

\* The game thread, where it neither sends nor touches a queue.
LEMMA LineQuiet ==
  ASSUME TypeOK, LineInv, AskNobody \/ Recheck \/ Grab \/ NextHand \/ SendRaises
  PROVE  LineInv'
<1> USE DEF LineInv
<1>1. /\ UNCHANGED <<queues, socket, joining, up, toClient, toServer, owes, reader>>
      /\ UNCHANGED <<expect, asked, hands>> /\ Present' = Present /\ Current' = Current
  BY DEF AskNobody, Recheck, Grab, NextHand, SendRaises, connection, Present, Current
<1>2. Gone' /\ QuitsAreReal'
  BY <1>1, ConnectionStays
<1> PICK d : d = DueHere'
  OBVIOUS
<1>3. CASE pc' \in Ended
  BY <1>2, <1>3, LineIsKept
<1>4. CASE pc' \notin Ended /\ (AskNobody \/ NextHand)
  <2>1. pc \in {"turn", "next"} /\ pc' \in {"turn", "start"}
    BY <1>4 DEF AskNobody, NextHand, Goto, Ended
  <2>2. DueHere = {} /\ d = {}
    BY <2>1, DueIsAsked, DueAfter
  <2>3. OnLine(d)' /\ QueuedOnce(d)'
    BY <1>1, <2>1, <2>2, OnLineStays DEF Line, Ended, QueuedOnce, WaitLabels
  <2> QED BY <1>2, <2>1, <2>3, LineIsKept DEF HeldFits
<1>5. CASE pc' \notin Ended /\ Recheck
  <2>1. pc = "recheck" /\ (pc' = "allow" \/ (pc' = "turn" /\ ~socket))
    BY <1>5 DEF Recheck, Goto, Ended
  <2>2. CASE pc' = "allow"
    <3>1. d = DueHere
      BY <1>1, <2>1, <2>2, DueIsAsked, DueAfter DEF WaitLabels
    <3>2. OnLine(d)' /\ QueuedOnce(d)'
      BY <1>1, <2>1, <2>2, <3>1, OnLineStays DEF Line, Ended, QueuedOnce, WaitLabels
    <3> QED BY <1>2, <2>2, <3>2, LineIsKept DEF HeldFits
  <2>3. CASE pc' = "turn" /\ ~socket
    <3>1. OnLine(d)'
      BY <1>1, <2>3, EmptyLine DEF Gone
    <3>2. QueuedOnce(d)'
      BY <1>1, <2>3 DEF QueuedOnce, WaitLabels
    <3> QED BY <1>2, <2>3, <3>1, <3>2, LineIsKept DEF HeldFits
  <2> QED BY <2>1, <2>2, <2>3
<1>6. CASE pc' \notin Ended /\ Grab
  <2>1. pc = "grab" /\ pc' = "get" /\ held' = Current
    BY <1>6 DEF Grab, Goto
  <2>2. d = DueHere /\ Due' = DueHere
    BY <1>1, <2>1, DueIsAsked, DueAfter DEF WaitLabels
  <2>3. OnLine(d)' /\ QueuedOnce(d)'
    BY <1>1, <2>1, <2>2, OnLineStays DEF Line, Ended, QueuedOnce, WaitLabels
  <2>4. FitsLine(Present, DueHere)
    BY <2>1 DEF Line, Ended, QueuedOnce, WaitLabels
  <2>5. HeldFits'
    <3>1. queues'[held'].items = Present
      BY <1>1, <2>1 DEF Present
    <3> QED BY <2>2, <2>4, <3>1 DEF HeldFits, FitsLine
  <2> QED BY <1>2, <2>3, <2>5, LineIsKept
<1>7. CASE SendRaises
  BY <1>3, <1>7 DEF SendRaises, Goto, Ended
<1> QED BY <1>3, <1>4, <1>5, <1>6, <1>7

\* An event that asks for nothing, and one that does.
LEMMA QuietEvent ==
  ASSUME TypeOK, NEW event \in Events, Demanded(event) = {}, NEW d, OnLine(d),
         toClient' = Append(toClient, event) \/ toClient' = toClient,
         UNCHANGED <<owes, toServer, reader>>, Present' = Present, Current' = Current
  PROVE  OnLine(d)'
<1>1. AskedOnce(d)'
  <2>1. CASE toClient' = toClient
    BY <2>1 DEF OnLine, AskedOnce
  <2>2. CASE toClient' = Append(toClient, event)
    <3>1. /\ Len(toClient) \in Nat /\ Len(toClient') = Len(toClient) + 1
          /\ \A k \in 1..Len(toClient) : toClient'[k] = toClient[k]
          /\ toClient'[Len(toClient) + 1] = event
      BY <2>2, AppendProperties DEF TypeOK
    <3>2. \A k \in 1..Len(toClient') :
            Demanded(toClient'[k]) # {} => k \in 1..Len(toClient) /\ toClient'[k] = toClient[k]
      <4> SUFFICES ASSUME NEW k \in 1..Len(toClient'), Demanded(toClient'[k]) # {}
                   PROVE  k \in 1..Len(toClient) /\ toClient'[k] = toClient[k]
        OBVIOUS
      <4>1. k \in 1..Len(toClient) \/ k = Len(toClient) + 1
        BY <3>1
      <4> QED BY <3>1, <4>1
    <3> QED BY <3>2 DEF OnLine, AskedOnce
  <2> QED BY <2>1, <2>2
<1>2. OwedOnce(d)' /\ SentOnce(d)' /\ ReadOnce(d)'
  BY DEF OnLine, OwedOnce, SentOnce, ReadOnce, Busy, FitsLine
<1> QED BY <1>1, <1>2 DEF OnLine

LEMMA AskingEvent ==
  ASSUME TypeOK, Gone, QuitsAreReal, NEW event \in Events, OnLine({}), FitsLine(Present, {}),
         NEW d, Demanded(event) \subseteq d,
         \/ toClient' = toClient
         \/ toClient' = Append(toClient, event) /\ socket /\ up /\ ~joining,
         UNCHANGED <<owes, toServer, reader>>, Present' = Present, Current' = Current
  PROVE  OnLine(d)'
<1>1. \A k \in 1..Len(toClient) : Demanded(toClient[k]) = {}
  BY DEF OnLine, AskedOnce
<1>2. owes = Nothing
  BY DEF OnLine, OwedOnce
<1>3. Busy => reader.msg = Quit
  BY DEF OnLine, ReadOnce
<1>4. toServer = <<>> \/ Head(toServer) = Quit
  BY LineTail DEF OnLine, SentOnce, TypeOK
<1>5. FitsLine(toServer, d)
  BY <1>4, LineFacts DEF OnLine, SentOnce, TypeOK
<1>6. OwedOnce(d)' /\ SentOnce(d)' /\ ReadOnce(d)'
  BY <1>2, <1>3, <1>4, <1>5 DEF OwedOnce, SentOnce, ReadOnce, Busy, FitsLine
<1>7. AskedOnce(d)'
  <2>1. CASE toClient' = toClient
    BY <1>1, <2>1 DEF AskedOnce
  <2>2. CASE toClient' = Append(toClient, event) /\ socket /\ up /\ ~joining
    <3>1. /\ Len(toClient) \in Nat /\ Len(toClient') = Len(toClient) + 1
          /\ \A k \in 1..Len(toClient) : toClient'[k] = toClient[k]
          /\ toClient'[Len(toClient) + 1] = event
      BY <2>2, AppendProperties DEF TypeOK
    <3>2. \A k \in 1..Len(toClient') : Demanded(toClient'[k]) # {} => k = Len(toClient) + 1
      <4> SUFFICES ASSUME NEW k \in 1..Len(toClient'), Demanded(toClient'[k]) # {}
                   PROVE  k = Len(toClient) + 1
        OBVIOUS
      <4>1. k \in 1..Len(toClient) \/ k = Len(toClient) + 1
        BY <3>1
      <4> QED BY <1>1, <3>1, <4>1
    <3>3. toServer = <<>>
      <4>1. toServer # <<>> => 1 \in 1..Len(toServer) /\ Head(toServer) = toServer[1]
        BY DEF TypeOK
      <4> QED BY <1>4, <2>2, <4>1 DEF QuitsAreReal
    <3>4. reader.at = "read"
      BY <1>3, <2>2 DEF QuitsAreReal, Busy, TypeOK
    <3>5. Present = <<>>
      <4>1. Present \in Seq(Messages)
        <5>1. Current \in 1..Current /\ queues \in Seq(QueueSet)
          BY DEF TypeOK, Current, QueueSet
        <5> QED BY <5>1, QueueAt, QueueParts DEF Present, Current
      <4>2. ASSUME Present # <<>> PROVE FALSE
        <5>1. 1 \in 1..Len(Present)
          BY <4>1, <4>2
        <5>2. Present[1] = Quit
          BY <5>1 DEF FitsLine
        <5> QED BY <2>2, <5>1, <5>2 DEF QuitsAreReal
      <4> QED BY <4>2
    <3> QED BY <1>2, <3>1, <3>2, <3>3, <3>4, <3>5 DEF AskedOnce
  <2> QED BY <2>1, <2>2
<1> QED BY <1>6, <1>7 DEF OnLine

LEMMA LineSends ==
  ASSUME TypeOK, LineInv, Ask \/ EndHand \/ Settle \/ MatchOver \/ CloseMatch, ~joining
  PROVE  LineInv'
<1> USE DEF LineInv
<1>1. /\ UNCHANGED <<queues, socket, joining, up, toServer, owes, reader, hands>>
      /\ Present' = Present /\ Current' = Current
  BY DEF Ask, EndHand, Settle, MatchOver, CloseMatch, Present, Current
<1>2. toClient' # toClient => socket /\ up
  BY DEF Ask, EndHand, Settle, MatchOver, CloseMatch, Broadcast, Personal
<1>3. Gone' /\ QuitsAreReal'
  BY <1>1, <1>2, ConnectionStays
<1> PICK d : d = DueHere'
  OBVIOUS
<1>4. CASE Ask
  <2>1. /\ pc = "turn" /\ pc' = "recheck" /\ socket /\ expect' = "answer" /\ asked' = asked + 1
        /\ toClient' = toClient \/ (toClient' = Append(toClient, Msg("question", asked + 1)) /\ up)
    BY <1>4 DEF Ask, Goto, Personal
  <2>2. DueHere = {} /\ d = {Msg("answer", asked + 1)}
    BY <2>1, DueIsAsked, DueAfter
  <2>3. OnLine({}) /\ FitsLine(Present, {})
    BY <2>1, <2>2 DEF Line, Ended, QueuedOnce
  <2>4. Msg("question", asked + 1) \in Events /\ Demanded(Msg("question", asked + 1)) = d
    BY <2>2, Demands, MessageTypes DEF TypeOK
  <2>5. OnLine(d)'
    BY <1>1, <2>1, <2>3, <2>4, AskingEvent
  <2>6. QueuedOnce(d)'
    BY <1>1, <2>3 DEF QueuedOnce, FitsLine
  <2> QED BY <1>3, <2>1, <2>5, <2>6, LineIsKept DEF HeldFits
<1>5. CASE EndHand
  <2>1. /\ pc = "turn" /\ pc' = "pause"
        /\ toClient' = toClient \/ (toClient' = Append(toClient, Msg("over", hands)) /\ socket /\ up)
    BY <1>5 DEF EndHand, Goto, Broadcast
  <2>2. DueHere = {} /\ d = {Msg("ready", hands)}
    BY <1>1, <2>1, DueIsAsked, DueAfter
  <2>3. OnLine({}) /\ (socket => FitsLine(Present, {}))
    BY <2>1, <2>2 DEF Line, Ended, QueuedOnce
  <2>4. Msg("over", hands) \in Events /\ Demanded(Msg("over", hands)) = d
    BY <2>2, Demands, MessageTypes DEF TypeOK
  <2>5. OnLine(d)'
    <3>1. CASE socket
      BY <1>1, <2>1, <2>3, <2>4, <3>1, AskingEvent
    <3>2. CASE ~socket
      BY <1>1, <2>1, <3>2, EmptyLine DEF Gone
    <3> QED BY <3>1, <3>2
  <2>6. QueuedOnce(d)'
    BY <1>1, <2>1, <2>3 DEF QueuedOnce, WaitLabels, FitsLine
  <2> QED BY <1>3, <2>1, <2>5, <2>6, LineIsKept DEF HeldFits
<1>6. CASE Settle \/ MatchOver
  <2>1. /\ \/ pc = "pause" /\ expect' = "ready" /\ pc' = (IF socket THEN "allow" ELSE "next")
           \/ pc = "next" /\ expect' = "final" /\ pc' = (IF socket THEN "allow" ELSE "close")
        /\ \E kind \in {"settlement", "score"} :
             toClient' = toClient \/ toClient' = Append(toClient, Msg(kind, hands))
    BY <1>6 DEF Settle, MatchOver, Goto, Broadcast
  <2>2. PICK event \in Events : /\ Demanded(event) = {}
                               /\ (toClient' = toClient \/ toClient' = Append(toClient, event))
    <3>1. \A kind \in {"settlement", "score"} :
            Msg(kind, hands) \in Events /\ Demanded(Msg(kind, hands)) = {}
      BY Demands, MessageTypes DEF TypeOK
    <3> QED BY <2>1, <3>1
  <2>4. PICK due : due = DueHere
    OBVIOUS
  <2>5. OnLine(due) /\ (socket => FitsLine(Present, due))
    BY <2>1, <2>4 DEF Line, Ended, QueuedOnce
  <2>6. OnLine(due)'
    BY <1>1, <2>2, <2>5, QuietEvent
  <2>7. CASE socket
    <3>1. pc' = "allow"
      BY <2>1, <2>7
    <3>2. due = d
      <4>1. CASE pc = "pause" /\ expect' = "ready"
        BY <1>1, <2>4, <3>1, <4>1, DueAfter DEF Due, DueHere, WaitLabels
      <4>2. CASE pc = "next" /\ expect' = "final"
        BY <2>4, <3>1, <4>2, DueAfter, DueIsAsked
      <4> QED BY <2>1, <4>1, <4>2
    <3>3. QueuedOnce(d)'
      BY <1>1, <2>5, <2>7, <3>2 DEF QueuedOnce, FitsLine
    <3> QED BY <1>3, <2>6, <3>1, <3>2, <3>3, LineIsKept DEF HeldFits
  <2>8. CASE ~socket
    <3>1. pc' = "next" \/ pc' \in Ended
      BY <2>1, <2>8 DEF Ended
    <3>2. OnLine(d)'
      BY <1>1, <1>2, <2>8, EmptyLine DEF Gone
    <3>3. pc' = "next" => QueuedOnce(d)' /\ HeldFits'
      BY <1>1, <2>8 DEF QueuedOnce, WaitLabels, HeldFits
    <3> QED BY <1>3, <3>1, <3>2, <3>3, LineIsKept
  <2> QED BY <2>7, <2>8
<1>7. CASE CloseMatch
  <2>1. pc' \in Ended
    BY <1>7 DEF CloseMatch, Goto, Ended
  <2> QED BY <1>3, <2>1, LineIsKept
<1> QED BY <1>4, <1>5, <1>6, <1>7

LEMMA QueueReplaced ==
  ASSUME NEW s \in Seq(QueueSet), NEW k \in 1..Len(s), NEW v, NEW t, t = [s EXCEPT ![k] = v]
  PROVE  /\ Len(t) = Len(s) /\ t[k] = v
         /\ \A j \in 1..Len(s) : j # k => t[j] = s[j]
OBVIOUS

\* The queues: their messages after a step that makes one, opens one or takes from one.
LEMMA PresentType ==
  ASSUME TypeOK
  PROVE  /\ queues \in Seq(QueueSet) /\ Current \in Nat \ {0} /\ Current = Len(queues)
         /\ \A q \in 1..Current : queues[q] \in QueueSet /\ queues[q].items \in Seq(Messages)
         /\ Current \in 1..Current /\ Present \in Seq(Messages) /\ held \in 1..Current
<1>1. queues \in Seq(QueueSet) /\ queues # <<>> /\ Current = Len(queues) /\ held \in 1..Current
  BY DEF TypeOK, Current, QueueSet
<1>2. Current \in Nat \ {0} /\ Current \in 1..Current
  BY <1>1
<1>3. \A q \in 1..Current : queues[q] \in QueueSet /\ queues[q].items \in Seq(Messages)
  BY <1>1, QueueAt, QueueParts
<1> QED BY <1>1, <1>2, <1>3 DEF Present

LEMMA QueueMade ==
  ASSUME TypeOK, queues' = Append(queues, NewQueue)
  PROVE  /\ Current' = Current + 1 /\ Present' = <<>>
         /\ \A q \in 1..Current : queues'[q] = queues[q]
<1>1. /\ Len(queues') = Len(queues) + 1 /\ queues'[Len(queues) + 1] = NewQueue
      /\ \A q \in 1..Len(queues) : queues'[q] = queues[q]
  BY PresentType, NewQueueType, AppendProperties
<1>2. NewQueue.items = <<>>
  BY DEF NewQueue
<1> QED BY <1>1, <1>2 DEF Current, Present

LEMMA LineStarts ==
  ASSUME TypeOK, LineInv, StartHand, ~joining
  PROVE  LineInv'
<1> USE DEF LineInv
<1>1. /\ UNCHANGED <<socket, joining, up, toServer, owes, reader>> /\ pc = "start" /\ pc' = "turn"
      /\ socket => queues' = Append(queues, NewQueue)
      /\ ~socket => queues' = queues /\ toClient' = toClient
      /\ toClient' = toClient \/ (toClient' = Append(toClient, Msg("start", 0)) /\ socket /\ up)
  BY DEF StartHand, Goto, Personal
<1> PICK d : d = DueHere'
  OBVIOUS
<1>2. d = {} /\ DueHere = {}
  BY <1>1, DueAfter, DueIsAsked
<1>3. OnLine({})
  BY <1>1, <1>2 DEF Line, Ended
<1>4. CASE socket
  <2>1. Present' = <<>>
    BY <1>1, <1>4, QueueMade
  <2>2. Gone' /\ QuitsAreReal'
    BY <1>1, <2>1, ConnectionStays
  <2>3. Busy => reader.msg = Quit
    BY <1>3 DEF OnLine, ReadOnce
  <2>4. OwedOnce({})' /\ SentOnce({})' /\ ReadOnce({})'
    BY <1>1, <1>3, <2>1, <2>3 DEF OnLine, OwedOnce, SentOnce, ReadOnce, Busy, FitsLine
  <2>5. AskedOnce({})'
    <3>1. \A k \in 1..Len(toClient) : Demanded(toClient[k]) = {}
      BY <1>3 DEF OnLine, AskedOnce
    <3>2. CASE toClient' = toClient
      BY <3>1, <3>2 DEF AskedOnce
    <3>3. CASE toClient' = Append(toClient, Msg("start", 0))
      <4>1. /\ Len(toClient) \in Nat /\ Len(toClient') = Len(toClient) + 1
            /\ \A k \in 1..Len(toClient) : toClient'[k] = toClient[k]
            /\ toClient'[Len(toClient) + 1] = Msg("start", 0)
        BY <3>3, MessageTypes, AppendProperties DEF TypeOK
      <4>2. \A k \in 1..Len(toClient') : Demanded(toClient'[k]) = {}
        <5> SUFFICES ASSUME NEW k \in 1..Len(toClient') PROVE Demanded(toClient'[k]) = {}
          OBVIOUS
        <5>1. k \in 1..Len(toClient) \/ k = Len(toClient) + 1
          BY <4>1
        <5> QED BY <3>1, <4>1, <5>1, Demands
      <4> QED BY <4>2 DEF AskedOnce
    <3> QED BY <1>1, <3>2, <3>3
  <2>6. QueuedOnce({})'
    BY <2>1, ShortLines DEF QueuedOnce
  <2>7. OnLine({})'
    BY <2>4, <2>5 DEF OnLine
  <2> QED BY <1>1, <1>2, <2>2, <2>6, <2>7, LineIsKept DEF HeldFits
<1>5. CASE ~socket
  <2>1. Present' = Present
    BY <1>1, <1>5 DEF Present, Current
  <2>2. Gone' /\ QuitsAreReal'
    BY <1>1, <1>5, <2>1, ConnectionStays
  <2>3. OnLine(d)'
    BY <1>1, <1>5, EmptyLine DEF Gone
  <2>4. QueuedOnce(d)'
    BY <1>1, <1>5 DEF QueuedOnce, WaitLabels
  <2> QED BY <1>1, <2>2, <2>3, <2>4, LineIsKept DEF HeldFits
<1> QED BY <1>4, <1>5

LEMMA LineAllows ==
  ASSUME TypeOK, LineInv, AllowPut
  PROVE  LineInv'
<1> USE DEF LineInv
<1>1. /\ UNCHANGED <<socket, joining, up, toClient, toServer, owes, reader, expect, held, asked, asks, hands>>
      /\ pc = "allow" /\ pc' = "grab"
      /\ queues' = [queues EXCEPT ![Current].allow = TRUE]
  BY DEF AllowPut, Goto, connection
<1>2. Current' = Current /\ Present' = Present
  <2>1. queues \in Seq(QueueSet) /\ Current = Len(queues) /\ Current \in 1..Len(queues)
        /\ queues[Current] \in QueueSet
    BY PresentType
  <2>2. Len(queues') = Len(queues) /\ queues'[Current] = [queues[Current] EXCEPT !.allow = TRUE]
    <3>1. queues' = [queues EXCEPT ![Current] = [queues[Current] EXCEPT !.allow = TRUE]]
      BY <1>1, Zenon
    <3>2. PICK t : t = queues'
      OBVIOUS
    <3>3. PICK k : k = Current
      OBVIOUS
    <3>4. PICK v : v = [queues[Current] EXCEPT !.allow = TRUE]
      OBVIOUS
    <3>5. t = [queues EXCEPT ![k] = v]
      BY <3>1, <3>2, <3>3, <3>4, Zenon
    <3>6. k \in 1..Len(queues)
      BY <2>1, <3>3, Zenon
    <3>7. Len(t) = Len(queues) /\ t[k] = v
      BY <2>1, <3>5, <3>6, QueueReplaced
    <3> QED BY <3>2, <3>3, <3>4, <3>7, Zenon
  <2>3. [queues[Current] EXCEPT !.allow = TRUE].items = queues[Current].items
    BY <2>1 DEF QueueSet
  <2> QED BY <2>2, <2>3 DEF Current, Present
<1>3. Gone' /\ QuitsAreReal'
  BY <1>1, <1>2, ConnectionStays
<1> PICK d : d = DueHere'
  OBVIOUS
<1>4. d = DueHere
  BY <1>1, DueAfter, DueIsAsked DEF WaitLabels
<1>5. OnLine(d)' /\ QueuedOnce(d)'
  BY <1>1, <1>2, <1>4 DEF Line, Ended, OnLine, AskedOnce, OwedOnce, SentOnce, ReadOnce, QueuedOnce,
     FitsLine, WaitLabels, Busy
<1> QED BY <1>1, <1>3, <1>5, LineIsKept DEF HeldFits

\* What get leaves behind is the end of the connection at most.
LEMMA LineTakes ==
  ASSUME TypeOK, LineInv, Get, ~joining
  PROVE  LineInv'
<1> USE DEF LineInv
<1>1. /\ UNCHANGED <<socket, joining, up, toClient, toServer, owes, reader>>
      /\ pc = "get" /\ queues[held].items # <<>> /\ (pc' \in {"turn", "next"} \/ pc' \in Ended)
      /\ queues' = [queues EXCEPT ![held].items = Tail(queues[held].items)]
  BY DEF Get, Goto, connection, Ended, TypeOK
<1>2. /\ Current' = Current
      /\ held = Current => Present' = Tail(Present) /\ Present # <<>>
      /\ held # Current => Present' = Present
  <2>1. queues \in Seq(QueueSet) /\ Current = Len(queues) /\ Current \in 1..Len(queues)
        /\ held \in 1..Len(queues) /\ queues[held] \in QueueSet
    BY PresentType
  <2>2. /\ Len(queues') = Len(queues)
        /\ queues'[held] = [queues[held] EXCEPT !.items = Tail(queues[held].items)]
        /\ held # Current => queues'[Current] = queues[Current]
    <3>1. queues' = [queues EXCEPT ![held] = [queues[held] EXCEPT !.items = Tail(queues[held].items)]]
      BY <1>1, Zenon
    <3>2. PICK t : t = queues'
      OBVIOUS
    <3>3. PICK k : k = held
      OBVIOUS
    <3>4. PICK v : v = [queues[held] EXCEPT !.items = Tail(queues[held].items)]
      OBVIOUS
    <3>5. t = [queues EXCEPT ![k] = v]
      BY <3>1, <3>2, <3>3, <3>4, Zenon
    <3>6. k \in 1..Len(queues)
      BY <2>1, <3>3, Zenon
    <3>7. Len(t) = Len(queues) /\ t[k] = v /\ \A j \in 1..Len(queues) : j # k => t[j] = queues[j]
      BY <2>1, <3>5, <3>6, QueueReplaced
    <3> QED BY <2>1, <3>2, <3>3, <3>4, <3>7, Zenon
  <2>3. [queues[held] EXCEPT !.items = Tail(queues[held].items)].items = Tail(queues[held].items)
    BY <2>1 DEF QueueSet
  <2> QED BY <1>1, <2>2, <2>3 DEF Current, Present
<1>3. OnLine(DueHere) /\ FitsLine(Present, DueHere)
  BY <1>1 DEF Line, Ended, QueuedOnce, WaitLabels
<1>4. FitsLine(Present', {}) /\ \A k \in 1..Len(Present') : \E j \in 1..Len(Present) : Present'[k] = Present[j]
  <2>1. CASE held = Current
    <3>1. FitsLine(Tail(Present), {})
      <4>1. Present \in Seq(Messages) /\ Present # <<>>
        BY <1>2, <2>1, PresentType
      <4>2. PICK line : line = Present
        OBVIOUS
      <4>3. PICK due : due = DueHere
        OBVIOUS
      <4>4. FitsLine(line, due)
        BY <1>3, <4>2, <4>3, Zenon DEF FitsLine
      <4>5. FitsLine(Tail(line), {})
        BY <4>1, <4>2, <4>4, LineTail, Zenon
      <4> QED BY <4>2, <4>5, Zenon
    <3>2. \A k \in 1..Len(Tail(Present)) : k + 1 \in 1..Len(Present) /\ Tail(Present)[k] = Present[k + 1]
      BY <1>2, <2>1, PresentType
    <3> QED BY <1>2, <2>1, <3>1, <3>2
  <2>2. CASE held # Current
    <3>1. DueHere = {}
      BY <1>1, <2>2, DueIsAsked
    <3> QED BY <1>2, <1>3, <2>2, <3>1
  <2> QED BY <2>1, <2>2
<1>5. Gone' /\ QuitsAreReal'
  BY <1>1, <1>4 DEF Gone, QuitsAreReal, Busy
<1>6. /\ \A k \in 1..Len(toClient) : Demanded(toClient[k]) = {}
      /\ owes = Nothing /\ (Busy => reader.msg = Quit) /\ FitsLine(toServer, {})
      /\ toServer = <<>> \/ Head(toServer) = Quit
  <2>1. CASE held = Current
    <3>1. Present # <<>>
      BY <1>2, <2>1
    <3>2. toServer = <<>> \/ Head(toServer) = Quit
      BY <1>3, <3>1 DEF OnLine, SentOnce
    <3>3. FitsLine(toServer, {})
      BY <1>3, <3>2, LineFacts DEF OnLine, SentOnce, TypeOK
    <3> QED BY <1>3, <3>1, <3>2, <3>3 DEF OnLine, AskedOnce, OwedOnce, ReadOnce
  <2>2. CASE held # Current
    <3>1. DueHere = {}
      BY <1>1, <2>2, DueIsAsked
    <3>2. FitsLine(toServer, {})
      BY <1>3, <3>1 DEF OnLine, SentOnce
    <3>3. toServer = <<>> \/ Head(toServer) = Quit
      BY <3>2, LineTail DEF TypeOK
    <3> QED BY <1>3, <3>1, <3>2, <3>3 DEF OnLine, AskedOnce, OwedOnce, ReadOnce
  <2> QED BY <2>1, <2>2
<1>7. OnLine({})' /\ QueuedOnce({})'
  BY <1>1, <1>4, <1>6 DEF OnLine, AskedOnce, OwedOnce, SentOnce, ReadOnce, QueuedOnce, Busy, FitsLine
<1>8. pc' \notin Ended => {} = DueHere' /\ HeldFits'
  BY <1>1, DueAfter DEF HeldFits
<1> QED BY <1>5, <1>7, <1>8, LineIsKept

-----------------------------------------------------------------------------
(* The player's side and the reader keep the line.                             *)

LEMMA LineReceives ==
  ASSUME TypeOK, LineInv, Receive
  PROVE  LineInv'
<1> USE DEF LineInv
<1> DEFINE event == Head(toClient)
<1>1. /\ UNCHANGED <<queues, socket, joining, up, toServer, reader, pc, expect, held, asked, asks, hands>>
      /\ up /\ owes = Nothing /\ toClient # <<>> /\ toClient' = Tail(toClient)
      /\ Present' = Present /\ Current' = Current
  BY DEF Receive, game, Present, Current
<1>2. /\ toClient \in Seq(Events) /\ Len(toClient) \in Nat \ {0} /\ 1 \in 1..Len(toClient)
      /\ event = toClient[1] /\ event \in Events
      /\ Len(toClient') = Len(toClient) - 1
      /\ \A k \in 1..Len(toClient') : k + 1 \in 1..Len(toClient) /\ k + 1 # 1 /\ toClient'[k] = toClient[k + 1]
  <2>1. toClient \in Seq(Events) /\ Len(toClient) \in Nat \ {0} /\ 1 \in 1..Len(toClient)
        /\ event = toClient[1]
    BY <1>1 DEF TypeOK
  <2>2. Len(toClient') = Len(toClient) - 1 /\ \A k \in 1..Len(toClient') : toClient'[k] = toClient[k + 1]
    BY <1>1, <2>1, HeadTailProperties
  <2>3. \A k \in 1..Len(toClient') : k + 1 \in 1..Len(toClient) /\ k + 1 # 1
    BY <2>1, <2>2
  <2>4. event \in Events
    BY <2>1, ElementOfSeq
  <2> QED BY <2>1, <2>2, <2>3, <2>4
<1>3. \/ owes' \in Demanded(event)
      \/ owes' = Nothing
  BY DEF Receive, Demanded
<1> HIDE DEF event
<1>4. Gone' /\ QuitsAreReal'
  <2>1. ~(~socket \/ joining)
    BY <1>1 DEF Gone
  <2>2. owes' # Quit
    BY <1>3, MessagesDiffer DEF event, Demanded
  <2> QED BY <1>1, <2>1, <2>2 DEF Gone, QuitsAreReal, Busy
<1> PICK d : d = DueHere'
  OBVIOUS
<1>5. d = DueHere /\ (HeldFits => HeldFits')
  BY <1>1, DueAfter DEF HeldFits, FitsLine, Due, DueHere
<1>6. ASSUME pc \notin Ended
      PROVE  OnLine(d)' /\ QueuedOnce(d)' /\ HeldFits'
  <2>1. OnLine(d) /\ QueuedOnce(d) /\ HeldFits'
    BY <1>5, <1>6 DEF Line
  <2>2. QueuedOnce(d)'
    BY <1>1, <2>1 DEF QueuedOnce, FitsLine
  <2>3. SentOnce(d)' /\ ReadOnce(d)'
    BY <1>1, <2>1 DEF OnLine, SentOnce, ReadOnce, FitsLine, Busy
  <2>4. OwedOnce(d)'
    <3>1. CASE owes' \in Demanded(event)
      <4>1. /\ Demanded(event) \subseteq d
            /\ toServer = <<>> /\ reader.at = "read" /\ Present = <<>>
        BY <1>2, <2>1, <3>1 DEF OnLine, AskedOnce
      <4> QED BY <1>1, <3>1, <4>1 DEF OwedOnce
    <3>2. CASE owes' = Nothing
      BY <3>2 DEF OwedOnce
    <3> QED BY <1>3, <3>1, <3>2
  <2>5. AskedOnce(d)'
    <3> SUFFICES ASSUME NEW k \in 1..Len(toClient'), Demanded(toClient'[k]) # {}
                 PROVE  /\ Demanded(toClient'[k]) \subseteq d
                        /\ owes' = Nothing /\ toServer = <<>> /\ reader.at = "read" /\ Present = <<>>
                        /\ \A j \in 1..Len(toClient') : Demanded(toClient'[j]) # {} => j = k
      BY <1>1 DEF AskedOnce
    <3>1. k + 1 \in 1..Len(toClient) /\ k + 1 # 1 /\ toClient'[k] = toClient[k + 1]
      BY <1>2
    <3>2. /\ Demanded(toClient[k + 1]) \subseteq d
          /\ toServer = <<>> /\ reader.at = "read" /\ Present = <<>>
          /\ \A j \in 1..Len(toClient) : Demanded(toClient[j]) # {} => j = k + 1
      BY <2>1, <3>1 DEF OnLine, AskedOnce
    <3>3. Demanded(event) = {}
      BY <1>2, <3>1, <3>2
    <3>4. \A j \in 1..Len(toClient') : Demanded(toClient'[j]) # {} => j = k
      <4> SUFFICES ASSUME NEW j \in 1..Len(toClient'), Demanded(toClient'[j]) # {} PROVE j = k
        OBVIOUS
      <4>1. j + 1 \in 1..Len(toClient) /\ toClient'[j] = toClient[j + 1]
        BY <1>2
      <4>2. j + 1 = k + 1
        BY <3>2, <4>1
      <4> QED BY <4>2
    <3> QED BY <1>3, <3>1, <3>2, <3>3, <3>4
  <2> QED BY <2>1, <2>2, <2>3, <2>4, <2>5 DEF OnLine
<1> QED BY <1>1, <1>4, <1>6, LineIsKept

\* What the reader, the client and the connection leave alone: the game thread, and
\* with it what is due.
LEMMA GameStays ==
  ASSUME UNCHANGED game, Current' = Current
  PROVE  UNCHANGED <<pc, expect, held, asked, hands>> /\ Due' = Due /\ DueHere' = DueHere
BY DEF game, Due, DueHere, WaitLabels

\* A line on which the reader is busy, or the end of the connection is next, holds nothing
\* but ends.
LEMMA NothingElse ==
  ASSUME NEW d, OnLine(d), toServer # <<>> \/ reader.at # "read"
  PROVE  /\ \A k \in 1..Len(toClient) : Demanded(toClient[k]) = {}
         /\ owes = Nothing
BY DEF OnLine, AskedOnce, OwedOnce

LEMMA LineReplies ==
  ASSUME TypeOK, LineInv, Reply
  PROVE  LineInv'
<1> USE DEF LineInv
<1>1. /\ UNCHANGED <<queues, socket, joining, up, toClient, reader>> /\ UNCHANGED game
      /\ up /\ owes # Nothing /\ owes' = Nothing /\ toServer' = Append(toServer, owes)
      /\ Present' = Present /\ Current' = Current
  BY DEF Reply, Present, Current
<1>2. socket /\ ~joining /\ owes # Quit
  BY <1>1 DEF Gone, QuitsAreReal
<1>3. /\ toServer \in Seq(Messages) /\ owes \in Messages
      /\ Len(toServer') = Len(toServer) + 1 /\ toServer'[Len(toServer) + 1] = owes
      /\ \A k \in 1..Len(toServer) : toServer'[k] = toServer[k]
  BY <1>1, AppendProperties DEF TypeOK
<1>4. Gone'
  BY <1>1, <1>2 DEF Gone
<1>5. QuitsAreReal'
  <2>1. \A k \in 1..Len(toServer') : k \in 1..Len(toServer) \/ k = Len(toServer) + 1
    BY <1>3
  <2> QED BY <1>1, <1>2, <1>3, <2>1, MessagesDiffer DEF QuitsAreReal, Busy
<1> PICK d : d = DueHere'
  OBVIOUS
<1>6. d = DueHere
  BY <1>1, GameStays
<1>7. ASSUME pc \notin Ended
      PROVE  OnLine(d)' /\ QueuedOnce(d)' /\ HeldFits'
  <2>1. OnLine(d) /\ QueuedOnce(d) /\ HeldFits
    BY <1>6, <1>7 DEF Line
  <2>2. owes \in d /\ toServer = <<>> /\ reader.at = "read" /\ Present = <<>>
    BY <1>1, <2>1 DEF OnLine, OwedOnce
  <2>3. toServer' = <<owes>>
    BY <1>1, <2>2
  <2>4. FitsLine(toServer', d)
    BY <2>2, <2>3, ShortLines
  <2>5. OwedOnce(d)' /\ SentOnce(d)' /\ ReadOnce(d)'
    BY <1>1, <2>2, <2>4 DEF OwedOnce, SentOnce, ReadOnce, Busy
  <2>6. AskedOnce(d)'
    BY <1>1, <2>1 DEF OnLine, AskedOnce
  <2>7. QueuedOnce(d)' /\ HeldFits'
    BY <1>1, <2>1, GameStays DEF QueuedOnce, HeldFits, FitsLine, game
  <2> QED BY <2>5, <2>6, <2>7 DEF OnLine
<1> QED BY <1>1, <1>4, <1>5, <1>7, GameStays, LineIsKept

LEMMA LineReads ==
  ASSUME TypeOK, LineInv, Read
  PROVE  LineInv'
<1> USE DEF LineInv
<1>1. /\ UNCHANGED <<queues, socket, joining, up, toClient, owes>> /\ UNCHANGED game
      /\ socket /\ reader.at = "read" /\ toServer # <<>> /\ toServer' = Tail(toServer)
      /\ reader'.at = "check" /\ reader'.msg = Head(toServer) /\ reader'.queue = Current
      /\ Present' = Present /\ Current' = Current
  BY DEF Read, Present, Current
<1>2. ~joining
  BY <1>1 DEF Gone
<1>3. /\ toServer \in Seq(Messages) /\ 1 \in 1..Len(toServer) /\ Head(toServer) = toServer[1]
      /\ \A k \in 1..Len(toServer') : k + 1 \in 1..Len(toServer) /\ toServer'[k] = toServer[k + 1]
  BY <1>1 DEF TypeOK
<1>4. Gone'
  BY <1>1, <1>2 DEF Gone
<1>5. QuitsAreReal'
  BY <1>1, <1>3 DEF QuitsAreReal, Busy
<1> PICK d : d = DueHere'
  OBVIOUS
<1>6. d = DueHere
  BY <1>1, GameStays
<1>7. ASSUME pc \notin Ended
      PROVE  OnLine(d)' /\ QueuedOnce(d)' /\ HeldFits'
  <2>1. OnLine(d) /\ QueuedOnce(d) /\ HeldFits
    BY <1>6, <1>7 DEF Line
  <2>2. /\ \A k \in 1..Len(toClient) : Demanded(toClient[k]) = {}
        /\ owes = Nothing
    BY <1>1, <2>1, NothingElse
  <2>3. FitsLine(toServer, d) /\ (Head(toServer) # Quit => Present = <<>>)
    BY <1>1, <2>1 DEF OnLine, SentOnce
  <2>4. /\ Head(toServer) = Quit \/ Head(toServer) \in d
        /\ FitsLine(Tail(toServer), d)
        /\ Tail(toServer) # <<>> => Head(Tail(toServer)) = Quit
    BY <1>1, <1>3, <2>3, LineTail
  <2>5. AskedOnce(d)' /\ OwedOnce(d)'
    BY <1>1, <2>2 DEF AskedOnce, OwedOnce
  <2>6. SentOnce(d)' /\ ReadOnce(d)'
    BY <1>1, <2>3, <2>4 DEF SentOnce, ReadOnce, Busy
  <2>7. QueuedOnce(d)' /\ HeldFits'
    BY <1>1, <2>1, GameStays DEF QueuedOnce, HeldFits, FitsLine, game
  <2> QED BY <2>5, <2>6, <2>7 DEF OnLine
<1> QED BY <1>1, <1>4, <1>5, <1>7, GameStays, LineIsKept

\* The three steps of put before the message is in the queue.
LEMMA LinePuts ==
  ASSUME TypeOK, LineInv, PutRefused \/ PutAllowed \/ PutClear
  PROVE  LineInv'
<1> USE DEF LineInv
<1>1. /\ UNCHANGED <<socket, joining, up, toClient, toServer, owes>> /\ UNCHANGED game
      /\ reader.at # "read" /\ Busy
      /\ \/ reader'.at \in {"clear", "enqueue"} /\ UNCHANGED <<reader.msg, reader.queue>>
         \/ reader'.at = (IF reader.msg = Quit THEN "leave" ELSE "read")
  BY DEF PutRefused, PutAllowed, PutClear, After, Idle, TypeOK, Busy
<1>2. /\ Current' = Current /\ Present' = Present
      /\ \A q \in 1..Current : queues'[q].items = queues[q].items
  <2>1. CASE PutRefused \/ PutAllowed
    BY <2>1 DEF PutRefused, PutAllowed, Current, Present
  <2>2. CASE PutClear
    <3>1. PICK k : k = reader.queue
      OBVIOUS
    <3>2. k \in 1..Current /\ queues \in Seq(QueueSet)
      BY <2>2, <3>1, PresentType DEF PutClear, TypeOK
    <3>3. PICK v : v = [queues[k] EXCEPT !.allow = FALSE]
      OBVIOUS
    <3>4. PICK t : t = queues'
      OBVIOUS
    <3>5. t = [queues EXCEPT ![k] = v]
      BY <2>2, <3>1, <3>3, <3>4, Zenon DEF PutClear
    <3>6. Len(t) = Len(queues) /\ t[k] = v /\ \A j \in 1..Len(queues) : j # k => t[j] = queues[j]
      BY <3>2, <3>5, QueueReplaced DEF Current
    <3>7. v.items = queues[k].items
      <4>1. queues[k] \in QueueSet
        BY <3>2, QueueAt DEF Current
      <4> QED BY <3>3, <4>1 DEF QueueSet
    <3>8. \A j \in 1..Len(queues) : t[j].items = queues[j].items
      BY <3>6, <3>7
    <3> QED BY <3>4, <3>6, <3>8, PresentType DEF Current, Present
  <2> QED BY <2>1, <2>2
<1>3. ~(~socket \/ joining)
  BY <1>1 DEF Gone
<1>4. Gone' /\ QuitsAreReal'
  BY <1>1, <1>2, <1>3 DEF Gone, QuitsAreReal, Busy
<1> PICK d : d = DueHere'
  OBVIOUS
<1>5. d = DueHere
  BY <1>1, <1>2, GameStays
<1>6. ASSUME pc \notin Ended
      PROVE  OnLine(d)' /\ QueuedOnce(d)' /\ HeldFits'
  <2>1. OnLine(d) /\ QueuedOnce(d) /\ HeldFits
    BY <1>5, <1>6 DEF Line
  <2>2. /\ \A k \in 1..Len(toClient) : Demanded(toClient[k]) = {}
        /\ owes = Nothing
    BY <1>1, <2>1, NothingElse
  <2>3. AskedOnce(d)' /\ OwedOnce(d)'
    BY <1>1, <2>2 DEF AskedOnce, OwedOnce
  <2>4. SentOnce(d)'
    BY <1>1, <2>1 DEF OnLine, SentOnce, FitsLine
  <2>5. ReadOnce(d)'
    BY <1>1, <1>2, <2>1 DEF OnLine, ReadOnce, Busy
  <2>6. QueuedOnce(d)'
    BY <1>1, <1>2, <2>1 DEF QueuedOnce, FitsLine, game
  <2>7. HeldFits'
    <3>1. queues'[held].items = queues[held].items /\ held' = held /\ pc' = pc /\ Due' = Due
      BY <1>1, <1>2, GameStays, PresentType
    <3> QED BY <2>1, <3>1 DEF HeldFits, FitsLine
  <2> QED BY <2>3, <2>4, <2>5, <2>6, <2>7 DEF OnLine
<1> QED BY <1>1, <1>2, <1>4, <1>6, GameStays, LineIsKept

\* The message goes into the queue the reader chose: the due one into an empty present queue.
LEMMA LineFills ==
  ASSUME TypeOK, LineInv, PutItem
  PROVE  LineInv'
<1> USE DEF LineInv
<1>1. /\ UNCHANGED <<socket, joining, up, toClient, toServer, owes>> /\ UNCHANGED game
      /\ reader.at # "read" /\ Busy
      /\ reader'.at = (IF reader.msg = Quit THEN "leave" ELSE "read")
  BY DEF PutItem, After, Idle, Busy
<1> PICK k : k = reader.queue
  OBVIOUS
<1> PICK m : m = reader.msg
  OBVIOUS
<1>2. /\ k \in 1..Current /\ m \in Messages
      /\ Current' = Current /\ queues'[k].items = Append(queues[k].items, m)
      /\ \A j \in 1..Current : j # k => queues'[j].items = queues[j].items
  <2>1. k \in 1..Current /\ queues \in Seq(QueueSet) /\ m \in Messages
    BY PresentType DEF PutItem, TypeOK
  <2>2. PICK v : v = [queues[k] EXCEPT !.items = Append(queues[k].items, m)]
    OBVIOUS
  <2>3. PICK t : t = queues'
    OBVIOUS
  <2>4. t = [queues EXCEPT ![k] = v]
    BY <2>2, <2>3, Zenon DEF PutItem
  <2>5. Len(t) = Len(queues) /\ t[k] = v /\ \A j \in 1..Len(queues) : j # k => t[j] = queues[j]
    BY <2>1, <2>4, QueueReplaced DEF Current
  <2>6. v.items = Append(queues[k].items, m)
    <3>1. queues[k] \in QueueSet
      BY <2>1, QueueAt DEF Current
    <3> QED BY <2>2, <3>1 DEF QueueSet
  <2> QED BY <2>1, <2>3, <2>5, <2>6 DEF Current
<1>3. ~(~socket \/ joining)
  BY <1>1 DEF Gone
<1>4. k = Current => Present' = Append(Present, m)
  BY <1>2 DEF Present
<1>5. k # Current => Present' = Present
  BY <1>2, PresentType DEF Present
<1>6. Gone'
  BY <1>1, <1>3 DEF Gone
<1>7. QuitsAreReal'
  <2> SUFFICES ASSUME up PROVE QuitsAreReal'
    BY <1>1 DEF QuitsAreReal
  <2>1. /\ m # Quit /\ owes # Quit
        /\ \A j \in 1..Len(toServer) : toServer[j] # Quit
        /\ \A j \in 1..Len(Present) : Present[j] # Quit
    BY <1>1, <1>3 DEF QuitsAreReal
  <2>2. \A j \in 1..Len(Present') : Present'[j] # Quit
    <3>1. CASE k = Current
      <4>1. /\ Len(Present') = Len(Present) + 1 /\ Present'[Len(Present) + 1] = m
            /\ \A j \in 1..Len(Present) : Present'[j] = Present[j]
            /\ Len(Present) \in Nat
        BY <1>2, <1>4, <3>1, PresentType, AppendProperties
      <4>2. \A j \in 1..Len(Present') : j \in 1..Len(Present) \/ j = Len(Present) + 1
        BY <4>1
      <4> QED BY <2>1, <4>1, <4>2
    <3>2. CASE k # Current
      BY <1>5, <2>1, <3>2
    <3> QED BY <3>1, <3>2
  <2> QED BY <1>1, <2>1, <2>2 DEF QuitsAreReal, Busy
<1> PICK d : d = DueHere'
  OBVIOUS
<1>8. d = DueHere
  BY <1>1, <1>2, GameStays
<1>9. ASSUME pc \notin Ended
      PROVE  OnLine(d)' /\ QueuedOnce(d)' /\ HeldFits'
  <2>1. OnLine(d) /\ QueuedOnce(d) /\ HeldFits
    BY <1>8, <1>9 DEF Line
  <2>2. /\ \A j \in 1..Len(toClient) : Demanded(toClient[j]) = {}
        /\ owes = Nothing
    BY <1>1, <2>1, NothingElse
  <2>3. AskedOnce(d)' /\ OwedOnce(d)'
    BY <1>1, <2>2 DEF AskedOnce, OwedOnce
  <2>4. SentOnce(d)'
    BY <1>1, <2>1 DEF OnLine, SentOnce, FitsLine
  <2>5. ReadOnce(d)'
    BY <1>1 DEF ReadOnce, Busy
  <2>6. m # Quit => m \in d /\ k = Current /\ Present = <<>>
    BY <1>1, <2>1 DEF OnLine, ReadOnce
  <2>7. ASSUME NEW due, FitsLine(queues[k].items, due), m # Quit => m \in due
        PROVE  FitsLine(Append(queues[k].items, m), due)
    <3> PICK line : line = queues[k].items
      OBVIOUS
    <3>1. line \in Seq(Messages) /\ FitsLine(line, due)
      BY <1>2, <2>7, PresentType
    <3>2. CASE m = Quit
      BY <3>1, <3>2, LineFacts
    <3>3. CASE m # Quit
      <4>1. line = <<>>
        BY <2>6, <3>3 DEF Present
      <4>2. Append(line, m) = <<m>>
        BY <4>1
      <4> QED BY <2>7, <3>3, <4>2, ShortLines
    <3> QED BY <3>2, <3>3
  <2>8. QueuedOnce(d)'
    <3>1. CASE k = Current
      <4>1. FitsLine(Present, d) => FitsLine(Append(Present, m), d)
        BY <2>6, <2>7, <3>1 DEF Present
      <4> QED BY <1>1, <1>4, <2>1, <3>1, <4>1 DEF QueuedOnce, game, FitsLine
    <3>2. CASE k # Current
      BY <1>1, <1>5, <2>1, <3>2 DEF QueuedOnce, game, FitsLine
    <3> QED BY <3>1, <3>2
  <2>9. HeldFits'
    <3>1. held' = held /\ pc' = pc /\ Due' = Due
      BY <1>1, <1>2, GameStays
    <3>2. CASE k = held
      <4>1. m # Quit => m \in Due
        BY <1>8, <2>6, DueIsAsked
      <4>2. PICK due : due = Due
        OBVIOUS
      <4>3. pc = "get" => FitsLine(Append(queues[k].items, m), due)
        BY <2>1, <2>7, <3>2, <4>1, <4>2 DEF HeldFits
      <4> QED BY <1>2, <3>1, <3>2, <4>2, <4>3 DEF HeldFits, FitsLine
    <3>3. CASE k # held
      <4>1. queues'[held].items = queues[held].items
        BY <1>2, <3>3, PresentType
      <4> QED BY <2>1, <3>1, <4>1 DEF HeldFits, FitsLine
    <3> QED BY <3>2, <3>3
  <2> QED BY <2>3, <2>4, <2>5, <2>8, <2>9 DEF OnLine
<1> QED BY <1>1, <1>2, <1>6, <1>7, <1>9, GameStays, LineIsKept

\* The reader leaves only when the connection ended, and empties it.
LEMMA LineLeaves ==
  ASSUME TypeOK, LineInv, Leave
  PROVE  LineInv'
<1> USE DEF LineInv
<1>1. /\ UNCHANGED <<queues, joining, up, owes>> /\ UNCHANGED game
      /\ reader.at = "leave" /\ socket' = FALSE /\ reader'.at = "read"
      /\ toServer' = <<>> /\ toClient' = <<>>
      /\ Present' = Present /\ Current' = Current
  BY DEF Leave, Idle, Present, Current
<1>2. ~joining /\ ~up /\ owes = Nothing
  BY <1>1 DEF Gone, QuitsAreReal
<1>3. Gone' /\ QuitsAreReal'
  BY <1>1, <1>2 DEF Gone, QuitsAreReal
<1> PICK d : d = DueHere'
  OBVIOUS
<1>4. d = DueHere
  BY <1>1, GameStays
<1>5. OnLine(d)'
  BY <1>1, <1>2, EmptyLine
<1>6. pc \notin Ended => QueuedOnce(d)' /\ HeldFits'
  BY <1>1, <1>4, GameStays DEF Line, QueuedOnce, HeldFits, FitsLine, game
<1> QED BY <1>1, <1>3, <1>5, <1>6, GameStays, LineIsKept

\* The connection is lost: its end comes after what was sent.
LEMMA LineEnds ==
  ASSUME TypeOK, LineInv, Drop
  PROVE  LineInv'
<1> USE DEF LineInv
<1>1. /\ UNCHANGED <<queues, socket, joining, reader>> /\ UNCHANGED game
      /\ socket /\ ~joining /\ up' = FALSE /\ owes' = Nothing /\ toClient' = <<>>
      /\ toServer' = Append(toServer, Quit)
      /\ Present' = Present /\ Current' = Current
  BY DEF Drop, Present, Current
<1>2. Gone' /\ QuitsAreReal'
  BY <1>1 DEF Gone, QuitsAreReal
<1> PICK d : d = DueHere'
  OBVIOUS
<1>3. d = DueHere
  BY <1>1, GameStays
<1>4. ASSUME pc \notin Ended
      PROVE  OnLine(d)' /\ QueuedOnce(d)' /\ HeldFits'
  <2>1. OnLine(d) /\ QueuedOnce(d) /\ HeldFits
    BY <1>3, <1>4 DEF Line
  <2>2. AskedOnce(d)' /\ OwedOnce(d)' /\ ReadOnce(d)'
    BY <1>1, <2>1 DEF OnLine, AskedOnce, OwedOnce, ReadOnce, Busy
  <2>3. toServer \in Seq(Messages) /\ FitsLine(toServer, d)
    BY <2>1 DEF OnLine, SentOnce, TypeOK
  <2>4. FitsLine(toServer', d)
    BY <1>1, <2>3, LineFacts
  <2>5. Head(toServer') # Quit => toServer # <<>> /\ Head(toServer) # Quit
    <3>1. CASE toServer = <<>>
      BY <1>1, <3>1
    <3>2. CASE toServer # <<>>
      <4>1. Head(toServer') = Head(toServer)
        BY <1>1, <2>3, <3>2, MessageTypes
      <4> QED BY <3>2, <4>1
    <3> QED BY <3>1, <3>2
  <2>6. SentOnce(d)'
    BY <1>1, <2>1, <2>4, <2>5 DEF OnLine, SentOnce
  <2>7. QueuedOnce(d)' /\ HeldFits'
    BY <1>1, <2>1, GameStays DEF QueuedOnce, HeldFits, FitsLine, game
  <2> QED BY <2>2, <2>6, <2>7 DEF OnLine
<1> QED BY <1>1, <1>2, <1>4, GameStays, LineIsKept

\* The player comes back: first to an empty connection and his old queue ...
LEMMA LineReturns ==
  ASSUME TypeOK, LineInv, Rejoin
  PROVE  LineInv'
<1> USE DEF LineInv
<1>1. /\ UNCHANGED <<queues, toClient, toServer, owes, reader>> /\ UNCHANGED game
      /\ ~up /\ ~socket /\ ~joining /\ socket' /\ up' /\ joining'
      /\ Present' = Present /\ Current' = Current
  BY DEF Rejoin, Present, Current
<1>2. toServer = <<>> /\ toClient = <<>> /\ owes = Nothing /\ reader.at = "read"
  BY <1>1 DEF Gone
<1>3. Gone' /\ QuitsAreReal'
  BY <1>1, <1>2 DEF Gone, QuitsAreReal
<1> PICK d : d = DueHere'
  OBVIOUS
<1>4. d = DueHere
  BY <1>1, GameStays
<1>5. OnLine(d)'
  BY <1>1, <1>2, EmptyLine
<1>6. pc \notin Ended => QueuedOnce(d)' /\ HeldFits'
  BY <1>1, <1>4, GameStays DEF Line, QueuedOnce, HeldFits, FitsLine, game
<1> QED BY <1>1, <1>3, <1>5, <1>6, GameStays, LineIsKept

\* ... then to a queue of his own, empty as well.
LEMMA LineRenewed ==
  ASSUME TypeOK, LineInv, RejoinQueue
  PROVE  LineInv'
<1> USE DEF LineInv
<1>1. /\ UNCHANGED <<socket, up, toServer, owes, reader>> /\ UNCHANGED game
      /\ joining /\ joining' = FALSE /\ queues' = Append(queues, NewQueue)
      /\ toClient' = (IF up THEN Append(toClient, Msg("start", 0)) ELSE toClient)
  BY DEF RejoinQueue, Personal
<1>2. /\ socket /\ up /\ toServer = <<>> /\ toClient = <<>> /\ owes = Nothing /\ reader.at = "read"
      /\ toClient' = <<Msg("start", 0)>>
  <2>1. socket /\ up /\ toServer = <<>> /\ toClient = <<>> /\ owes = Nothing /\ reader.at = "read"
    BY <1>1 DEF Gone
  <2> QED BY <1>1, <2>1
<1>3. Present' = <<>> /\ \A q \in 1..Current : queues'[q] = queues[q]
  BY <1>1, QueueMade
<1>4. Gone' /\ QuitsAreReal'
  BY <1>1, <1>2, <1>3, MessagesDiffer DEF Gone, QuitsAreReal, Busy
<1> PICK d : d = DueHere'
  OBVIOUS
<1>5. OnLine(d)'
  <2>1. \A k \in 1..Len(toClient') : Demanded(toClient'[k]) = {}
    BY <1>2, Demands
  <2> QED BY <1>1, <1>2, <2>1, ShortLines DEF OnLine, AskedOnce, OwedOnce, SentOnce, ReadOnce, Busy
<1>6. QueuedOnce(d)'
  BY <1>3, ShortLines DEF QueuedOnce
<1>7. pc \notin Ended => HeldFits'
  <2>1. queues'[held] = queues[held] /\ held' = held /\ pc' = pc
    BY <1>1, <1>3, PresentType DEF game
  <2>2. Due' = Due
    BY <1>1, DueAfter DEF game
  <2> QED BY <2>1, <2>2 DEF Line, HeldFits, FitsLine
<1>8. pc' = pc
  BY <1>1 DEF game
<1> QED BY <1>4, <1>5, <1>6, <1>7, <1>8, LineIsKept

LEMMA LineStep ==
  ASSUME TypeOK, LineInv, [Next]_vars, ~overtaken', extras' = 0
  PROVE  LineInv'
<1>1. CASE UNCHANGED vars
  <2>1. UNCHANGED <<queues, socket, joining, up, toClient, toServer, owes, reader>> /\ UNCHANGED game
        /\ Present' = Present /\ Current' = Current
    BY <1>1 DEF vars, game, Present, Current
  <2>2. Gone' /\ QuitsAreReal'
    BY <2>1 DEF LineInv, Gone, QuitsAreReal, Busy
  <2> PICK d : d = DueHere'
    OBVIOUS
  <2>3. d = DueHere /\ pc' = pc /\ held' = held /\ Due' = Due
    BY <2>1, GameStays
  <2>4. pc \notin Ended => OnLine(d)' /\ QueuedOnce(d)' /\ HeldFits'
    BY <2>1, <2>3, OnLineStays DEF LineInv, Line, QueuedOnce, HeldFits, FitsLine
  <2> QED BY <2>2, <2>3, <2>4, LineIsKept
<1>2. CASE Stopped
  BY <1>1, <1>2 DEF Stopped
<1>3. CASE GameThread \/ SendRaises
  <2>1. CASE StartHand \/ Ask \/ Get \/ EndHand \/ Settle \/ MatchOver \/ CloseMatch
    <3>1. CASE ~joining
      BY <2>1, <3>1, LineSends, LineStarts, LineTakes
    <3>2. CASE joining
      <4>1. ~GameThread \/ AskNobody \/ Recheck \/ AllowPut \/ Grab \/ NextHand
        BY <3>2, Zenon DEF GameThread
      <4> QED BY <1>3, <4>1, LineQuiet, LineAllows, Zenon
    <3> QED BY <3>1, <3>2
  <2>2. CASE AskNobody \/ Recheck \/ Grab \/ NextHand \/ SendRaises
    BY <2>2, LineQuiet
  <2>3. CASE AllowPut
    BY <2>3, LineAllows
  <2> QED BY <1>3, <2>1, <2>2, <2>3 DEF GameThread
<1>4. CASE ReaderThread
  BY <1>4, LineReads, LinePuts, LineFills, LineLeaves DEF ReaderThread
<1>5. ~Extra
  BY DEF Extra, TypeOK
<1> QED BY <1>1, <1>2, <1>3, <1>4, <1>5, LineReceives, LineReplies, LineEnds, LineReturns,
           LineRenewed DEF Next

LEMMA LineStartsEmpty == Init => LineInv
<1> SUFFICES ASSUME Init PROVE LineInv
  OBVIOUS
<1>1. /\ toClient = <<>> /\ toServer = <<>> /\ owes = Nothing /\ reader.at = "read"
      /\ socket /\ ~joining /\ up /\ pc = "start" /\ Present = <<>>
  BY DEF Init, Idle, Present, Current, NewQueue
<1>2. Gone /\ QuitsAreReal
  BY <1>1, MessagesDiffer DEF Gone, QuitsAreReal, Busy
<1>3. \A d : OnLine(d) /\ QueuedOnce(d)
  BY <1>1, ShortLines DEF OnLine, AskedOnce, OwedOnce, SentOnce, ReadOnce, Busy, QueuedOnce
<1> QED BY <1>1, <1>2, <1>3 DEF LineInv, Line, HeldFits

\* As long as nothing unasked was sent and no reconnection was overtaken.
InOrder == ~overtaken /\ extras = 0
OrderInv == InOrder => LineInv

LEMMA OrderIsOlder == TypeOK /\ [Next]_vars /\ InOrder' => InOrder
<1> SUFFICES ASSUME TypeOK, [Next]_vars, InOrder' PROVE InOrder
  OBVIOUS
<1> USE DEF InOrder
<1>1. CASE GameThread
  <2>1. extras' = extras
    BY <1>1 DEF GameThread, StartHand, Ask, Get, EndHand, Settle, MatchOver, CloseMatch,
                AskNobody, Recheck, AllowPut, Grab, NextHand, connection
  <2>2. overtaken => overtaken'
    BY <1>1, Zenon DEF GameThread
  <2> QED BY <2>1, <2>2
<1>2. CASE SendRaises \/ Stopped \/ UNCHANGED vars
  BY <1>2 DEF SendRaises, Stopped, vars, connection
<1>3. CASE ReaderThread
  BY <1>3 DEF ReaderThread, Read, PutRefused, PutAllowed, PutClear, PutItem, Leave, game
<1>4. CASE Receive \/ Reply \/ Drop \/ Rejoin \/ RejoinQueue
  BY <1>4 DEF Receive, Reply, Drop, Rejoin, RejoinQueue, game
<1>5. CASE Extra
  BY <1>5 DEF Extra, TypeOK, game
<1> QED BY <1>1, <1>2, <1>3, <1>4, <1>5 DEF Next

(* What the game thread takes for an answer was sent for the question it asked, *)
(* and what it takes for a confirmation confirms this hand: for any number of   *)
(* hands, questions and lost connections, and wherever the game thread and a    *)
(* reconnection meet, until the player has sent something unasked or the game   *)
(* thread has sent to him or taken from his queue between the two assignments   *)
(* of player_join.                                                              *)
THEOREM AnswersBelong == Spec => []AnswersMatch
<1>1. TypeOK /\ OrderInv => AnswersMatch
  <2> SUFFICES ASSUME TypeOK, LineInv, pc = "get", queues[held].items # <<>>
               PROVE  Fits(Head(queues[held].items))
    BY DEF AnswersMatch, OrderInv, InOrder
  <2> PICK line : line = queues[held].items
    OBVIOUS
  <2>1. line \in Seq(Messages) /\ line # <<>> /\ FitsLine(line, Due)
    BY PresentType DEF LineInv, Line, HeldFits, Ended
  <2>2. Head(line) = Quit \/ Head(line) \in Due
    BY <2>1, LineTail
  <2> QED BY <2>2 DEF Due, Fits
<1>2. Init => TypeOK /\ OrderInv
  BY TypeInit, LineStartsEmpty DEF OrderInv
<1>3. TypeOK /\ OrderInv /\ [Next]_vars => (TypeOK /\ OrderInv)'
  <2> SUFFICES ASSUME TypeOK, OrderInv, [Next]_vars PROVE TypeOK' /\ (InOrder' => LineInv')
    BY DEF OrderInv
  <2>1. TypeOK'
    BY TypeStep
  <2>2. ASSUME InOrder' PROVE LineInv'
    <3>1. LineInv
      BY <2>2, OrderIsOlder DEF OrderInv
    <3>2. ~overtaken' /\ extras' = 0
      BY <2>2 DEF InOrder
    <3> QED BY <3>1, <3>2, LineStep
  <2> QED BY <2>1, <2>2
<1> QED BY <1>1, <1>2, <1>3, PTL DEF Spec

=============================================================================
