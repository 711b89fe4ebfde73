# MahJong RLAI: models, checks and proofs

This directory holds TLA+ models of the riichi mahjong server of this
repository, the TLC runs that check them on small instances, and TLAPS proofs
of their most important invariants for every value of their constants. The
modules are written from the code; each comment names the function it stands
for, and `PROJECT.json` maps definitions to lines.

Run everything here: `tlc -config X.cfg M` for a run, `tlapm MProofs.tla` for
the proofs.

## 1. The system

The live program is the Python server `online_game/server.py` with the rules in
`mahjong/`. Four seats play a match of up to twelve hands and more; a seat is a
human behind a TCP connection or an AI. Everything else (clients, two C++
servers, training) is around it.

| component | state | operations | hard part | correct when |
|---|---|---|---|---|
| match settlement (`GameEnvironment.game_update`, `reset`, `agari_context`) | scores, round, honba, riichi sticks, in two copies: `GameEnvironment` keeps one between hands, `MahjongGame` one during a hand | start a hand, buy a riichi stick, settle a result, end the match | the two copies go apart during a hand; rounding; four conditions that end a match | points are neither made nor lost; a match ends when the rules say and not before |
| hand loop and wall (`game_loop`, `handle_draw`, `handle_tsumo_action`, `handle_discard`, `MahjongGame`) | wall, `left_num`, indicators, kans, `first_round`, four agents | draw, discard, riichi, chi, pon, three kinds of kan, wins, six kinds of draw | one loop with three ways of going on; a call in the middle of it jumps back to its head; flags set and cleared in several places | tiles are conserved, hands have the right size, flags (ippatsu, double riichi, first round, nagashi) mean what they say, every hand ends |
| question and answer exchange (`ControlledQueue`, `fetch_message`, `handle_client`, `player_disconnect`, `player_join`) | a queue with a permission flag per human, the socket, the reader thread, the game thread's wait | ask, allow, put, get, lose and regain a connection | two threads share the queue and the socket without a lock; the queue drops what comes without permission | an answer is used for the question it answers; no wait lasts for ever |
| room (`player_join`, `player_disconnect`, `run`, `reset`, observers) | list of clients, observers, `game_start` | join, leave, watch, start a match, reset | the connection thread, the reader threads and the game thread all change the list | a match is dealt to four players or not at all; a seat has a reader that will give it up |
| hand and tile rules (`mahjong/agent.py`, `check_draw`, `check_discard`) | tiles, counts by type, melds, waits, three kinds of furiten | what may be called, kanned, won, discarded | counts, tiles and melds are updated apart; waits are cached | offers agree with the rules; no player in furiten wins a discard |
| yaku and fu (`mahjong/yaku.py`) | none | score a hand | many patterns | pure function |
| agari and machi tables (`make_*_table*.py`, `check_agari.py`) | pickled tables | look up a hand | generated offline | pure function |
| AI decisions (`agent.py`, `lookahead.py`, features in `game.py`) | networks | choose one of the offers | numeric | any offered action is legal |
| terminal client (`online_game/client.py`) | a copy of the table | show events, answer questions, press Enter | its copy is built from events alone; it answers exactly what it is asked | its table is the server's |
| Godot client (`GameState.gd`, `Protocol.gd`, `WebSocketClient.gd`, `Main.gd`) | a copy of the table, a socket | the same over WebSocket | the same, and reconnecting | the same |
| C++ backend (`cpp_backend/src`) | the same table, `m_mutex`, five kinds of threads | the same | locks held over joins; indices into a shrinking wall | no deadlock; the same rules |
| backend support (`json.hpp`, `log.hpp`, `ai_proxy.hpp`) | none | text, files, one HTTP-like request | none | |
| legacy C++ server (`online_game/Server/server.cpp`) | the same table, `game_mutex` | the same over TCP | the lock is held for a whole match | no deadlock; reconnecting works |
| training and data sets | tensors | loops over PyTorch | numeric | |
| web shell (`mah-jong/export/MahJong.js`, `MahJong.html`) | downloads, their progress, one preloader and two promises that all engines share, the page's overlay | fetch and retry, load, init, start, unload, quit | promises that nobody refuses; lists and counters shared by engines | a started game has its files; every start settles; progress never shrinks |
| web audio (`MahJong.audio.worklet.js` and the sound driver in `MahJong.js`) | two ring buffers with a fill count each, messages both ways | read and write a block, start, stop, send a chunk | two threads, one buffer, no lock; without threads room is only known by counting | what is heard is what was made, in order, and it goes on |
| web audio position (`MahJong.audio.position.worklet.js`) | a counter | count a block | none | |
| mah-jong scenes (`online_game/mah-jong/Scripts`) | none | stubs of a menu | none | |

How they meet: `Server.run` starts one *game thread* per match, which plays
hands (`game_loop`) and settles them (`game_update`); whenever a human has to
decide it sends a question and blocks in `fetch_message`. One *connection
thread* takes new connections to `player_join`, and starts one *reader thread*
per human, which puts messages on that human's queue and calls
`player_disconnect` at the end. Nothing is saved: a stopped process forgets the
match.

The exported web client is apart from that: the page's script starts an engine,
which downloads itself and its pack and then plays sound through an audio
worklet. Of it the models hold the downloads, the engine's life and the sound
path.

## 2. Modules

| module | models | proofs |
|---|---|---|
| `Match` (`MCMatch` gives it start positions) | settlement, counters, end of match | `MatchProofs` |
| `RoundLoop` | one hand | `RoundLoopProofs`, `RoundMarksProofs` |
| `Exchange` | the exchange between the game thread and one human | `ExchangeProofs` |
| `TileRules` | one player's tiles, waits, furiten, and what he is offered | `TileRulesProofs` |
| `Lobby` | what the room promises: abstract | |
| `Room` | connections, readers, `run`, the life of a game thread; implements `Lobby` | `RoomProofs` |
| `SampleStream` | what one direction of the sound path promises: abstract | |
| `SampleRing`, `AudioWorklet` | the ring buffer; the sound path with threads and without, which implements `SampleStream` twice | `AudioWorkletProofs` |
| `Preloader`, `WebEngine` (`MCWebEngine` gives it values) | downloads; engines and the page that share them | `WebEngineProofs` |

The modules of the server meet at narrow places. `RoundLoop.result` is what
`Match.EndHand` takes as a result, with the winner's base points added. A question
of `Exchange` is one of the choices of `RoundLoop` (an element of `Answers`, or
which of the draw actions is taken), and `TileRules` says which of these choices
one player is offered. `Room` takes the whole of a match as one place, `play`, that
is left by its end or by an exception, which is `SendRaises` of `Exchange`. They are
separate modules because a product of them would be far too large for TLC and
would show no more: the hand loop never reads a queue except through the answer it
gets, and the settlement reads nothing of the hand but its result.

### Match

`score`, `round`, `honba` and `riichiBa` are the fields of `GameEnvironment`;
`game` holds the three values `MahjongGame` copies when a hand starts and counts
by itself (`honba`, `riichi_ba`, `oya`). `minScore` is the `-m` option. A hand
is `StartHand`, any number of `DeclareRiichi`, `EndHand` with *any* result a
hand can have (self draw; one or two winners of a discard; an exhaustive draw
with any set of ready players and of nagashi mangan; an abortive draw),
`GameUpdate`. Scores are in hundreds, as in the code. `Projected` and
`PredictsEnd` are `agari_context` and `_game_ends_after_win`, which tell the AI
what a win would do; they read the environment's counters while the hand has
its own. `Reset` and `RestartServer` bring back a fresh table.

The base value of a win is an element of `BaseScores` (240 is the cheapest, 30
fu and one han; 2000 is a mangan, 8000 a limit hand); how the yaku give it is
not modelled.

### RoundLoop

`yama` is the wall, each tile named by its place from the end, so that the
dead end keeps its names; `leftNum`, `dora`, `ura`, `kang`, `firstRound` are
the fields of `MahjongGame`, `agent` what the loop reads of the four `Agent`s, `cur`
is `current_player`, and `pc` where `game_loop` stands: before a draw from the front
(`draw`) or from the dead end (`rinshan`), after an announced added kan
(`chankan`), before and after a discard (`discard`, `answer`), and `end`.

A draw with what the player does with it is one action, because the game thread
does it without letting anybody else at the table: `DrawAndKeep`, `DrawAndWin`,
`DrawAndAbort`, `DrawAndRiichi`, `DrawAndClosedKan`, `DrawAndAddKan`. After
`Discard` the answers of the three others are one function `ans`; `Won`,
`DiscardAborts`, `CallChi`, `CallPon`, `CallKan` and `NobodyCalls` are the ways
`game_loop` goes on, in the code's order (wins, four winds, riichi takes
effect, four riichi, pon and kan before chi, nobody). A hand that ends with the wall is
marked for nagashi mangan for every player whose river is whole (section 5).

Which tiles a hand holds decides what a player is *offered*. That is left open:
a player may do what the table's state does not forbid, so the model has every
behaviour of the code and some more. What is kept of the tiles is how many
there are and where, and of first discards which wind they are.

### Exchange

One human; the others are the steps of the game thread between two questions to
him. `queues` are all `ControlledQueue`s ever made for him (a queue is replaced
at each hand and at a reconnection, and a thread may still hold an old one),
`reader` is `handle_client` with the three steps of `put` (test, clear,
enqueue), `pc` the game thread with the steps of `fetch_message` apart
(`recheck`, `allow`, `grab`, `get`), `socket` whether the server thinks him
connected, `up` whether he is, `joining` the moment between the two assignments with which
`player_join` replaces socket and queue. `overtaken` is history: the game thread sent to him or took
from his queue in that moment. The player's side (`Receive`, `Reply`) is
`client.py`: one message for each question, one Enter for the end of each hand,
none for the final ranking. `Extra` is another client that sends what it was
not asked for, `Drop` the network; both are marked external.

### TileRules

`tiles`, `counter` (`hand_tile_counter`), `bak`, `machi`, `furo` and the three furiten
flags are the fields of one `Agent`; the other three players are what they discard.
Tiles of one kind are alike, so `tiles` is a count of each kind, and it is kept
beside `counter` because the code keeps both. An action is what the agent, the
offer (`check_draw`, `check_discard`) and the loop do together: `Draw` leads to
`Tsumo`, `Discard`, `DiscardAndRiichi`, `Ankan` or `AddKan`; another player's discard
to `Ron`, `Pass`, `Chi`, `Pon` or `Minkan`. `banned` is the list of `game_loop`. `gone` and
`passed` are history: where the other copies of a kind are, and the winning tiles
the player let go since he last chose a discard. `IsAgari` and `Machi` are what the
generated tables answer for hands of sets and a pair; `InSets` says it by choosing which runs
begin at each kind, without recursion. Kinds keep the code's
numbers, so that a range over the end of a suit shows what the arithmetic does there.

### Room

`seats` and `bots` are the list `self.clients`, players and bots apart (its order is never read
but through the name), `conns` the connections the server has accepted: one has a reader
thread (`open`), has ended without its reader having noticed (`ended`), or was never given a
reader because the greeting raised (`unread`). `thread` is the game thread: none, started
but `game_start` still false (`begin`), `marked`, `play`, `over` (`game_start` false again), `rank`, and
the steps of `reset` (`closed`, `cleared`, with `PutBot` for each bot). The code has no lock there, so
every thread may move between any two steps of another; only `player_join` and
`player_disconnect` are one action each (section 5). `Crash` is whatever is raised in a match or after it,
which `game_thread` catches. `brokeOff` is history: a match was broken off after its end.

A client is found by name, as in the code: `Client.__eq__` compares the name with a
string, so `Of(name)` may be the entry of a newer connection than the one whose
reader asks. `Lobby` knows names only: who has which place, who is away, and
whether the room waits, has called its four, deals, plays, was broken off, has finished, or is being
emptied. People come and go until the match is dealt, so it may find fewer than four: then it
breaks off. From then on the places stay with their names to the end of the match.

### AudioWorklet

`mode` is how the engine was built. With threads, `output` and `input` are shared
by the processor and the engine's audio thread, and each of the steps look, copy,
count is an action, so that they interleave (`step` for the processor, `engine` for the
other). Without threads the processor owns the output ring; `toWorklet`, `reads` and
`inputs` are the messages. Samples are numbered round, so that a sample lost, repeated or
out of order shows. A block of input may have any of the lengths `InChunks`, another each time, as
worklet.js:160 expects. `OutStream` and `InStream` map the two directions to `SampleStream`: what
is on its way is what the ring holds and the messages carry. `SampleStream` numbers its
samples too: only silence may come before the first (`Begin`, the full ring of
`start_nothreads`), each one put is the next, each one taken the oldest, and a stream that was
given up (`Close`) delivers nothing more. `Spoil` takes the oldest samples off and delivers
others: without threads `receive` loses samples of a block that ends on or past the end of its
buffer (section 3, `BlocksWhole`), and `Spoilt` is exactly that. The output is given up when the processor is told to
stop, the input without threads when the page closes the path.

### Preloader and WebEngine

`jobs` are the calls of `loadPromise` with the attempts each has left; a job fetches, waits and
fetches again, or streams, and is done, failed or broken off. Each attempt makes its file a new one of
the `entries` that `loadingFiles` finds by name; a response is counted on the entry its file
has when it comes (MahJong.js:149), so two downloads of one file may share one, and the first
to end closes the other's stream (115). A copy of a file is therefore "none", "part" or "whole". `frames` are the
callbacks `animateProgress` has asked for. `WebEngine` adds the promises that all
engines share (`loadPromise`, `initPromise`), the calls of `doInit` (`inits`), the module
of each engine (`rtenv`), what its last start waits for (`start`, where `own` says that `startGame` asked for
the module itself and did not join another engine's `init`), and the page's overlay. A start that has
its module may still fail (`StartFails`), with some or all of the waiting files copied.
A callback runs to its end, so each is one action; what a fetch, a response or
the build of a module does is the browser's choice.

## 3. What the runs check

Every property of a passing run has a mutant in `PROJECT.json`: a change of one
mapped definition, as a slip in that code would make it, after which TLC finds
the property violated.

| run | bounds | shows |
|---|---|---|
| `match_one_hand` | one hand from each of nine positions; three base values; up to four sticks; `-m` 0 and 10000 | `PointsConserved`, `SolventToPlay`, `WindInRange`, `EndJustified`, `PredictionExact` |
| `round_calls` | five draws, up to five kans, a chi or pon, one wind | `TilesAccounted`, `MarksExact`, `AbortsHonoured` (four winds), `IndicatorsMatchKans`, `IndicatorsInWall` |
| `round_riichi` | nine draws, a kan, a call | `RiichiExact`, `DoubleRiichiExact`, `AbortsHonoured` (four riichi), `IppatsuEndsWithCalls`, `HandEnds` |
| `exchange_safe` | two hands, two questions each, a lost connection, an unasked message, a player who answers and confirms early; 3.4M states | `AnswersMatch`, `OnePermission` |
| `exchange_live` | one hand, two questions, a lost connection, an unasked message; 197k states | `WaitsEnd`, `AskedIsServed` |
| `exchange_hasty` (violation) | two hands, Enter at once | `WaitsEnd`: an early Enter stops the match |
| `room` | two bots, three players, three connections at a time, spectators; 539k states up to renaming players | `SeatsAreRead`, `LobbyKept` |
| `rules` | every hand of four tiles (a set and a pair, one short) of five kinds over the end of a suit, three draws or calls; 192k states | `WaitsExact`, `FuritenExact`, `CallsLeaveDiscard`, and that tiles and counts agree (`TypeOK`) |
| `rules_rinshan` (violation) | the same | `RinshanIsWin`: a false win is offered on a replacement tile |
| `audio` | rings of five samples, blocks of two to play and of none, two or three to capture; both modes; 803k states | `NoRace`, `ChunksFit`, `HeardInOrder`, `CapturedInOrder`, `KeepsPlaying` |
| `web` | three files, two failures, two attempts, two engines; 203k states | `EnginesShare`, `ReportedGrows`, `StartSettles`, `LoopEnds` |
| `web_failure` (violation) | the same | `FailureIsShown`: an engine that cannot be loaded is never told of |

What some of them say, and what they leave out:

- *`EndJustified`* compares each settlement with `MatchDecided`, what the rules ask, told from the
  scores and rounds the settlement leaves: the match ends exactly then. Entering South four
  does not end it, a leading dealer who keeps the deal there does, a trailing one does not.
- *`AbortsHonoured`* is about four winds and four riichi. Four kans, the third such draw, are passed
  over by the code (`NoFifthKan` below).
- *`IndicatorsInWall`* is about the dora indicators. The ura indicators are not where they
  should be (`UraHidden` below).
- *`IppatsuEndsWithCalls`* looks at chi, pon and the three kinds of kan, an added kan, which
  turns a triplet into a kan, among them.
- *`PredictionExact`* excepts hands in which a stick was put down (section 5).
- *`AnswersMatch`* holds up to the first unasked message (which is used for whatever question
  comes next) and up to the first time the game thread overtakes a reconnection
  (`overtaken`, section 5); neither is kept from happening.
- *`AskedIsServed`*: once the game thread takes from the queue the player has, whatever is on its way to
  it ends the wait: the question not yet answered, the answer, the end of the connection. It does not say that
  every wait ends. One that begins when the end of the connection has already been dropped does
  not (`DecisionStepEnds` below), nor one at a queue that has been replaced.
- *`LobbyKept`* says that a match is dealt to four or not at all and that its places are
  kept, with all interleavings open. *`SeatsAreRead`* excepts a seat whose player could not be greeted, a name that
  sits twice (the ranking makes that possible) and a room whose match broke off after its
  end.
- *`CapturedInOrder`* excepts the blocks that `receive` spoils (`BlocksWhole` below).
- *`EnginesShare`* claims the pack for a game whose `startGame` asked for the module itself, and a whole one
  unless two downloads of the pack were counted on one entry (`PackIsWhole` below).
- *`StartSettles`* and *`LoopEnds`* except a wasm that cannot be had, a response that breaks off, and for
  the loop a file that was given up: there the code waits, or asks for frames, for ever, which is
  plain from MahJong.js:716, 132 and 186. They say that nothing else does.

Why the bounds are enough:

- *Match.* One hand from an arbitrary position is one application of
  `game_update`; the nine positions were chosen so that each branch of it and each
  condition of the end of a match is taken, with and without sticks on the table
  (`MCMatch` says which is for what). The proofs cover every position and any
  number of hands.
- *RoundLoop.* `LiveTiles` stands for 70. Five draws let each player discard and
  one come round again, with calls between, so the first round ends in each of the
  three ways; nine let all four players declare riichi, a draw go by and a kan come after it. A kan of the
  dead wall depends on the number of kans only, so five kans show what any number up to five does. The
  dealer's seat only renames seats. All safety properties are proved for every wall and
  every number of calls; `HandEnds` alone rests on the bounds.
- *Exchange.* Two hands are needed for a queue to be replaced while a message is
  on its way, two questions for a stale answer to meet a newer one, a lost connection for a quit
  to be on the way when the player comes back. The safety properties are proved for any numbers. For
  the waits one hand is enough: a wait knows its queue only, and a connection that is lost and
  taken up again replaces that too.
- *Room.* Two bots leave two seats for three names, so that one is too many, one can
  be taken by somebody else, and one player can come back while his old connection
  is still read; three connections at a time are one for each name or three for one.
- *TileRules.* A call, the discard after it and one more draw are the longest way from
  one computation of the waits to the next but for a second kan. Four turns, and six
  kinds with three turns, hold the same invariants and take longer than a run should.
  One set and a pair is the least hand whose waits a kan, a pon and a chi all change.
- *Audio.* A ring that the block does not divide is read and written across its end at
  every place, in both directions; blocks of two and of three change the length from one to the next.
  `SampleStream` bounds what is on its way, so a longer ring adds only room.
- *Web.* With two attempts a retry and a final failure both happen; two engines are
  enough to share what one of them takes, and two downloads of the pack to share an entry. The code's
  four attempts only repeat the second.

### What the violations show

- *`WaitsEnd`* with a hasty player ([server.py:1411](../src/online_game/server.py)). The
  client asks for Enter as soon as the hand ends. The server sleeps two
  seconds before it calls `allow_put`. An Enter in between finds the permission
  used by the last answer and is dropped; the client has sent its one and the
  server waits for ever.
- *`RinshanIsWin`* ([server.py:729](../src/online_game/server.py)). `check_draw` looks the drawn tile
  up in `player.machi`, which a discard, riichi or the deal computed. A kan changes the hand
  before its replacement tile is drawn. When the tile is among the old waits and
  does not complete the new hand, `is_agari` answers `None`, which `check_draw` takes for
  thirteen orphans and offers as a win of 8000; when it completes the new hand but
  was no wait of the old one, the win is not offered.
- *`FailureIsShown`* (`MahJong.js:717`). `doInit` makes a promise it never refuses:
  when all attempts on the wasm fail, `startGame` stays pending, and the page, which has a
  notice for that, goes on showing its progress bar.

### Further configurations

These are kept beside the runs; each asks one more question of the same modules.

- *`NoFifthKan`* (`RoundFifthKan.cfg`, [server.py:1255](../src/online_game/server.py)). README.md lists four kans of
  different players among the draws. The test stands after the branch for
  "nobody claims the discard"; a discard that is called skips it by `continue`, and
  a kan on a draw never meets it, so a fifth kan can be made first.
- *`UraHidden`* (`RoundUra.cfg`, [game.py:107](../src/mahjong/game.py)). `new_dora` counts the kan before
  its replacement tile is drawn, so the place of the first kan's ura indicator
  is that of the first dora indicator, which is face up since the deal.
- *`NagashiIsMangan`* (`MatchNagashi.cfg`, [server.py:621](../src/online_game/server.py)). A dealer's nagashi
  mangan gains him 120 and costs the others 20 each; 60 come from nowhere.
- *`ReconnectWorks`* (`ExchangeRejoin.cfg`, [server.py:1448](../src/online_game/server.py)). The game thread sends
  to a connection that has broken before the reader thread noticed; the send
  raises, the thread ends, `game_start` stays `True`. The player may come back
  but nobody plays any more.
- *`DecisionStepEnds`* (`ExchangeQuit.cfg`, [server.py:330](../src/online_game/server.py)). The game thread can wait
  for ever for a player who is gone. His last answer has used up the permission of his queue. His
  connection is lost; the reader thread (1350) puts `quit` on the queue, which `put` refuses for want of a
  permission (44). Before the reader comes to `player_disconnect` (280) the game thread asks the next
  question and passes `is_human` (330), which still finds a socket. Then it gives the permission and
  takes from the queue, where nothing will ever come: `get` has no timeout, and all four players
  wait. It comes to the same when the player returns between `is_human` and `get`: the question went to the
  connection he lost, or the thread waits at the queue he had then.
- *`MatchCloses`* (`ExchangeClose.cfg`, [server.py:1433](../src/online_game/server.py)). After the ranking the
  server waits for one more Enter of every human; `client.py` sends none. `Room` takes
  either way.
- *`ReconnectSeats`* (`RoomReturn.cfg`, [server.py:229](../src/online_game/server.py)). The server's
  README says that a disconnected player gets back in with his name. Until the server has
  noticed the loss of his connection he is not `'Disconnected'`, and who
  comes back before that becomes a spectator of his own match, or is sent away.
- *`BlocksWhole`* (`AudioSpoilt.cfg`, `GodotAudioWorklet.receive` in `MahJong.js:1`). Without threads the
  second piece of a block is `recv_buf.subarray(high, to_write)` with `to_write` already lessened by
  `high`, so samples are left out when a block ends past the end of the buffer, and the
  engine is told of all of them. In a buffer of five that holds 1, 2, 3 the block 4, 5, 6 is
  captured as 4, 5, 1. Blocks of one length that divides the buffer never get there; a
  microphone with another number of channels, which worklet.js:160 provides for, changes the length.
- *`PackIsWhole`* (`WebTruncated.cfg`, `MahJong.js:149`). The page and another engine both download the pack.
  The second attempt makes a new entry for the file before the first response comes, so both
  responses are counted on it. The first to end sets `done`; the other's stream is
  closed at its next piece (115) and what it has, a part, is kept (222) over the whole one.

Two more facts of the room follow from its lack of a lock and are allowed by its properties, because
the code has them: a player who leaves between the count (1485) and the mark of the game
thread (1387) makes a match that finds three and breaks off; a player welcomed between the two halves of
`reset` (162-171) makes the list longer than four when the bots are put back, and no match is
called from then on.

### Fairness

- `RoundLoop.FairSpec`: weak fairness of the whole step of the game thread. The
  thread never blocks inside a hand but on a player's answer, and what an answer
  costs is `Exchange`'s subject. Nothing is assumed about which choice is made, so
  `HandEnds` says that no series of choices keeps a hand going for ever.
- `Exchange.FairSpec`: weak fairness of the game thread and of the reader
  thread (two OS threads that only block where the model blocks), of `Receive`
  and `Reply` (the player reads and, in the end, answers; `client.py` answers
  every question) and of `RejoinQueue` (the connection thread does not stop
  between two assignments). Nothing makes a player leave or return, or send
  anything extra. Weak fairness is enough.
- `AudioWorklet.FairSpec`: weak fairness of the processor, which the browser calls for
  every block, of the engine's audio thread and of the page's two handlers; strong fairness of
  `Messages`, because a message can only be taken between two blocks and is, by the
  browser's event loop, however often a block comes in between.
- `WebEngine.FairSpec`: weak fairness of the page's script, of frames, of every download and
  build and of each engine's callbacks: the browser answers, well or badly. Nothing
  makes it succeed.
- `Match`, `Room` and `TileRules` state no liveness. `Room` could only say that a match is called when four
  are there, and even that fails after a match that broke off.

Deadlock is checked in `Match`, `AudioWorklet` and `RoundLoop` (a finished hand stutters in
`Done`, so a deadlock would be a hand stuck before its end); it is off in `Exchange`,
where a wait for a player who never answers is a legal end, in `Room`, where a ranking that waits for a player
nobody reads for really stops, in `TileRules`, where a hand may be
over, and in `WebEngine`, where all downloads and starts may be done.

## 4. What is proved

All of it is for any values of the constants that meet the modules' named
assumptions.

Of each module one inductive invariant is shown to hold at the start and to be kept by
every action (a lemma for each action, a step for each part it can disturb), and the
properties follow from it.

**MatchProofs.** From `BaseAssumption` (base values are positive),
`MinScoreAssumption` (the threshold is at most the starting 25000),
`StartAssumption` (start positions are playable) and the bounds.
- `TypeCorrect`: `[]TypeOK`. `WindTableKept`: `[]WindInRange`. `MatchSafe`:
  `[]SolventToPlay`. `EndsInTime`: `EndJustified`, that a settlement ends the match exactly when
  `MatchDecided`.
  The inductive invariant `IInv` adds `HandFits`: the dealer a hand copied is
  still the one the round names, without which the rule for a dealer who repeats in an
  extra round would speak of another seat after the settlement,
  and no point is gone before the first hand.
- `PredictionHolds`: `[]PredictionExact`. What `agari_context` projects is what
  `game_update` pays, the ceilings of a self draw included, as long as no stick was
  put down in the hand.
- `Conservation`: `PointsConserved`, from `DeltaSum` (each kind of payment sums to
  zero, the dealer's nagashi mangan to 60) and a case split on who gets the sticks.

**RoundLoopProofs.** From `OyaAssumption`, `WallAssumption` (at least one live
tile), `WindAssumption`, `LoopBounds` (at most eight kans; then the places
`new_dora` reads are in the dead wall, for nine they would not be).
- `TypeCorrect`: `[]TypeOK`.
- `TileAccounts`: `[]TilesAccounted`, which is `HandSizes`, `TilesConserved` and `DeadWallKept`.
- `OneIndicatorPerKan`: `[]IndicatorsMatchKans`.

  The four accounts need each other: a draw is only safe while tiles are left
  (`DeadWallKept`), a call only leaves a hand with tiles to discard because
  melds and tiles add up (`HandSizes`), a kan only finds its indicator in the wall
  because there were no more kans than indicators. `IInv` adds `Ready`, what
  the loop has established when it comes to a place: before a draw or with a kan announced
  there is a live tile, an announced kan has its triplet, an answered discard is in the
  river. One lemma carries each kind of step (`DrawKeeps`, `KanKeeps`,
  `OpenMeldKeeps`, `NoTileMoves`), and the actions are instances of them. What seats and
  wall exchange is counted by `Gain`, so that conservation is one sum
  (`KeptByStep`).

**RoundMarksProofs.** From the same assumptions, about what the loop remembers.
- `MarksTrue`: `[]MarksExact` (first round, nagashi, ippatsu, riichi stays closed).
  `RiichiTrue`: `[]RiichiExact`. `AbortsTaken`: `[]AbortsHonoured` (four winds and four
  riichi are not passed over). `DoubleRiichi`: `DoubleRiichiExact`. `IppatsuEnds`:
  `IppatsuEndsWithCalls`.
  `first_round` is cleared in three places, so that it says what it should rests on the order of
  discards. The inductive invariant `MarksInv` adds `InTurn` (without melds the
  seats discard in turn, so everybody's count follows from North's), `WindsSeen` (four equal
  winds are on the table only at North's first discard), `Remembered`, `Declared` (a
  declaration is settled with its discard) and `NoneFresh` (an announced kan has
  ended ippatsu).
- `IndicatorsKept`: `[]IndicatorsInWall`: up to four kans no indicator is ever drawn, nor is one
  tile shown twice. `WallInv` says where every tile and every indicator is, counted from the
  dead end that each kan shortens.

**ExchangeProofs.** From `HastyAssumption` and `ExchangeBounds`.
- `TypeCorrect`: `[]TypeOK`; a thread that holds a queue holds one that exists.
- `PermissionsBalance`: `[](OnePermission /\ QueueBound)`: permissions, messages in
  the reader's hands and messages in a queue (`Tokens`) balance, so a queue never
  holds more than two messages, whatever the player sends.
- `AnswersBelong`: `[]AnswersMatch`. No step of either thread is ruled out: the statement itself ends with
  the first unasked message and with the first time the game thread meets a
  reconnection between its two assignments, and section 5 shows that it is not true afterwards. `LineInv`
  says where the one message that is due may be, from the player's screen to the queue, that nothing is
  before it, and that a quit stands for a connection that really ended.

**RoomProofs.** From `RoomBounds` and `NameAssumption` (nobody is called like a free connection or an
observer); every interleaving of the model's steps is allowed.
- `FourAtMost`: `[]TypeOK`: from the count of four to `reset` the room holds no more than four. In
  `reset` and after it it may, which `TypeOK` says.
- `NoGhosts`: `[]SeatsAreRead`, with the exceptions of section 3.
- `RoomIsLobby`: `LobbyKept`, the refinement: every step of `Room` is a step of `Lobby` or none.
  `RoomInv` adds `StartExact` (`game_start` goes with the game thread or with one that has died) and
  `OneSeatEach` (before a match nobody sits twice), without which `Client.__eq__` would let a
  reader free somebody else's seat.

**TileRulesProofs.** From `KindsAssumption` and `RulesBounds`: any kinds, hands of any number of
sets. What makes a hand complete (`IsAgari`) is used as it stands, not computed.
- `HandsMakeUp`: `[]TypeOK`. `WaitsTrue`: `[]WaitsExact`. `FuritenTrue`: `[]FuritenExact`. `CallsCanDiscard`:
  `[]CallsLeaveDiscard`.
  `RulesInv` says of which hand the cached waits are at each place (`WaitsInv`: of `bak`, of the hand
  without the drawn tile, or after riichi of any hand before, which is why a kan in riichi must
  keep them), and what each furiten flag stands for, before riichi and after (`FuritenInv`). The melds add up with the
  hand (`Held`), by `Size`, which counts tiles as the cardinality of a set.

**AudioWorkletProofs.** From `ModeAssumption` and `SizeAssumption`: rings and blocks of any length, with
threads and without.
- `AudioTypes`: `[]TypeOK`. `NoCellsShared`: `[]NoRace`. `ChunksHaveRoom`: `[]ChunksFit`.
  `AudioInv` says that what a side saw of a count is still enough when it acts on it (`Seen`), that the
  positions are as far apart as there are samples (`Positions`), and what the messages are in
  each phase (`Mail`).
- `SoundInOrder`: `HeardInOrder`, the refinement of the output by `SampleStream`. Without
  threads too the positions stay apart (`StreamInv`). A read takes the oldest samples of what a ring
  holds and leaves the rest (`ReadTakes`), a write puts its own behind them
  (`WriteAppends`), and a message carries over to the ring what it leaves of the mail
  (`FlattenHead`, `MailHeads`).
- `CaptureInOrder`: `CapturedInOrder`, the refinement of the input, for blocks of any lengths. A
  block that `receive` copies in one piece is taken as it was made; one it copies in two
  is a `Spoil` of the stream, which takes it off and claims nothing of what was delivered.
  The joined messages are `FlattenSeq`, a recursive function; what it does with an appended or a
  first message is proved by induction over the lengths, as the least element of a set of numbers
  (`NumbersByInduction`).

**WebEngineProofs.** From `FileAssumption` (finitely many files, at least one attempt) and
`EngineAssumption`; any number of engines.
- `WebTypes`: `[]TypeOK`. `WholeModules`: `[]EnginesShare`. `ProgressGrows`: `ReportedGrows`.
  `PromisesShared` says that `initPromise` stands for the last module asked for, and that only
  that one may be under way; `PacksWait` that a start which asked for its own module still holds
  `initPromise`, so nobody else's main can empty `preloadedFiles`, and that a pack which has come in
  waits there; `MainsHavePack` that it was copied; `PartsShared` that a pack in part, held or copied, comes from two
  downloads with one entry; `JobsWell` what a download may be, given its entry; `Reported` that no
  more was reported than has come in. `RoomLeft` keeps the model's bound on calls of `doInit` from
  stopping a start half way.

Only model-checked: the liveness properties (`HandEnds`, `WaitsEnd`, `AskedIsServed`,
`KeepsPlaying`, `StartSettles`, `LoopEnds`), which the prover cannot do under
fairness, and the violations, each of which is one behaviour. All invariants, action
properties and refinements of the passing runs are proved.

## 5. Known limits and open questions

- *A reconnection between two assignments.* `player_join` sets the socket and then
  the queue (server.py:232-233), and the game thread may run between the two (`overtaken`). From then on
  `AnswersMatch` may fail: the connection is
  lost, the quit lies on the queue, the reader thread marks the player
  disconnected; `player_join` sets the new socket; the game thread now asks
  question 1 and takes the old quit for its answer, lets the AI decide, and
  asks question 2; the player's answer to question 1 is then used for question 2.
  It needs a switch of threads between two adjacent assignments while a
  question falls due; it is listed under the hazards.
- *Two-byte reads.* `recv_socket` on a non-blocking socket raises when a line
  arrives in two parts; the reader treats that as a quit. In the model that is a
  `Drop`.
- *Prediction.* `agari_context` projects with the environment's counters; the
  hand's differ by the sticks bought in it. With `-m 0` it does not predict that a
  player below zero ends the match. `PredictionExact` says where it is right. Its
  doc comment (server.py:436) does not mention either.
- *The 30000 line.* `Server/README.md:511` lists `East/South match reaches end and
  top score is still below 30000' as an end of the match. `game_update` does the
  opposite (server.py:657): below 30000 it plays on, up to round eleven, and ends
  when somebody has reached it. `MatchDecided` states the code's
  rule, which is the usual one.
- *Sticks at the end.* Only one of the ways a match ends hands the sticks on
  the table to the leader; the others leave them uncounted. The code has no
  statement about it, so no property does either.
- *The tile after the nine.* A run 7-8-9 called by its 7 bans, besides the 7, the kind
  number after the 9: the first of the next suit, or East (server.py:1214 tests for
  `% 9 != 7` where the run begins at 6). `CallsLeaveDiscard` excepts that kind. `check_chi` looks at
  the same wrong neighbour when it decides whether a discard would be left, so it is
  too strict there and never too lax.
- *Nagashi by tile number.* The test for terminals and honours (server.py:1260-1261) takes
  `discard_tiles`, tiles from 0 to 135, modulo nine as if they were kinds. No module has both
  tile numbers and rivers; `RoundLoop` leaves open which discards qualify.
- *A seat nobody reads for.* `player_join` appends a newcomer before it greets him
  (server.py:263-265); if that send raises, `handle_connection` swallows the exception (1478) and the seat
  has no reader that would free it. `Room` has this (`unread`), and `SeatsAreRead` excepts it.
- *`player_join` and `player_disconnect`* are one step each in `Room`. In the code a match may begin between
  the test of `game_start` (server.py:273) and the removal of the client (275, 280), and then loses a
  place it has dealt.
- *Names.* A player may use the name of a bot, and his leaving then removes the bot;
  names are cut to eight characters and the anonymous get one. `Room` assumes names that are
  apart from the bots' and stay what they are. The list is shuffled when a match begins; `Room` keeps
  its places, since nobody reads their order, and lets a name that sits twice find either. Who an
  observer watches is not followed; that such a lookup may raise is among what `Crash` stands for.
- *`TileRules`* leaves out seven pairs, thirteen orphans, hands of four sets, and which
  open hands have a yaku; the refusals at the end of the wall are in `RoundLoop`.
- *Nagashi mangan.* `RoundLoop` lets every player whose river is whole have it at the end of the wall; the code
  asks besides which tiles he discarded (server.py:1260-1261).
- *Engines and files.* All engines share `preloadedFiles`, and the first `main` takes what waits.
  `PackBeforeMain` therefore speaks of starts that asked for the module themselves: until their main
  they hold `initPromise`, which no other main can come past. One that joined another
  engine's `init` has no such hold, and with three engines it can run without its pack: an engine's start
  fails late (its main throws) and keeps its module and `initPromise`; a script calls `load`; a third
  engine's `startGame` joins that promise and preloads the pack; the first engine is started again, its main
  takes the pack and clears `initPromise`; the third's `start` then gets a module of its own and
  runs it on an empty file system. Three engines are more than a run can hold, so no
  configuration is kept for it. Of `MahJong.js` the configuration record, the search for a
  canvas, extension libraries and the service worker are not modelled but for the ways in which they
  make a start fail.
- The tiles a caller may not discard next (`banned`) are followed in `TileRules`, not in
  `RoundLoop`.

## 6. Not modelled, and why

Yaku, fu and the agari and machi tables are pure functions over large data: a
reference definition would be as long as they are. The AI is numeric; the models
let it choose anything it is offered. JSON text, logging, training and data sets hold no
protocol. The compiled engine (line 1 of `MahJong.js`, but for its sound driver) is
generated. `MahJong.audio.position.worklet.js` is one counter, and the scripts of the mah-jong
scenes are stubs. The Godot client, the C++ backend, the legacy C++ server and the
terminal client's copy of the table have state and locks worth modelling and are in the
plan.

## 7. Plan

In this order:

1. `ClientMirror`: the copies of the table in `client.py` and `GameState.gd` fed with
   the events of `RoundLoop`; the mirror equals the table when no event is on its
   way (client.py:264 against server.py:1191 for riichi).
2. `Backend`: the threads and locks of `cpp_backend/src/server.hpp` (accept, main,
   game, client, `m_mutex`), `ControlledQueue` with its atomic flag and `force_put`,
   and its `new_dora` and dealer payments against `RoundLoop` and `Match`.
3. `LegacyServer`: `run`, `start_game_thread`, `handle_connections` and
   `handle_client` of `online_game/Server/server.cpp` with `game_mutex`; reconnection
   there (862 against 1413).
4. Abstract specifications: `TileFlow` (tiles move between wall, hands, melds and
   rivers, a hand ends) implemented by `RoundLoop`; `Ask` (one question, one
   answer) implemented by `Exchange`.
5. Proofs: the refinements of 4, from `TileAccounts` and from `LineInv`; what `AnswersMatch` becomes
   with extra messages (every answer used was sent after the last permission); the invariants of 1 and 2.
