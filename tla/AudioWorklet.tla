---------------------------- MODULE AudioWorklet ----------------------------
(***************************************************************************)
(* The sound path of the exported web client: GodotProcessor of            *)
(* MahJong.audio.worklet.js, which the browser's audio thread calls once   *)
(* for every block of samples, and the engine's side of it in MahJong.js.  *)
(* With threads the two share two ring buffers and their fill counts, and  *)
(* nothing else orders them.  Without threads the processor owns the       *)
(* output ring and the engine may send only what the processor says it has *)
(* read.                                                                   *)
(***************************************************************************)
EXTENDS SampleRing, SequencesExt

CONSTANTS
  Modes,      \* the ways the engine may be built: "threads", "nothreads"
  OutSize,    \* length of the output buffer
  InSize,     \* length of the input buffer
  OutChunk,   \* samples of one block of output: the node's channels are fixed
  InChunks,   \* samples a block of input may have: 0 is no input
  Ids,        \* samples are numbered round from 1 to Ids
  MaxFlight   \* bound: input messages on their way

ASSUME ModeAssumption == Modes \subseteq {"threads", "nothreads"}
ASSUME SizeAssumption ==
  /\ OutSize \in Nat \ {0} /\ InSize \in Nat \ {0} /\ Ids \in Nat \ {0}
  /\ OutChunk \in 1..OutSize /\ InChunks \subseteq 0..InSize /\ MaxFlight \in Nat

VARIABLES
  mode,
  output,     \* the output RingBuffer; with threads wpos is the engine's
  input,      \* the input RingBuffer; rpos is the engine's
  phase,      \* the processor: "created", "started" (output is set) or "stopped"
  step,       \* where process stands
  block,      \* samples of input of this call of process
  engine,     \* the engine's audio thread, with threads
  main,       \* GodotAudioWorklet: "idle", "open" or "closed"
  toWorklet,  \* messages to the processor
  reads,      \* `read' messages to the engine, all alike
  inputs,     \* `input' messages to the engine
  fresh,      \* the next sample each end makes up
  heard,      \* what process put out last
  captured    \* what the engine took in last

vars == <<mode, output, input, phase, step, block, engine, main, toWorklet, reads,
          inputs, fresh, heard, captured>>

Silence == 0
Sample == 0..Ids
threads == mode = "threads"

Made(from, n) == [k \in 1..n |-> ((from + k - 1) % Ids) + 1]
MadeAfter(from, n) == (from + n) % Ids

Chunk(samples) == [cmd |-> "chunk", data |-> samples]
Start == [cmd |-> "start", data |-> <<>>]
Stop == [cmd |-> "stop", data |-> <<>>]

\* Cells the two threads are about to copy.
OutRead == Range(ReadCells(OutSize, output.rpos, OutChunk))
OutWrite == Range(WriteCells(OutSize, output.wpos, engine.write))
InRead == Range(ReadCells(InSize, input.rpos, engine.read))
InWrite == Range(WriteCells(InSize, input.wpos, block))

Waiting == [at |-> "wait", read |-> 0, write |-> 0]

Init ==
  /\ mode \in Modes
  /\ output = NewRing(OutSize, Silence, 0) /\ input = NewRing(InSize, Silence, 0)
  /\ phase = "created" /\ step = "idle" /\ block = 0
  /\ engine = Waiting /\ main = "idle"
  /\ toWorklet = <<>> /\ reads = 0 /\ inputs = <<>>
  /\ fresh = [out |-> 0, in |-> 0] /\ heard = <<>> /\ captured = <<>>

-----------------------------------------------------------------------------
(* process().                                                              *)

\* A block of input: without threads it is posted at once.
BeginBlock(chunk) ==
  /\ phase = "started" /\ step = "idle"
  /\ ~threads => Len(inputs) < MaxFlight
  /\ block' = chunk
  /\ IF chunk = 0 \/ threads
     THEN UNCHANGED <<inputs, fresh>>
     ELSE /\ inputs' = Append(inputs, Made(fresh.in, chunk))
          /\ fresh' = [fresh EXCEPT !.in = MadeAfter(@, chunk)]
  /\ step' = IF chunk # 0 /\ threads THEN "in_look" ELSE "out_look"
  /\ UNCHANGED <<mode, output, input, phase, engine, main, toWorklet, reads, heard, captured>>

\* As a fault: the block is written whether there is room or not.
WriteAlways ==
  /\ step = "in_look"
  /\ step' = "in_write"
  /\ UNCHANGED <<mode, output, input, phase, block, engine, main, toWorklet, reads,
                 inputs, fresh, heard, captured>>

\* A block that finds no room is skipped.
LookForSpace ==
  /\ step = "in_look"
  /\ step' = IF SpaceLeft(input, InSize) >= block THEN "in_write" ELSE "out_look"
  /\ UNCHANGED <<mode, output, input, phase, block, engine, main, toWorklet, reads,
                 inputs, fresh, heard, captured>>

WriteInput ==
  /\ step = "in_write"
  /\ input' = [input EXCEPT
       !.buffer = Fill(@, WriteCells(InSize, input.wpos, block), Made(fresh.in, block)),
       !.wpos = WritePos(InSize, @, block)]
  /\ fresh' = [fresh EXCEPT !.in = MadeAfter(@, block)]
  /\ step' = "in_add"
  /\ UNCHANGED <<mode, output, phase, block, engine, main, toWorklet, reads, inputs,
                 heard, captured>>

AddInput ==
  /\ step = "in_add"
  /\ input' = [input EXCEPT !.avail = @ + block]
  /\ step' = "out_look"
  /\ UNCHANGED <<mode, output, phase, block, engine, main, toWorklet, reads, inputs,
                 fresh, heard, captured>>

\* Too little to play leaves a gap in the sound.
LookForData ==
  /\ step = "out_look"
  /\ step' = IF DataLeft(output) >= OutChunk THEN "out_read" ELSE "idle"
  /\ UNCHANGED <<mode, output, input, phase, block, engine, main, toWorklet, reads,
                 inputs, fresh, heard, captured>>

ReadOutput ==
  /\ step = "out_read"
  /\ heard' = Pick(output.buffer, ReadCells(OutSize, output.rpos, OutChunk))
  /\ output' = [output EXCEPT !.rpos = ReadPos(OutSize, @, OutChunk)]
  /\ step' = "out_add"
  /\ UNCHANGED <<mode, input, phase, block, engine, main, toWorklet, reads, inputs,
                 fresh, captured>>

\* The read is counted and, without threads, reported.
AddOutput ==
  /\ step = "out_add"
  /\ output' = [output EXCEPT !.avail = @ - OutChunk]
  /\ reads' = IF threads THEN reads ELSE reads + 1
  /\ step' = "idle"
  /\ UNCHANGED <<mode, input, phase, block, engine, main, toWorklet, inputs, fresh,
                 heard, captured>>

-----------------------------------------------------------------------------
(* parse_message(): one message between two calls of process.              *)

Receive(cmd) ==
  /\ step = "idle" /\ toWorklet # <<>> /\ Head(toWorklet).cmd = cmd
  /\ toWorklet' = Tail(toWorklet)
  /\ UNCHANGED <<mode, input, step, block, engine, main, reads, inputs, fresh, heard, captured>>

\* As a fault: the processor's own ring begins empty.
StartEmpty ==
  /\ Receive("start")
  /\ phase' = "started"
  /\ output' = IF threads THEN output ELSE NewRing(OutSize, Silence, 0)

\* start takes the shared buffers as they are; start_nothreads makes a ring of the
\* copy it is sent and counts it as full.
ReceiveStart ==
  /\ Receive("start")
  /\ phase' = "started"
  /\ output' = IF threads THEN output ELSE NewRing(OutSize, Silence, OutSize)

\* write() does not look for space.
ReceiveChunk ==
  /\ Receive("chunk")
  /\ LET data == Head(toWorklet).data
     IN  output' = [output EXCEPT
           !.buffer = Fill(@, WriteCells(OutSize, output.wpos, Len(data)), data),
           !.wpos = WritePos(OutSize, @, Len(data)),
           !.avail = @ + Len(data)]
  /\ UNCHANGED phase

ReceiveStop ==
  /\ Receive("stop")
  /\ phase' = "stopped" /\ UNCHANGED output

-----------------------------------------------------------------------------
(* The engine's audio thread, with threads: compiled, it looks, copies and *)
(* adds to the counts as the processor does.                               *)

EngineLook ==
  /\ threads /\ engine.at = "wait" /\ main # "idle"
  /\ engine' = [at |-> "capture", read |-> DataLeft(input), write |-> SpaceLeft(output, OutSize)]
  /\ UNCHANGED <<mode, output, input, phase, step, block, main, toWorklet, reads, inputs,
                 fresh, heard, captured>>

EngineCapture ==
  /\ engine.at = "capture"
  /\ IF engine.read = 0
     THEN UNCHANGED <<input, captured>>
     ELSE /\ captured' = Pick(input.buffer, ReadCells(InSize, input.rpos, engine.read))
          /\ input' = [input EXCEPT !.rpos = ReadPos(InSize, @, engine.read)]
  /\ engine' = [engine EXCEPT !.at = "in_add"]
  /\ UNCHANGED <<mode, output, phase, step, block, main, toWorklet, reads, inputs, fresh, heard>>

EngineCaptured ==
  /\ engine.at = "in_add"
  /\ input' = [input EXCEPT !.avail = @ - engine.read]
  /\ engine' = [engine EXCEPT !.at = "fill", !.read = 0]
  /\ UNCHANGED <<mode, output, phase, step, block, main, toWorklet, reads, inputs, fresh,
                 heard, captured>>

EngineFill ==
  /\ engine.at = "fill"
  /\ output' = [output EXCEPT
       !.buffer = Fill(@, WriteCells(OutSize, output.wpos, engine.write), Made(fresh.out, engine.write)),
       !.wpos = WritePos(OutSize, @, engine.write)]
  /\ fresh' = [fresh EXCEPT !.out = MadeAfter(@, engine.write)]
  /\ engine' = [engine EXCEPT !.at = "out_add"]
  /\ UNCHANGED <<mode, input, phase, step, block, main, toWorklet, reads, inputs, heard, captured>>

EngineFilled ==
  /\ engine.at = "out_add"
  /\ output' = [output EXCEPT !.avail = @ + engine.write]
  /\ engine' = Waiting
  /\ UNCHANGED <<mode, input, phase, step, block, main, toWorklet, reads, inputs, fresh,
                 heard, captured>>

-----------------------------------------------------------------------------
(* GodotAudioWorklet, on the page's main thread.                           *)

Open ==
  /\ main = "idle"
  /\ main' = "open" /\ toWorklet' = Append(toWorklet, Start)
  /\ UNCHANGED <<mode, output, input, phase, step, block, engine, reads, inputs, fresh,
                 heard, captured>>

\* As a fault: the report of a read is answered and kept.
SendChunkAgain ==
  /\ main = "open" /\ reads > 0 /\ Len(toWorklet) < OutSize
  /\ toWorklet' = Append(toWorklet, Chunk(Made(fresh.out, OutChunk)))
  /\ fresh' = [fresh EXCEPT !.out = MadeAfter(@, OutChunk)]
  /\ UNCHANGED <<mode, output, input, phase, step, block, engine, main, reads, inputs,
                 heard, captured>>

\* As a fault: reports are answered after close() as well.
SendChunkLate ==
  /\ main # "idle" /\ reads > 0
  /\ reads' = reads - 1
  /\ toWorklet' = Append(toWorklet, Chunk(Made(fresh.out, OutChunk)))
  /\ fresh' = [fresh EXCEPT !.out = MadeAfter(@, OutChunk)]
  /\ UNCHANGED <<mode, output, input, phase, step, block, engine, main, inputs, heard, captured>>

\* consumed() and send(): as many new samples as were read.
SendChunk ==
  /\ main = "open" /\ reads > 0
  /\ reads' = reads - 1
  /\ toWorklet' = Append(toWorklet, Chunk(Made(fresh.out, OutChunk)))
  /\ fresh' = [fresh EXCEPT !.out = MadeAfter(@, OutChunk)]
  /\ UNCHANGED <<mode, output, input, phase, step, block, engine, main, inputs, heard, captured>>

\* receive(): the second piece is recv_buf.subarray(high, to_write) with to_write
\* already lessened by high, and the callback is told of all of it.
TakeInput ==
  /\ main = "open" /\ inputs # <<>>
  /\ inputs' = Tail(inputs)
  /\ LET buf == Head(inputs)
         n == Len(buf)
         wraps == input.rpos + n >= InSize
         high == IF wraps THEN InSize - input.rpos ELSE 0
         from == IF wraps THEN 0 ELSE input.rpos
         low == SubSeq(buf, high + 1, n - high)
         first == Fill(input.buffer, WriteCells(InSize, input.rpos, high), SubSeq(buf, 1, high))
         all == Fill(first, WriteCells(InSize, from, Len(low)), low)
     IN  /\ input' = [input EXCEPT !.buffer = all, !.rpos = from + n - high]
         /\ captured' = Contents(all, InSize, input.rpos, n)
  /\ UNCHANGED <<mode, output, phase, step, block, engine, main, toWorklet, reads, fresh, heard>>

\* close(): what the processor still posts finds no handler.
Close ==
  /\ main = "open"
  /\ main' = "closed" /\ toWorklet' = Append(toWorklet, Stop)
  /\ UNCHANGED <<mode, output, input, phase, step, block, engine, reads, inputs, fresh,
                 heard, captured>>

Process ==
  \/ \E chunk \in InChunks : BeginBlock(chunk)
  \/ LookForSpace \/ WriteInput \/ AddInput
  \/ LookForData \/ ReadOutput \/ AddOutput
Messages == ReceiveStart \/ ReceiveChunk \/ ReceiveStop
Engine == EngineLook \/ EngineCapture \/ EngineCaptured \/ EngineFill \/ EngineFilled

\* A processor that was told to stop is not called again.
Silent == phase = "stopped" /\ UNCHANGED vars

Next == Process \/ Messages \/ Engine \/ Open \/ SendChunk \/ TakeInput \/ Close \/ Silent

Spec == Init /\ [][Next]_vars

\* The browser calls process for every block and, between two calls, again and again
\* delivers a message that waits (strong: process also takes its turn in between); the
\* engine's thread and the page's main thread run.  Nothing makes the page close the path.
FairSpec ==
  /\ Spec
  /\ WF_vars(Process) /\ SF_vars(Messages) /\ WF_vars(Engine)
  /\ WF_vars(SendChunk) /\ WF_vars(TakeInput)

-----------------------------------------------------------------------------
(* Properties.                                                             *)

Ring(size) ==
  [buffer : [0..size - 1 -> Sample], avail : 0..size, rpos : 0..size, wpos : 0..size - 1]

TypeOK ==
  /\ mode \in Modes
  /\ output \in Ring(OutSize) /\ input \in Ring(InSize)
  /\ phase \in {"created", "started", "stopped"}
  /\ step \in {"idle", "in_look", "in_write", "in_add", "out_look", "out_read", "out_add"}
  /\ block \in InChunks \cup {0}
  /\ engine \in [at : {"wait", "capture", "in_add", "fill", "out_add"},
                 read : 0..InSize, write : 0..OutSize]
  /\ main \in {"idle", "open", "closed"}
  /\ toWorklet \in Seq([cmd : {"start", "chunk", "stop"}, data : Seq(Sample)])
  /\ reads \in Nat /\ inputs \in Seq(Seq(Sample))
  /\ fresh \in [out : 0..Ids - 1, in : 0..Ids - 1]
  /\ heard \in Seq(Sample) /\ captured \in Seq(Sample)

\* While one thread copies samples of a shared ring the other does not touch the
\* same cells, although neither holds a lock and each has read the fill count some
\* steps ago (RingBuffer.read and write copy first and count afterwards).
NoRace ==
  threads =>
    /\ step = "out_read" /\ engine.at = "fill" => OutRead \cap OutWrite = {}
    /\ step = "in_write" /\ engine.at = "capture" => InWrite \cap InRead = {}

\* Without threads nothing checks for room before a chunk is written.  It fits because
\* the ring, the chunks on their way to it and the reports of reads on their way back
\* always make up one buffer (start_nothreads begins with a full one).
ChunksSent == Cardinality({ k \in DOMAIN toWorklet : toWorklet[k].cmd = "chunk" })
CreditsBalance ==
  ~threads /\ phase # "created" =>
    DataLeft(output) + OutChunk * (ChunksSent + reads) = OutSize

\* A chunk is never the first thing the processor hears, nor does one come after the
\* stop: its output ring would be null.
ChunksFindRing ==
  toWorklet # <<>> /\ Head(toWorklet).cmd = "chunk" => phase = "started"

\* Without threads every chunk finds a ring, and room in it.
ChunksFit == CreditsBalance /\ ChunksFindRing

\* Samples that were copied and are not yet counted.
ReadUncounted == IF step = "out_add" THEN OutChunk ELSE 0
WriteUncounted == IF engine.at = "out_add" THEN engine.write ELSE 0
TakeUncounted == IF engine.at = "in_add" THEN engine.read ELSE 0
PutUncounted == IF step = "in_add" THEN block ELSE 0

\* Without threads, the engine got a block that went past the end of its buffer:
\* receive() drops some of its samples.
Spoilt == ~threads /\ input.rpos \in 1..Len(captured) - 1

\* What the player hears is what the engine made, in order, nothing lost or repeated
\* and at most one buffer late.  The same from the microphone to the engine, but for
\* the blocks that receive() spoils: each is one block, and the next is in order again.
OutQueue ==
  IF phase = "stopped" THEN <<>>
  ELSE Contents(output.buffer, OutSize, output.rpos,
                DataLeft(output) - ReadUncounted + WriteUncounted)
       \o (IF threads THEN <<>>
           ELSE FlattenSeq([k \in DOMAIN toWorklet |-> toWorklet[k].data]))
InQueue ==
  IF threads
  THEN Contents(input.buffer, InSize, input.rpos,
                DataLeft(input) - TakeUncounted + PutUncounted)
  ELSE IF main = "closed" THEN <<>> ELSE FlattenSeq(inputs)

OutStream == INSTANCE SampleStream WITH
  Bound <- OutSize, queue <- OutQueue, taken <- heard, made <- fresh.out,
  spoilt <- FALSE, closed <- phase = "stopped"
InStream == INSTANCE SampleStream WITH
  Bound <- InSize * (MaxFlight + 1), queue <- InQueue, taken <- captured, made <- fresh.in,
  spoilt <- Spoilt, closed <- ~threads /\ main = "closed"
HeardInOrder == OutStream!Spec
CapturedInOrder == InStream!Spec

\* The sound never dries up: as long as the page leaves the path open a block is played
\* again and again, with either way of feeding the processor.
KeepsPlaying == []<>(step = "out_read" \/ main # "open")

\* The browser's blocks may have any length (worklet.js:160): none is spoilt on its way.
BlocksWhole == ~Spoilt
=============================================================================
