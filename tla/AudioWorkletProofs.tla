--------------------------- MODULE AudioWorkletProofs ---------------------------
(* Proofs about module AudioWorklet, for buffers and blocks of any length, any *)
(* number of messages on their way, with threads and without.                  *)
EXTENDS AudioWorklet, FiniteSetTheorems, SequenceTheorems, WellFoundedInduction, TLAPS

-----------------------------------------------------------------------------
(* The inductive invariant.                                                    *)

\* The messages to the processor: a start first and once, then chunks of one block each,
\* and a stop last.  With threads nothing reports reads.
Mail ==
  /\ threads => reads = 0
  /\ phase = "created" =>
       /\ main = "idle" => toWorklet = <<>>
       /\ main = "open" => toWorklet = <<Start>>
       /\ main = "closed" => toWorklet = <<Start, Stop>>
       /\ reads = 0 /\ (~threads => DataLeft(output) = 0)
  /\ phase = "started" =>
       /\ main # "idle"
       /\ main = "closed" => toWorklet # <<>>
       /\ \A k \in 1..Len(toWorklet) :
            \/ main = "closed" /\ k = Len(toWorklet) /\ toWorklet[k] = Stop
            \/ /\ ~(main = "closed" /\ k = Len(toWorklet))
               /\ ~threads /\ toWorklet[k].cmd = "chunk" /\ Len(toWorklet[k].data) = OutChunk
  /\ phase = "stopped" => main = "closed" /\ toWorklet = <<>>

\* What one side saw of a ring still holds when it acts on it.
Seen ==
  /\ step # "idle" => phase = "started"
  /\ step \in {"in_look", "in_write", "in_add"} => threads
  /\ step \in {"in_write", "in_add"} => input.avail + block <= InSize
  /\ step \in {"out_read", "out_add"} => output.avail >= OutChunk
  /\ ~threads => engine = Waiting
  /\ threads =>
       /\ engine.read <= input.avail /\ output.avail + engine.write <= OutSize
       /\ engine.at \in {"wait", "fill", "out_add"} => engine.read = 0
       /\ engine.at = "wait" => engine.write = 0

\* The writing position is as far ahead of the reading one as there are samples.
Ahead(size, rpos, n, wpos) == rpos + n - wpos \in {0, size, size + size}

Positions ==
  threads =>
    /\ Ahead(OutSize, output.rpos, output.avail - ReadUncounted + WriteUncounted, output.wpos)
    /\ Ahead(InSize, input.rpos, input.avail - TakeUncounted + PutUncounted, input.wpos)

\* A block of input, posted without threads only, fits into the engine's buffer.
InputsFit ==
  /\ threads => inputs = <<>>
  /\ \A k \in 1..Len(inputs) : Len(inputs[k]) <= InSize

AudioInv == TypeOK /\ Mail /\ Seen /\ Positions /\ InputsFit /\ CreditsBalance

-----------------------------------------------------------------------------
(* Rings of any size.                                                          *)

\* Cells a read touches are cells of the ring, also when rpos was left at the end.
LEMMA ReadsInside ==
  ASSUME NEW size \in Nat \ {0}, NEW rpos \in 0..size, NEW n \in 0..size
  PROVE  ReadCells(size, rpos, n) \in [1..n -> 0..size - 1]
<1>1. \A k \in 1..n : (IF k <= (IF rpos + n > size THEN size - rpos ELSE 0)
                       THEN rpos + k - 1
                       ELSE (IF rpos + n > size THEN 0 ELSE rpos) + k - 1
                            - (IF rpos + n > size THEN size - rpos ELSE 0)) \in 0..size - 1
  OBVIOUS
<1> QED BY <1>1 DEF ReadCells, ReadWraps

LEMMA WritesInside ==
  ASSUME NEW size \in Nat \ {0}, NEW wpos \in 0..size, NEW n \in 0..size, wpos = size => n = 0
  PROVE  WriteCells(size, wpos, n) \in [1..n -> 0..size - 1]
<1>1. \A k \in 1..n : (IF k <= size - wpos THEN wpos + k - 1 ELSE k - 1 - (size - wpos))
                       \in 0..size - 1
  OBVIOUS
<1> QED BY <1>1 DEF WriteCells

LEMMA PositionsInside ==
  ASSUME NEW size \in Nat \ {0}, NEW n \in 0..size
  PROVE  /\ \A rpos \in 0..size : ReadPos(size, rpos, n) \in 0..size
         /\ \A wpos \in 0..size - 1 : WritePos(size, wpos, n) \in 0..size - 1
  BY DEF ReadPos, ReadWraps, WritePos

\* A copy lands in the ring's cells.
LEMMA FillTypes ==
  ASSUME NEW S, NEW size \in Nat \ {0}, NEW buffer \in [0..size - 1 -> S],
         NEW n \in Nat, NEW cells \in [1..n -> 0..size - 1],
         NEW samples \in Seq(S), n <= Len(samples)
  PROVE  Fill(buffer, cells, samples) \in [0..size - 1 -> S]
<1>1. DOMAIN cells = 1..n /\ DOMAIN buffer = 0..size - 1
  OBVIOUS
<1>2. \A k \in 1..n : samples[k] \in S
  BY ElementOfSeq
<1>3. ASSUME NEW c \in 0..size - 1
      PROVE  (IF \E k \in DOMAIN cells : cells[k] = c
              THEN samples[CHOOSE k \in DOMAIN cells : cells[k] = c]
              ELSE buffer[c]) \in S
  <2>1. CASE \E k \in DOMAIN cells : cells[k] = c
    <3>1. (CHOOSE k \in DOMAIN cells : cells[k] = c) \in DOMAIN cells
      BY <2>1
    <3> QED BY <2>1, <3>1, <1>1, <1>2
  <2>2. CASE ~ \E k \in DOMAIN cells : cells[k] = c
    BY <2>2
  <2> QED BY <2>1, <2>2
<1> QED BY <1>1, <1>3 DEF Fill

LEMMA PickTypes ==
  ASSUME NEW S, NEW size \in Nat \ {0}, NEW buffer \in [0..size - 1 -> S],
         NEW n \in Nat, NEW cells \in [1..n -> 0..size - 1]
  PROVE  Pick(buffer, cells) \in Seq(S)
<1>1. Pick(buffer, cells) = [k \in 1..n |-> buffer[cells[k]]]
  BY DEF Pick
<1>2. \A k \in 1..n : buffer[cells[k]] \in S
  OBVIOUS
<1> QED BY <1>1, <1>2, IsASeq

LEMMA Remainders ==
  ASSUME NEW a \in Nat, NEW n \in Nat \ {0}
  PROVE  a % n \in 0..n - 1
  OBVIOUS

LEMMA ContentsTypes ==
  ASSUME NEW S, NEW size \in Nat \ {0}, NEW buffer \in [0..size - 1 -> S],
         NEW rpos \in Nat, NEW n \in Nat
  PROVE  Contents(buffer, size, rpos, n) \in Seq(S)
<1>1. ASSUME NEW k \in 1..n
      PROVE  buffer[(rpos + k - 1) % size] \in S
  <2>1. rpos + k - 1 \in Nat
    OBVIOUS
  <2> QED BY <2>1, Remainders
<1> QED BY <1>1, IsASeq DEF Contents

\* Copies keep the distance between the positions, whatever wraps.
LEMMA AheadAfterRead ==
  ASSUME NEW size \in Nat \ {0}, NEW rpos \in 0..size, NEW wpos \in 0..size - 1,
         NEW avail \in 0..size, NEW n \in 0..avail, Ahead(size, rpos, avail, wpos)
  PROVE  Ahead(size, ReadPos(size, rpos, n), avail - n, wpos)
  BY DEF Ahead, ReadPos, ReadWraps

LEMMA AheadAfterWrite ==
  ASSUME NEW size \in Nat \ {0}, NEW rpos \in 0..size, NEW wpos \in 0..size - 1,
         NEW avail \in 0..size, NEW n \in 0..size, avail + n <= size,
         Ahead(size, rpos, avail, wpos)
  PROVE  Ahead(size, rpos, avail + n, WritePos(size, wpos, n))
  BY DEF Ahead, WritePos

\* What is read and what is written of a ring with avail samples do not meet, when the
\* reader takes no more than those and the writer has room for his.
LEMMA ApartInRing ==
  ASSUME NEW size \in Nat \ {0}, NEW rpos \in 0..size, NEW wpos \in 0..size - 1,
         NEW avail \in 0..size, NEW n \in 0..avail, NEW m \in 0..size,
         avail + m <= size, Ahead(size, rpos, avail, wpos)
  PROVE  Range(ReadCells(size, rpos, n)) \cap Range(WriteCells(size, wpos, m)) = {}
<1>0. /\ n \in 0..size
      /\ ReadCells(size, rpos, n) \in [1..n -> 0..size - 1]
      /\ WriteCells(size, wpos, m) \in [1..m -> 0..size - 1]
  <2>1. n \in 0..size /\ wpos \in 0..size /\ wpos # size
    OBVIOUS
  <2> QED BY <2>1, ReadsInside, WritesInside
<1> SUFFICES ASSUME NEW i \in 1..n, NEW j \in 1..m,
                    ReadCells(size, rpos, n)[i] = WriteCells(size, wpos, m)[j]
             PROVE  FALSE
  BY <1>0 DEF Range
<1>1. \/ ReadCells(size, rpos, n)[i] = rpos + i - 1
      \/ ReadCells(size, rpos, n)[i] = rpos + i - 1 - size
  BY DEF ReadCells, ReadWraps
<1>2. \/ WriteCells(size, wpos, m)[j] = wpos + j - 1
      \/ WriteCells(size, wpos, m)[j] = wpos + j - 1 - size
  BY DEF WriteCells
<1>3. /\ ReadCells(size, rpos, n)[i] \in 0..size - 1
      /\ WriteCells(size, wpos, m)[j] \in 0..size - 1
  BY <1>0
<1> QED BY <1>1, <1>2, <1>3 DEF Ahead

\* A function that is told by its values at 1 to n.
Listed(f, n) == f = [k \in 1..n |-> f[k]]

LEMMA SameList ==
  ASSUME NEW f, NEW g, NEW n \in Nat, Listed(f, n), Listed(g, n), \A k \in 1..n : f[k] = g[k]
  PROVE  f = g
<1>1. [k \in 1..n |-> f[k]] = [k \in 1..n |-> g[k]]
  OBVIOUS
<1> QED BY <1>1 DEF Listed

\* Cells are counted round at most once.
Around(size, a) == IF a < size THEN a ELSE a - size

LEMMA RoundOnce ==
  ASSUME NEW size \in Nat \ {0}, NEW a \in 0..size + size - 1
  PROVE  a % size = Around(size, a) /\ Around(size, a) \in 0..size - 1
<1>1. CASE a < size
  BY <1>1 DEF Around
<1>2. CASE a >= size
  BY <1>2 DEF Around
<1> QED BY <1>1, <1>2

\* The k-th cell from a position on.
CellAt(size, pos, k) == Around(size, pos + k - 1)

\* The k-th of n samples is in the k-th cell.
InCells(list, buffer, size, pos, n) == \A k \in 1..n : list[k] = buffer[CellAt(size, pos, k)]

LEMMA ContentsAround ==
  ASSUME NEW buffer, NEW size \in Nat \ {0}, NEW rpos \in 0..size, NEW n \in 0..size
  PROVE  /\ Listed(Contents(buffer, size, rpos, n), n)
         /\ InCells(Contents(buffer, size, rpos, n), buffer, size, rpos, n)
         /\ Len(Contents(buffer, size, rpos, n)) = n
<1>1. ASSUME NEW k \in 1..n
      PROVE  (rpos + k - 1) % size = CellAt(size, rpos, k)
  <2>1. rpos + k - 1 \in 0..size + size - 1
    OBVIOUS
  <2> QED BY <2>1, RoundOnce DEF CellAt
<1>2. InCells(Contents(buffer, size, rpos, n), buffer, size, rpos, n)
  BY <1>1 DEF Contents, InCells
<1>3. Listed(Contents(buffer, size, rpos, n), n) /\ Len(Contents(buffer, size, rpos, n)) = n
  BY DEF Listed, Contents
<1> QED BY <1>2, <1>3

LEMMA ReadsAround ==
  ASSUME NEW size \in Nat \ {0}, NEW rpos \in 0..size, NEW n \in 0..size
  PROVE  /\ DOMAIN ReadCells(size, rpos, n) = 1..n
         /\ \A k \in 1..n : ReadCells(size, rpos, n)[k] = CellAt(size, rpos, k)
<1>1. \A k \in 1..n : (IF k <= (IF rpos + n > size THEN size - rpos ELSE 0)
                       THEN rpos + k - 1
                       ELSE (IF rpos + n > size THEN 0 ELSE rpos) + k - 1
                            - (IF rpos + n > size THEN size - rpos ELSE 0)) = CellAt(size, rpos, k)
  BY DEF CellAt, Around
<1> QED BY <1>1 DEF ReadCells, ReadWraps

LEMMA WritesAround ==
  ASSUME NEW size \in Nat \ {0}, NEW wpos \in 0..size - 1, NEW n \in 0..size
  PROVE  /\ DOMAIN WriteCells(size, wpos, n) = 1..n
         /\ \A k \in 1..n : WriteCells(size, wpos, n)[k] = CellAt(size, wpos, k)
<1>1. \A k \in 1..n : (IF k <= size - wpos THEN wpos + k - 1 ELSE k - 1 - (size - wpos))
                       = CellAt(size, wpos, k)
  BY DEF CellAt, Around
<1> QED BY <1>1 DEF WriteCells

\* A read takes the oldest samples and leaves the others, in order.
ReadsOldest(buffer, size, rpos, avail, n) ==
  /\ Len(Contents(buffer, size, rpos, avail)) = avail
  /\ Pick(buffer, ReadCells(size, rpos, n)) = SubSeq(Contents(buffer, size, rpos, avail), 1, n)
  /\ Contents(buffer, size, ReadPos(size, rpos, n), avail - n)
       = SubSeq(Contents(buffer, size, rpos, avail), n + 1, avail)

LEMMA ReadTakes ==
  ASSUME NEW S, NEW size \in Nat \ {0}, NEW buffer \in [0..size - 1 -> S], NEW rpos \in 0..size,
         NEW avail \in 0..size, NEW n \in 0..avail
  PROVE  ReadsOldest(buffer, size, rpos, avail, n)
<1> DEFINE C == Contents(buffer, size, rpos, avail)
<1>0. n \in 0..size /\ n \in Nat /\ avail \in Nat /\ rpos \in Nat /\ avail - n \in 0..size /\ avail - n \in Nat
  OBVIOUS
<1>1. /\ Listed(C, avail) /\ Len(C) = avail
      /\ \A k \in 1..avail : C[k] = buffer[CellAt(size, rpos, k)]
  <2>1. Listed(C, avail) /\ Len(C) = avail /\ InCells(C, buffer, size, rpos, avail)
    BY ContentsAround
  <2> QED BY <2>1 DEF InCells
<1>2. C \in Seq(S) /\ Len(C) = avail /\ \A k \in 1..avail : C[k] \in S
  <2>1. C \in Seq(S)
    BY <1>0, ContentsTypes
  <2> QED BY <1>1, <2>1, ElementOfSeq
<1>3. Pick(buffer, ReadCells(size, rpos, n)) = [k \in 1..n |-> buffer[CellAt(size, rpos, k)]]
  BY <1>0, ReadsAround DEF Pick
<1>4. Pick(buffer, ReadCells(size, rpos, n)) = SubSeq(C, 1, n)
  <2>1. \A k \in 1..n : k \in 1..avail /\ C[k] \in S
    BY <1>2
  <2>2. /\ SubSeq(C, 1, n) \in Seq(S) /\ Len(SubSeq(C, 1, n)) = n
        /\ \A k \in 1..n : SubSeq(C, 1, n)[k] = C[k]
    BY <1>0, <2>1, SubSeqProperties
  <2>3. SubSeq(C, 1, n) = [k \in 1..n |-> SubSeq(C, 1, n)[k]]
    BY <2>2, LenProperties
  <2>4. \A k \in 1..n : SubSeq(C, 1, n)[k] = buffer[CellAt(size, rpos, k)]
    BY <1>1, <2>1, <2>2
  <2> QED BY <1>3, <2>3, <2>4
<1>5. Contents(buffer, size, ReadPos(size, rpos, n), avail - n) = SubSeq(C, n + 1, avail)
  <2> DEFINE r == ReadPos(size, rpos, n)
  <2>1. r \in 0..size
    BY <1>0, PositionsInside
  <2> DEFINE D == Contents(buffer, size, r, avail - n)
  <2>2. /\ Listed(D, avail - n)
        /\ \A k \in 1..avail - n : D[k] = buffer[CellAt(size, r, k)]
    <3> HIDE DEF r
    <3>1. PICK d \in 0..size : d = avail - n
      BY <1>0
    <3>2. /\ Listed(Contents(buffer, size, r, d), d)
          /\ InCells(Contents(buffer, size, r, d), buffer, size, r, d)
      BY <2>1, ContentsAround
    <3> QED BY <3>1, <3>2 DEF InCells
  <2>3. \A k \in 1..avail - n : CellAt(size, r, k) = CellAt(size, rpos, n + k)
    BY DEF ReadPos, ReadWraps, CellAt, Around
  <2>4. \A k \in n + 1..avail : C[k] \in S
    BY <1>0, <1>2
  <2>5. /\ SubSeq(C, n + 1, avail) \in Seq(S) /\ Len(SubSeq(C, n + 1, avail)) = avail - n
        /\ \A k \in 1..avail - n : SubSeq(C, n + 1, avail)[k] = C[n + k]
    <3>1. /\ SubSeq(C, n + 1, avail) \in Seq(S)
          /\ Len(SubSeq(C, n + 1, avail)) = IF n + 1 <= avail THEN avail - (n + 1) + 1 ELSE 0
          /\ \A k \in 1..avail - (n + 1) + 1 : SubSeq(C, n + 1, avail)[k] = C[n + 1 + k - 1]
      BY <1>0, <2>4, SubSeqProperties
    <3> HIDE DEF C
    <3>2. PICK Q : Q = SubSeq(C, n + 1, avail)
      OBVIOUS
    <3>3. Len(Q) = avail - n
      BY <1>0, <3>1, <3>2
    <3>4. ASSUME NEW k \in 1..avail - n
          PROVE  Q[k] = C[n + k]
      <4>1. k \in 1..avail - (n + 1) + 1 /\ n + 1 + k - 1 = n + k
        BY <1>0
      <4> QED BY <3>1, <3>2, <4>1
    <3> QED BY <3>1, <3>2, <3>3, <3>4
  <2>6. \A k \in 1..avail - n : n + k \in 1..avail
    OBVIOUS
  <2> HIDE DEF r, D
  <2>7. Listed(SubSeq(C, n + 1, avail), avail - n)
    BY <2>5, LenProperties DEF Listed
  <2>8. ASSUME NEW k \in 1..avail - n
        PROVE  SubSeq(C, n + 1, avail)[k] = buffer[CellAt(size, r, k)]
    BY <1>1, <2>3, <2>5, <2>6
  <2>9. D = SubSeq(C, n + 1, avail)
    BY <1>0, <2>2, <2>7, <2>8, SameList
  <2> QED BY <2>9 DEF r, D
<1> QED BY <1>2, <1>4, <1>5 DEF ReadsOldest

\* A write adds its samples behind those a ring holds and changes none of them.
WritesBehind(buffer, size, rpos, n, wpos, s) ==
  Contents(Fill(buffer, WriteCells(size, wpos, Len(s)), s), size, rpos, n + Len(s))
    = Contents(buffer, size, rpos, n) \o s

LEMMA WriteAppends ==
  ASSUME NEW S, NEW size \in Nat \ {0}, NEW buffer \in [0..size - 1 -> S], NEW rpos \in 0..size,
         NEW wpos \in 0..size - 1, NEW n \in 0..size, NEW s \in Seq(S), n + Len(s) <= size,
         Ahead(size, rpos, n, wpos)
  PROVE  WritesBehind(buffer, size, rpos, n, wpos, s)
<1> DEFINE m == Len(s)
           W == WriteCells(size, wpos, m)
           F == Fill(buffer, W, s)
           C == Contents(buffer, size, rpos, n)
<1>1. m \in Nat /\ n \in Nat /\ m \in 0..size /\ n + m \in 0..size /\ n + m \in Nat /\ rpos \in Nat
      /\ wpos \in Nat
  BY LenProperties
<1>2. DOMAIN W = 1..m /\ \A k \in 1..m : W[k] = CellAt(size, wpos, k)
  BY <1>1, WritesAround
<1>3. DOMAIN buffer = 0..size - 1
  OBVIOUS
<1> HIDE DEF m, W
<1>4. ASSUME NEW j \in 1..m
      PROVE  F[CellAt(size, wpos, j)] = s[j]
  <2>1. CellAt(size, wpos, j) \in 0..size - 1
    BY <1>1 DEF CellAt, Around
  <2>2. \A k \in 1..m : W[k] = CellAt(size, wpos, j) => k = j
    <3> SUFFICES ASSUME NEW k \in 1..m, CellAt(size, wpos, k) = CellAt(size, wpos, j)
                 PROVE  k = j
      BY <1>2
    <3> QED BY <1>1 DEF CellAt, Around
  <2>3. W[j] = CellAt(size, wpos, j)
    BY <1>2
  <2>4. (CHOOSE k \in DOMAIN W : W[k] = CellAt(size, wpos, j)) = j
    BY <1>2, <2>2, <2>3
  <2> QED BY <1>2, <1>3, <2>1, <2>3, <2>4 DEF Fill
<1>5. ASSUME NEW k \in 1..n
      PROVE  F[CellAt(size, rpos, k)] = buffer[CellAt(size, rpos, k)]
  <2>1. CellAt(size, rpos, k) \in 0..size - 1
    BY <1>1 DEF CellAt, Around
  <2>2. \A j \in 1..m : W[j] # CellAt(size, rpos, k)
    <3> SUFFICES ASSUME NEW j \in 1..m
                 PROVE  CellAt(size, wpos, j) # CellAt(size, rpos, k)
      BY <1>2
    <3>1. n + m <= size
      BY <1>1
    <3> QED BY <1>1, <3>1 DEF CellAt, Around, Ahead
  <2> QED BY <1>2, <1>3, <2>1, <2>2 DEF Fill
<1> HIDE DEF F
<1> DEFINE D == Contents(F, size, rpos, n + m)
<1>6. /\ Listed(D, n + m)
      /\ \A k \in 1..n + m : D[k] = F[CellAt(size, rpos, k)]
  <2>1. PICK d \in 0..size : d = n + m
    BY <1>1
  <2>2. /\ Listed(Contents(F, size, rpos, d), d)
        /\ InCells(Contents(F, size, rpos, d), F, size, rpos, d)
    BY ContentsAround
  <2> QED BY <2>1, <2>2 DEF InCells
<1>7. /\ \A k \in 1..n : C[k] = buffer[CellAt(size, rpos, k)]
      /\ C \in Seq(S) /\ Len(C) = n
  <2>1. Len(C) = n /\ InCells(C, buffer, size, rpos, n)
    BY ContentsAround
  <2>2. C \in Seq(S)
    BY <1>1, ContentsTypes
  <2> QED BY <2>1, <2>2 DEF InCells
<1> HIDE DEF D
<1> HIDE DEF C
<1>8. C \o s \in Seq(S) /\ Len(C \o s) = n + m
      /\ \A k \in 1..n + m : (C \o s)[k] = IF k <= n THEN C[k] ELSE s[k - n]
  BY <1>7, ConcatProperties DEF m
<1>9. ASSUME NEW k \in 1..n + m
      PROVE  F[CellAt(size, rpos, k)] = (C \o s)[k]
  <2>1. CASE k <= n
    <3>1. k \in 1..n
      BY <1>1, <2>1
    <3>2. C[k] = buffer[CellAt(size, rpos, k)]
      BY <1>7, <3>1
    <3> QED BY <1>5, <1>8, <2>1, <3>1, <3>2
  <2>2. CASE k > n
    <3>1. k - n \in 1..m /\ ~(k <= n)
      BY <1>1, <2>2
    <3>2. CellAt(size, rpos, k) = CellAt(size, wpos, k - n)
      BY <1>1, <2>2 DEF CellAt, Around, Ahead
    <3>3. F[CellAt(size, wpos, k - n)] = s[k - n]
      BY <1>4, <3>1
    <3> QED BY <1>8, <3>1, <3>2, <3>3
  <2>3. k <= n \/ k > n
    BY <1>1
  <2> QED BY <2>1, <2>2, <2>3, Zenon
<1>10. Listed(C \o s, n + m)
  BY <1>8, LenProperties DEF Listed
<1>11. D = C \o s
  BY <1>1, <1>6, <1>9, <1>10, SameList
<1> QED BY <1>11 DEF D, F, W, C, m, WritesBehind

-----------------------------------------------------------------------------
(* Sequences of sequences, joined.                                             *)

\* Induction over the numbers, for a set of them.
LEMMA NumbersByInduction ==
  ASSUME NEW S, 0 \in S, \A n \in Nat : n \in S => n + 1 \in S
  PROVE  Nat \subseteq S
<1> SUFFICES ASSUME NEW m \in Nat, m \notin S
             PROVE  FALSE
  OBVIOUS
<1> DEFINE T == { 0..n : n \in Nat \ S }
<1>1. IsWellFoundedOn(StrictSubsetOrdering(Nat), FiniteSubsetsOf(Nat))
  BY FS_StrictSubsetOrderingWellFounded
<1>2. T \subseteq FiniteSubsetsOf(Nat)
  <2>1. ASSUME NEW n \in Nat
        PROVE  IsFiniteSet(0..n) /\ 0..n \in SUBSET Nat
    BY FS_Interval
  <2> QED BY <2>1 DEF FiniteSubsetsOf
<1>3. 0..m \in T
  OBVIOUS
<1>4. PICK x \in T : \A y \in T : ~ (<<y, x>> \in StrictSubsetOrdering(Nat))
  <2>1. T # {}
    BY <1>3
  <2> HIDE DEF T
  <2> QED BY <1>1, <1>2, <2>1, WFMin
<1>5. PICK n \in Nat \ S : x = 0..n
  OBVIOUS
<1>6. n # 0 /\ n - 1 \in Nat \ S
  <2>1. n # 0
    BY <1>5
  <2>2. n - 1 \in Nat /\ (n - 1) + 1 = n
    BY <2>1
  <2> QED BY <2>1, <2>2
<1>7. <<0..n - 1, 0..n>> \in StrictSubsetOrdering(Nat)
  <2>1. n \in 0..n /\ n \notin 0..n - 1
    BY <1>6
  <2>2. 0..n - 1 \subseteq 0..n /\ 0..n \subseteq Nat
    BY <1>6
  <2> QED BY <2>1, <2>2 DEF StrictSubsetOrdering
<1>8. 0..n - 1 \in T
  BY <1>6
<1> QED BY <1>4, <1>5, <1>7, <1>8

\* The prefixes of a sequence of sequences, joined: what FlattenSeq computes.
Joins(f, s) == f = [i \in 1..Len(s) |-> IF i = 1 THEN s[i] ELSE f[i - 1] \o s[i]]

LEMMA JoinExists ==
  ASSUME NEW A, NEW s \in Seq(Seq(A))
  PROVE  \E f \in [1..Len(s) -> Seq(A)] : Joins(f, s)
<1> DEFINE Up(f, n) == /\ f \in [1..n -> Seq(A)]
                       /\ \A i \in 1..n : f[i] = IF i = 1 THEN s[i] ELSE f[i - 1] \o s[i]
           N == { n \in Nat : n <= Len(s) => \E f \in [1..n -> Seq(A)] : Up(f, n) }
<1>1. Len(s) \in Nat /\ \A i \in 1..Len(s) : s[i] \in Seq(A)
  BY LenProperties, ElementOfSeq
<1>2. 0 \in N
  <2>1. [i \in 1..0 |-> <<>>] \in [1..0 -> Seq(A)]
    OBVIOUS
  <2>2. PICK f \in [1..0 -> Seq(A)] : TRUE
    BY <2>1
  <2>3. Up(f, 0)
    OBVIOUS
  <2> HIDE DEF Up
  <2> QED BY <2>3
<1>3. ASSUME NEW n \in Nat, n \in N
      PROVE  n + 1 \in N
  <2>1. SUFFICES ASSUME n + 1 <= Len(s)
                 PROVE  \E g \in [1..n + 1 -> Seq(A)] : Up(g, n + 1)
    <3> HIDE DEF Up
    <3> QED OBVIOUS
  <2>2. n <= Len(s)
    BY <1>1, <2>1
  <2>3. PICK f \in [1..n -> Seq(A)] : Up(f, n)
    BY <1>3, <2>2
  <2> DEFINE g == [i \in 1..n + 1 |-> IF i <= n THEN f[i] ELSE IF n = 0 THEN s[i] ELSE f[n] \o s[i]]
  <2>4. n + 1 \in 1..Len(s) /\ s[n + 1] \in Seq(A)
    BY <1>1, <2>1
  <2>5. n # 0 => f[n] \o s[n + 1] \in Seq(A)
    <3>1. n # 0 => f[n] \in Seq(A)
      BY <2>3
    <3> QED BY <2>4, <3>1, ConcatProperties
  <2>6. g \in [1..n + 1 -> Seq(A)]
    <3>1. ASSUME NEW i \in 1..n + 1
          PROVE  g[i] \in Seq(A)
      <4>1. CASE i <= n
        BY <2>3, <4>1
      <4>2. CASE i = n + 1
        BY <2>4, <2>5, <4>2
      <4> QED BY <4>1, <4>2
    <3> QED BY <3>1
  <2>7. ASSUME NEW i \in 1..n + 1
        PROVE  g[i] = IF i = 1 THEN s[i] ELSE g[i - 1] \o s[i]
    <3>1. CASE i = n + 1
      <4>1. CASE n = 0
        BY <3>1, <4>1
      <4>2. CASE n # 0
        <5>1. i # 1 /\ i - 1 = n /\ n \in 1..n + 1 /\ n <= n /\ ~(i <= n)
          BY <3>1, <4>2
        <5>2. g[n] = f[n] /\ g[i] = f[n] \o s[i]
          BY <4>2, <5>1
        <5> QED BY <5>1, <5>2
      <4> QED BY <4>1, <4>2
    <3>2. CASE i <= n
      <4>1. g[i] = f[i] /\ i \in 1..n
        BY <3>2
      <4>2. i # 1 => g[i - 1] = f[i - 1]
        BY <3>2
      <4> QED BY <2>3, <4>1, <4>2
    <3> QED BY <3>1, <3>2
  <2> QED BY <2>6, <2>7
<1>4. Nat \subseteq N
  <2> HIDE DEF N
  <2> QED BY <1>2, <1>3, NumbersByInduction
<1>5. PICK f \in [1..Len(s) -> Seq(A)] : Up(f, Len(s))
  <2> HIDE DEF Up
  <2> QED BY <1>1, <1>4
<1>6. f = [i \in 1..Len(s) |-> IF i = 1 THEN s[i] ELSE f[i - 1] \o s[i]]
  BY <1>5
<1> QED BY <1>6 DEF Joins

LEMMA JoinUnique ==
  ASSUME NEW A, NEW s \in Seq(Seq(A)), NEW f, NEW g, Joins(f, s), Joins(g, s)
  PROVE  f = g
<1> DEFINE N == { n \in Nat : n \in 1..Len(s) => f[n] = g[n] }
<1>1. /\ f = [i \in 1..Len(s) |-> IF i = 1 THEN s[i] ELSE f[i - 1] \o s[i]]
      /\ g = [i \in 1..Len(s) |-> IF i = 1 THEN s[i] ELSE g[i - 1] \o s[i]]
      /\ Len(s) \in Nat
  BY LenProperties DEF Joins
<1>2. DOMAIN f = 1..Len(s) /\ DOMAIN g = 1..Len(s)
  <2>1. DOMAIN [i \in 1..Len(s) |-> IF i = 1 THEN s[i] ELSE f[i - 1] \o s[i]] = 1..Len(s)
        /\ DOMAIN [i \in 1..Len(s) |-> IF i = 1 THEN s[i] ELSE g[i - 1] \o s[i]] = 1..Len(s)
    OBVIOUS
  <2> QED BY <1>1, <2>1
<1>3. \A i \in 1..Len(s) : /\ f[i] = IF i = 1 THEN s[i] ELSE f[i - 1] \o s[i]
                           /\ g[i] = IF i = 1 THEN s[i] ELSE g[i - 1] \o s[i]
  BY <1>1
<1>4. 0 \in N
  OBVIOUS
<1>5. ASSUME NEW n \in Nat, n \in N
      PROVE  n + 1 \in N
  <2>1. SUFFICES ASSUME n + 1 \in 1..Len(s)
                 PROVE  f[n + 1] = g[n + 1]
    OBVIOUS
  <2>2. CASE n = 0
    BY <1>3, <2>1, <2>2
  <2>3. CASE n # 0
    <3>1. n \in 1..Len(s) /\ (n + 1) - 1 = n /\ n + 1 # 1
      BY <1>1, <2>1, <2>3
    <3>2. f[n] = g[n]
      BY <1>5, <3>1
    <3> QED BY <1>3, <2>1, <3>1, <3>2
  <2> QED BY <2>2, <2>3
<1>6. Nat \subseteq N
  <2> HIDE DEF N
  <2> QED BY <1>4, <1>5, NumbersByInduction
<1>7. \A n \in 1..Len(s) : f[n] = g[n]
  BY <1>6
<1>8. f = [i \in 1..Len(s) |-> f[i]] /\ g = [i \in 1..Len(s) |-> g[i]]
  BY <1>1, <1>2
<1> QED BY <1>2, <1>7, <1>8

LEMMA JoinIsFlatten ==
  ASSUME NEW A, NEW s \in Seq(Seq(A)), s # <<>>, NEW f, Joins(f, s)
  PROVE  FlattenSeq(s) = f[Len(s)]
<1> DEFINE g == CHOOSE g : g = [i \in 1..Len(s) |-> IF i = 1 THEN s[i] ELSE g[i - 1] \o s[i]]
<1>1. Joins(g, s)
  BY DEF Joins
<1>2. g = f
  <2> HIDE DEF g
  <2> QED BY <1>1, JoinUnique
<1>3. Len(s) # 0
  OBVIOUS
<1>4. FlattenSeq(s) = g[Len(s)]
  BY <1>3 DEF FlattenSeq
<1> QED BY <1>2, <1>4

LEMMA FlattenTypes ==
  ASSUME NEW A, NEW s \in Seq(Seq(A))
  PROVE  /\ FlattenSeq(s) \in Seq(A)
         /\ s = <<>> => FlattenSeq(s) = <<>>
<1>1. CASE s = <<>>
  BY <1>1 DEF FlattenSeq
<1>2. CASE s # <<>>
  <2>1. PICK f \in [1..Len(s) -> Seq(A)] : Joins(f, s)
    BY JoinExists
  <2>2. Len(s) \in 1..Len(s)
    BY <1>2, EmptySeq
  <2> QED BY <1>2, <2>1, <2>2, JoinIsFlatten
<1> QED BY <1>1, <1>2

\* What is appended comes out last.
LEMMA FlattenAppend ==
  ASSUME NEW A, NEW s \in Seq(Seq(A)), NEW e \in Seq(A)
  PROVE  FlattenSeq(Append(s, e)) = FlattenSeq(s) \o e
<1> DEFINE t == Append(s, e)
<1>1. /\ t \in Seq(Seq(A)) /\ t # <<>> /\ Len(t) = Len(s) + 1
      /\ \A i \in 1..Len(s) : t[i] = s[i]
      /\ t[Len(s) + 1] = e /\ Len(s) \in Nat
  BY AppendProperties, LenProperties
<1> HIDE DEF t
<1>2. PICK f \in [1..Len(t) -> Seq(A)] : Joins(f, t)
  BY <1>1, JoinExists
<1>3. FlattenSeq(t) = f[Len(t)]
  BY <1>1, <1>2, JoinIsFlatten
<1>4. \A i \in 1..Len(t) : f[i] = IF i = 1 THEN t[i] ELSE f[i - 1] \o t[i]
  BY <1>2 DEF Joins
<1>5. CASE s = <<>>
  <2>1. Len(s) = 0 /\ FlattenSeq(s) = <<>>
    BY <1>5, FlattenTypes
  <2>2. FlattenSeq(t) = e
    BY <1>1, <1>3, <1>4, <2>1
  <2>3. <<>> \o e = e
    BY ConcatEmptySeq
  <2> QED BY <2>1, <2>2, <2>3 DEF t
<1>6. CASE s # <<>>
  <2> DEFINE g == [i \in 1..Len(s) |-> f[i]]
  <2>1. Len(s) \in 1..Len(s)
    BY <1>6, EmptySeq
  <2>2. g = [i \in 1..Len(s) |-> IF i = 1 THEN s[i] ELSE g[i - 1] \o s[i]]
    <3>1. ASSUME NEW i \in 1..Len(s)
          PROVE  f[i] = IF i = 1 THEN s[i] ELSE g[i - 1] \o s[i]
      <4>1. i \in 1..Len(t) /\ t[i] = s[i]
        BY <1>1
      <4>2. i # 1 => g[i - 1] = f[i - 1]
        BY <1>1
      <4> QED BY <1>4, <4>1, <4>2
    <3> QED BY <3>1
  <2>3. Joins(g, s)
    BY <2>2 DEF Joins
  <2>4. g[Len(s)] = f[Len(s)]
    BY <2>1
  <2> HIDE DEF g
  <2>5. FlattenSeq(s) = f[Len(s)]
    BY <1>6, <2>3, <2>4, JoinIsFlatten
  <2>6. f[Len(t)] = f[Len(s)] \o t[Len(t)]
    <3>1. Len(t) \in 1..Len(t) /\ Len(t) # 1 /\ Len(t) - 1 = Len(s)
      BY <1>1, <2>1
    <3> QED BY <1>4, <3>1
  <2> QED BY <1>1, <1>3, <2>5, <2>6 DEF t
<1> QED BY <1>5, <1>6

Regroups(A) == \A a, b, d \in Seq(A) : a \o (b \o d) = (a \o b) \o d

LEMMA JoinsRegroup ==
  ASSUME NEW A
  PROVE  Regroups(A)
<1> SUFFICES ASSUME NEW a \in Seq(A), NEW b \in Seq(A), NEW d \in Seq(A)
             PROVE  a \o (b \o d) = (a \o b) \o d
  BY DEF Regroups
<1>1. /\ Len(a) \in Nat /\ Len(b) \in Nat /\ Len(d) \in Nat
      /\ b \o d \in Seq(A) /\ a \o b \in Seq(A)
      /\ Len(b \o d) = Len(b) + Len(d) /\ Len(a \o b) = Len(a) + Len(b)
  BY LenProperties, ConcatProperties
<1>2. /\ a \o (b \o d) \in Seq(A) /\ (a \o b) \o d \in Seq(A)
      /\ Len(a \o (b \o d)) = Len(a) + (Len(b) + Len(d))
      /\ Len((a \o b) \o d) = (Len(a) + Len(b)) + Len(d)
  BY <1>1, ConcatProperties
<1>3. ASSUME NEW i \in 1..Len(a) + (Len(b) + Len(d))
      PROVE  (a \o (b \o d))[i] = ((a \o b) \o d)[i]
  <2>1. CASE i <= Len(a)
    BY <1>1, <2>1
  <2>2. CASE i > Len(a) /\ i <= Len(a) + Len(b)
    BY <1>1, <2>2
  <2>3. CASE i > Len(a) + Len(b)
    BY <1>1, <2>3
  <2> QED BY <1>1, <2>1, <2>2, <2>3
<1> QED BY <1>1, <1>2, <1>3, SeqEqual

\* The first comes out first.
LEMMA FlattenHead ==
  ASSUME NEW A, NEW s \in Seq(Seq(A)), Len(s) # 0
  PROVE  FlattenSeq(s) = Head(s) \o FlattenSeq(Tail(s))
<1> DEFINE t == Tail(s)
<1>0. s # <<>>
  OBVIOUS
<1>1. /\ t \in Seq(Seq(A)) /\ Len(t) = Len(s) - 1 /\ Len(s) \in Nat \ {0}
      /\ \A i \in 1..Len(t) : t[i] = s[i + 1]
      /\ Head(s) = s[1] /\ s[1] \in Seq(A)
  BY <1>0, HeadTailProperties, EmptySeq
<1> HIDE DEF t
<1>4. Regroups(A)
  BY JoinsRegroup
<1>2. CASE t = <<>>
  <2>1. Len(s) = 1 /\ FlattenSeq(t) = <<>>
    <3>1. FlattenSeq(t) = <<>>
      BY <1>1, <1>2, FlattenTypes
    <3>2. Len(t) = 0
      BY <1>2
    <3>3. Len(s) = 1
      BY <1>1, <3>2
    <3> QED BY <3>1, <3>3
  <2>2. PICK f \in [1..Len(s) -> Seq(A)] : Joins(f, s)
    BY JoinExists
  <2>3. f[1] = s[1]
    BY <2>1, <2>2 DEF Joins
  <2>4. FlattenSeq(s) = s[1]
    BY <2>1, <2>2, <2>3, <1>0, JoinIsFlatten
  <2>5. s[1] \o <<>> = s[1]
    BY <1>1, ConcatEmptySeq
  <2> QED BY <1>1, <2>1, <2>4, <2>5 DEF t
<1>3. CASE t # <<>>
  <2>1. PICK g \in [1..Len(t) -> Seq(A)] : Joins(g, t)
    BY <1>1, JoinExists
  <2>2. FlattenSeq(t) = g[Len(t)] /\ Len(t) \in Nat \ {0}
    BY <1>1, <1>3, <2>1, <1>0, JoinIsFlatten, EmptySeq
  <2>3. \A i \in 1..Len(t) : g[i] = IF i = 1 THEN t[i] ELSE g[i - 1] \o t[i]
    BY <2>1 DEF Joins
  <2> DEFINE f == [i \in 1..Len(s) |-> IF i = 1 THEN s[i] ELSE s[1] \o g[i - 1]]
  <2>4. ASSUME NEW i \in 1..Len(s)
        PROVE  f[i] = IF i = 1 THEN s[i] ELSE f[i - 1] \o s[i]
    <3>1. CASE i = 1
      BY <3>1
    <3>2. CASE i = 2
      <4>1. f[i] = s[1] \o g[1] /\ f[i - 1] = s[1] /\ 1 \in 1..Len(t)
        BY <1>1, <3>2
      <4>2. t[1] = s[1 + 1] /\ 1 + 1 = 2
        BY <1>1, <4>1
      <4>3. g[1] = IF 1 = 1 THEN t[1] ELSE g[1 - 1] \o t[1]
        BY <2>3, <4>1
      <4> QED BY <3>2, <4>1, <4>2, <4>3
    <3>3. CASE i # 1 /\ i # 2
      <4>1. i - 1 \in 1..Len(t) /\ i - 1 # 1 /\ (i - 1) - 1 \in 1..Len(t) /\ i - 1 \in 1..Len(s)
            /\ (i - 1) + 1 = i
        BY <1>1, <3>3
      <4>2. g[i - 1] = g[(i - 1) - 1] \o t[i - 1] /\ t[i - 1] = s[i]
        BY <1>1, <2>3, <4>1
      <4>3. f[i] = s[1] \o g[i - 1] /\ f[i - 1] = s[1] \o g[(i - 1) - 1]
        BY <3>3, <4>1
      <4>4. g[(i - 1) - 1] \in Seq(A) /\ t[i - 1] \in Seq(A)
        BY <1>1, <2>1, <4>1, ElementOfSeq
      <4>5. s[1] \o (g[(i - 1) - 1] \o t[i - 1]) = (s[1] \o g[(i - 1) - 1]) \o t[i - 1]
        <5>1. s[1] \in Seq(A)
          BY <1>1
        <5>2. PICK x : x = g[(i - 1) - 1]
          OBVIOUS
        <5>3. PICK y : y = t[i - 1]
          OBVIOUS
        <5>4. PICK z : z = s[1]
          OBVIOUS
        <5>5. x \in Seq(A) /\ y \in Seq(A) /\ z \in Seq(A)
          BY <4>4, <5>1, <5>2, <5>3, <5>4, Zenon
        <5>6. z \o (x \o y) = (z \o x) \o y
          BY <1>4, <5>5, Zenon DEF Regroups
        <5> QED BY <5>2, <5>3, <5>4, <5>6
      <4> HIDE DEF f
      <4> QED BY <3>3, <4>2, <4>3, <4>5
    <3> QED BY <3>1, <3>2, <3>3
  <2>5. Joins(f, s)
    BY <2>4 DEF Joins
  <2>6. f[Len(s)] = s[1] \o g[Len(t)]
    <3>1. Len(s) \in 1..Len(s) /\ Len(s) # 1 /\ Len(s) - 1 = Len(t)
      BY <1>1, <2>2
    <3> QED BY <3>1
  <2> HIDE DEF f
  <2>7. FlattenSeq(s) = f[Len(s)]
    BY <2>5, <1>0, JoinIsFlatten
  <2> QED BY <1>1, <2>2, <2>6, <2>7 DEF t
<1> QED BY <1>2, <1>3

LEMMA FlattenBound ==
  ASSUME NEW A, NEW s \in Seq(Seq(A)), NEW c \in Nat, \A i \in 1..Len(s) : Len(s[i]) <= c
  PROVE  Len(FlattenSeq(s)) <= c * Len(s)
<1>1. CASE s = <<>>
  <2>1. FlattenSeq(s) = <<>> /\ Len(s) = 0
    BY <1>1, FlattenTypes
  <2> QED BY <2>1
<1>2. CASE s # <<>>
  <2>1. PICK f \in [1..Len(s) -> Seq(A)] : Joins(f, s)
    BY JoinExists
  <2>2. \A i \in 1..Len(s) : f[i] = IF i = 1 THEN s[i] ELSE f[i - 1] \o s[i]
    BY <2>1 DEF Joins
  <2> DEFINE N == { n \in Nat : n \in 1..Len(s) => Len(f[n]) <= c * n }
  <2>3. 0 \in N
    OBVIOUS
  <2>4. ASSUME NEW n \in Nat, n \in N
        PROVE  n + 1 \in N
    <3>1. SUFFICES ASSUME n + 1 \in 1..Len(s)
                   PROVE  Len(f[n + 1]) <= c * (n + 1)
      OBVIOUS
    <3>2. Len(s[n + 1]) <= c /\ s[n + 1] \in Seq(A)
      BY <3>1, ElementOfSeq
    <3>3. CASE n = 0
      <4>1. f[1] = s[1]
        <5>1. 1 \in 1..Len(s)
          BY <3>1, <3>3
        <5> QED BY <2>2, <5>1
      <4>2. c * (n + 1) = c
        BY <3>3
      <4> QED BY <3>2, <3>3, <4>1, <4>2
    <3>4. CASE n # 0
      <4>1. n \in 1..Len(s) /\ n + 1 # 1 /\ (n + 1) - 1 = n
        BY <3>1, <3>4, LenProperties
      <4>2. Len(f[n]) <= c * n /\ f[n] \in Seq(A)
        BY <2>1, <2>4, <4>1
      <4>3. f[n + 1] = f[n] \o s[n + 1]
        BY <2>2, <3>1, <4>1
      <4>4. Len(f[n + 1]) = Len(f[n]) + Len(s[n + 1])
        BY <3>2, <4>2, <4>3, ConcatProperties
      <4>5. c * (n + 1) = c * n + c /\ c * n \in Nat
        OBVIOUS
      <4>6. Len(f[n]) \in Nat /\ Len(s[n + 1]) \in Nat
        BY <3>2, <4>2, LenProperties
      <4>7. \A x, y, z \in Int : x <= z /\ y <= c => x + y <= z + c
        OBVIOUS
      <4>8. Len(f[n]) + Len(s[n + 1]) <= c * n + c
        <5>1. Len(f[n]) \in Int /\ Len(s[n + 1]) \in Int /\ c * n \in Int
          BY <4>5, <4>6
        <5> QED BY <3>2, <4>2, <4>7, <5>1, Zenon
      <4> QED BY <4>4, <4>5, <4>8
    <3> QED BY <3>3, <3>4
  <2>5. Nat \subseteq N
    <3> HIDE DEF N
    <3> QED BY <2>3, <2>4, NumbersByInduction
  <2>6. Len(s) \in 1..Len(s)
    BY <1>2, EmptySeq
  <2> QED BY <1>2, <2>1, <2>5, <2>6, JoinIsFlatten
<1> QED BY <1>1, <1>2

-----------------------------------------------------------------------------
(* Samples and messages.                                                       *)

LEMMA MadeTypes ==
  ASSUME NEW from \in 0..Ids - 1, NEW n \in Nat
  PROVE  /\ Made(from, n) \in Seq(Sample) /\ Len(Made(from, n)) = n
         /\ MadeAfter(from, n) \in 0..Ids - 1
<1>1. Ids \in Nat \ {0} /\ from \in Nat
  BY SizeAssumption
<1>2. ASSUME NEW k \in 1..n
      PROVE  ((from + k - 1) % Ids) + 1 \in Sample
  <2>1. from + k - 1 \in Nat
    BY <1>1
  <2>2. (from + k - 1) % Ids \in 0..Ids - 1
    BY <2>1, <1>1, Remainders
  <2> QED BY <2>2, <1>1 DEF Sample
<1>3. Made(from, n) \in Seq(Sample)
  BY <1>2, IsASeq DEF Made
<1>4. Len(Made(from, n)) = n
  BY DEF Made
<1>5. from + n \in Nat
  BY <1>1
<1> QED BY <1>1, <1>3, <1>4, <1>5, Remainders DEF MadeAfter

\* Chunks first and then at most something else: as many as there are.
LEMMA ChunksCounted ==
  ASSUME NEW mail, NEW n \in Nat, NEW l \in Nat, n <= l, DOMAIN mail = 1..l,
         \A k \in 1..l : mail[k].cmd = "chunk" <=> k <= n
  PROVE  Cardinality({ k \in DOMAIN mail : mail[k].cmd = "chunk" }) = n
<1>1. { k \in DOMAIN mail : mail[k].cmd = "chunk" } = 1..n
  OBVIOUS
<1>2. Cardinality(1..n) = n
  BY FS_Interval
<1> QED BY <1>1, <1>2

\* The messages of a path that is open to the processor, and the chunks among them.
Sent == IF main = "closed" THEN Len(toWorklet) - 1 ELSE Len(toWorklet)

LEMMA ChunksAreMail ==
  ASSUME TypeOK, Mail, ~threads, phase # "created"
  PROVE  /\ phase = "started" => ChunksSent = Sent /\ Sent \in Nat
         /\ phase = "stopped" => ChunksSent = 0
<1>1. Len(toWorklet) \in Nat /\ DOMAIN toWorklet = 1..Len(toWorklet)
  BY DEF TypeOK
<1>2. CASE phase = "started"
  <2>1. main # "idle" /\ (main = "closed" => Len(toWorklet) >= 1)
    <3>1. toWorklet # <<>> => Len(toWorklet) # 0
      BY DEF TypeOK
    <3>2. main # "idle" /\ (main = "closed" => toWorklet # <<>>)
      BY <1>2 DEF Mail
    <3>3. Len(toWorklet) # 0 => Len(toWorklet) >= 1
      BY <1>1
    <3> QED BY <3>1, <3>2, <3>3
  <2>2. Sent \in Nat /\ Sent <= Len(toWorklet)
    BY <1>1, <2>1 DEF Sent
  <2>3. ASSUME NEW k \in 1..Len(toWorklet)
        PROVE  toWorklet[k].cmd = "chunk" <=> k <= Sent
    <3>1. \/ main = "closed" /\ k = Len(toWorklet) /\ toWorklet[k] = Stop
          \/ ~(main = "closed" /\ k = Len(toWorklet)) /\ toWorklet[k].cmd = "chunk"
      BY <1>2 DEF Mail
    <3>2. Stop.cmd # "chunk"
      BY DEF Stop
    <3>3. CASE main = "closed"
      BY <1>1, <3>1, <3>2, <3>3 DEF Sent
    <3>4. CASE main # "closed"
      <4>1. toWorklet[k].cmd = "chunk"
        BY <3>1, <3>4
      <4>2. Sent = Len(toWorklet)
        BY <3>4 DEF Sent
      <4> QED BY <1>1, <4>1, <4>2
    <3> QED BY <3>3, <3>4
  <2>4. ChunksSent = Sent
    BY <1>1, <2>2, <2>3, ChunksCounted DEF ChunksSent
  <2> QED BY <1>2, <2>2, <2>4
<1>3. CASE phase = "stopped"
  <2>1. Len(toWorklet) = 0
    BY <1>3 DEF Mail
  <2>2. \A k \in 1..Len(toWorklet) : toWorklet[k].cmd = "chunk" <=> k <= 0
    BY <2>1
  <2> QED BY <1>1, <1>3, <2>2, ChunksCounted DEF ChunksSent
<1> QED BY <1>2, <1>3 DEF TypeOK

-----------------------------------------------------------------------------
(* What the parts of the invariant depend on.                                  *)

LEMMA SizesAreNumbers ==
  /\ OutSize \in Nat \ {0} /\ InSize \in Nat \ {0} /\ Ids \in Nat \ {0} /\ OutChunk \in 1..OutSize
  /\ 0..OutSize \subseteq Nat /\ 0..InSize \subseteq Nat
  /\ InChunks \cup {0} \subseteq 0..InSize
  BY SizeAssumption

LEMMA NumbersOfState ==
  ASSUME TypeOK
  PROVE  /\ output.avail \in 0..OutSize /\ output.rpos \in 0..OutSize /\ output.wpos \in 0..OutSize - 1
         /\ output.buffer \in [0..OutSize - 1 -> Sample]
         /\ input.avail \in 0..InSize /\ input.rpos \in 0..InSize /\ input.wpos \in 0..InSize - 1
         /\ input.buffer \in [0..InSize - 1 -> Sample]
         /\ engine.read \in 0..InSize /\ engine.write \in 0..OutSize
         /\ block \in 0..InSize /\ fresh.out \in 0..Ids - 1 /\ fresh.in \in 0..Ids - 1
  BY SizesAreNumbers DEF TypeOK, Ring

LEMMA MailStays ==
  ASSUME Mail, UNCHANGED <<mode, phase, main, toWorklet, reads>>, output'.avail = output.avail
  PROVE  Mail'
  BY DEF Mail, DataLeft, threads

LEMMA CreditsStay ==
  ASSUME CreditsBalance, UNCHANGED <<mode, phase, toWorklet, reads>>, output'.avail = output.avail
  PROVE  CreditsBalance'
  BY DEF CreditsBalance, ChunksSent, DataLeft, threads

LEMMA InputsStay ==
  ASSUME InputsFit, UNCHANGED <<mode, inputs>>
  PROVE  InputsFit'
  BY DEF InputsFit, threads

-----------------------------------------------------------------------------
(* process() keeps the invariant.                                              *)

LEMMA BeginKeeps ==
  ASSUME AudioInv, NEW chunk \in InChunks, BeginBlock(chunk)
  PROVE  AudioInv'
<1> USE DEF AudioInv
<1>1. UNCHANGED <<mode, output, input, phase, engine, main, toWorklet, reads, heard, captured>>
  BY DEF BeginBlock
<1>2. Mail' /\ CreditsBalance'
  BY <1>1, MailStays, CreditsStay
<1>3. Seen' /\ Positions'
  BY <1>1 DEF BeginBlock, Seen, Positions, Ahead, ReadUncounted, WriteUncounted, TakeUncounted,
     PutUncounted, threads
<1>4. CASE threads \/ chunk = 0
  <2>1. UNCHANGED <<inputs, fresh>> /\ block' = chunk /\ step' \in {"in_look", "out_look"}
    BY <1>4 DEF BeginBlock
  <2>2. TypeOK'
    BY <1>1, <2>1 DEF TypeOK
  <2> QED BY <1>1, <1>2, <1>3, <2>1, <2>2, InputsStay
<1>5. CASE ~threads /\ chunk # 0
  <2>0. chunk \in 0..InSize /\ chunk \in Nat /\ fresh.in \in 0..Ids - 1
    BY SizesAreNumbers, NumbersOfState
  <2>1. /\ Made(fresh.in, chunk) \in Seq(Sample) /\ Len(Made(fresh.in, chunk)) = chunk
        /\ MadeAfter(fresh.in, chunk) \in 0..Ids - 1
    BY <2>0, MadeTypes
  <2>2. /\ inputs' = Append(inputs, Made(fresh.in, chunk))
        /\ fresh' = [fresh EXCEPT !.in = MadeAfter(@, chunk)]
        /\ step' = "out_look" /\ block' = chunk
    BY <1>5 DEF BeginBlock, threads
  <2>3. inputs' \in Seq(Seq(Sample)) /\ fresh' \in [out : 0..Ids - 1, in : 0..Ids - 1]
    <3>1. inputs \in Seq(Seq(Sample)) /\ fresh \in [out : 0..Ids - 1, in : 0..Ids - 1]
      BY DEF TypeOK
    <3>2. Append(inputs, Made(fresh.in, chunk)) \in Seq(Seq(Sample))
      BY <2>1, <3>1, AppendProperties
    <3> QED BY <2>1, <2>2, <3>1, <3>2
  <2>4. TypeOK'
    BY <1>1, <2>2, <2>3 DEF TypeOK
  <2>5. ASSUME NEW k \in 1..Len(inputs')
        PROVE  Len(inputs'[k]) <= InSize
    <3>1. inputs \in Seq(Seq(Sample))
      BY DEF TypeOK
    <3>2. \/ k \in 1..Len(inputs) /\ inputs'[k] = inputs[k]
          \/ inputs'[k] = Made(fresh.in, chunk)
      BY <2>1, <2>2, <3>1
    <3> QED BY <2>0, <2>1, <3>2 DEF InputsFit
  <2> QED BY <1>1, <1>2, <1>3, <1>5, <2>4, <2>5 DEF InputsFit, threads
<1> QED BY <1>4, <1>5

LEMMA LooksKeep ==
  ASSUME AudioInv, LookForSpace \/ LookForData
  PROVE  AudioInv'
<1> USE DEF AudioInv
<1>1. /\ UNCHANGED <<mode, output, input, phase, block, engine, main, toWorklet, reads, inputs,
                     fresh, heard, captured>>
      /\ step' \in {"in_write", "out_look", "out_read", "idle"}
  BY DEF LookForSpace, LookForData
<1>2. Mail' /\ CreditsBalance' /\ InputsFit'
  BY <1>1, MailStays, CreditsStay, InputsStay
<1>3. TypeOK'
  BY <1>1 DEF TypeOK
<1>4. Seen'
  BY <1>1, NumbersOfState, SizesAreNumbers DEF LookForSpace, LookForData, Seen, SpaceLeft, DataLeft,
     threads
<1>5. Positions'
  BY <1>1 DEF LookForSpace, LookForData, Positions, Ahead, ReadUncounted, WriteUncounted,
     TakeUncounted, PutUncounted, threads
<1> QED BY <1>2, <1>3, <1>4, <1>5

LEMMA WriteInputKeeps ==
  ASSUME AudioInv, WriteInput
  PROVE  AudioInv'
<1> USE DEF AudioInv
<1>1. /\ UNCHANGED <<mode, output, phase, block, engine, main, toWorklet, reads, inputs, heard, captured>>
      /\ step = "in_write" /\ step' = "in_add"
  BY DEF WriteInput
<1>2. Mail' /\ CreditsBalance' /\ InputsFit'
  BY <1>1, MailStays, CreditsStay, InputsStay
<1>3. /\ threads /\ input.avail + block <= InSize
      /\ block \in Nat /\ block \in 0..InSize /\ input.wpos \in 0..InSize /\ input.wpos # InSize
      /\ input.wpos \in 0..InSize - 1 /\ fresh.in \in 0..Ids - 1 /\ InSize \in Nat \ {0}
  BY <1>1, NumbersOfState, SizesAreNumbers DEF Seen
<1>4. /\ Made(fresh.in, block) \in Seq(Sample) /\ Len(Made(fresh.in, block)) = block
      /\ MadeAfter(fresh.in, block) \in 0..Ids - 1
  BY <1>3, MadeTypes
<1>5. WriteCells(InSize, input.wpos, block) \in [1..block -> 0..InSize - 1]
  BY <1>3, WritesInside
<1>6. Fill(input.buffer, WriteCells(InSize, input.wpos, block), Made(fresh.in, block))
        \in [0..InSize - 1 -> Sample]
  <2>1. block <= Len(Made(fresh.in, block)) /\ input.buffer \in [0..InSize - 1 -> Sample]
    BY <1>3, <1>4, NumbersOfState
  <2> QED BY <1>3, <1>4, <1>5, <2>1, FillTypes
<1>7. WritePos(InSize, input.wpos, block) \in 0..InSize - 1
  BY <1>3, PositionsInside
<1>8. /\ input'.avail = input.avail /\ input'.rpos = input.rpos
      /\ input'.wpos = WritePos(InSize, input.wpos, block)
      /\ input' \in Ring(InSize)
  BY <1>6, <1>7 DEF WriteInput, TypeOK, Ring
<1>9. TypeOK'
  <2>1. fresh' \in [out : 0..Ids - 1, in : 0..Ids - 1]
    BY <1>4 DEF WriteInput, TypeOK
  <2> QED BY <1>1, <1>8, <2>1 DEF TypeOK
<1>10. Seen'
  BY <1>1, <1>3, <1>8 DEF Seen, threads
<1>11. Positions'
  <2>1. TakeUncounted \in 0..input.avail /\ input.avail - TakeUncounted \in 0..InSize
    BY <1>3, NumbersOfState DEF Seen, TakeUncounted
  <2>2. Ahead(InSize, input.rpos, input.avail - TakeUncounted, input.wpos)
    BY <1>1, <1>3, NumbersOfState DEF Positions, PutUncounted, TakeUncounted
  <2>3. Ahead(InSize, input.rpos, input.avail - TakeUncounted + block,
              WritePos(InSize, input.wpos, block))
    <3>1. input.avail - TakeUncounted + block <= InSize
      BY <1>3, <2>1, NumbersOfState
    <3> QED BY <1>3, <2>1, <2>2, <3>1, NumbersOfState, AheadAfterWrite
  <2> QED BY <1>1, <1>3, <1>8, <2>3 DEF Positions, PutUncounted, TakeUncounted, ReadUncounted,
                                      WriteUncounted, threads
<1> QED BY <1>2, <1>9, <1>10, <1>11

LEMMA AddInputKeeps ==
  ASSUME AudioInv, AddInput
  PROVE  AudioInv'
<1> USE DEF AudioInv
<1>1. /\ UNCHANGED <<mode, output, phase, block, engine, main, toWorklet, reads, inputs, fresh,
                     heard, captured>>
      /\ step = "in_add" /\ step' = "out_look"
  BY DEF AddInput
<1>2. Mail' /\ CreditsBalance' /\ InputsFit'
  BY <1>1, MailStays, CreditsStay, InputsStay
<1>3. threads /\ input.avail + block <= InSize /\ block \in Nat /\ input.avail \in 0..InSize
  BY <1>1, NumbersOfState, SizesAreNumbers DEF Seen
<1>4. input' \in Ring(InSize) /\ input'.avail = input.avail + block
      /\ input'.rpos = input.rpos /\ input'.wpos = input.wpos
  <2>1. input.avail + block \in 0..InSize
    BY <1>3, SizesAreNumbers
  <2> QED BY <2>1 DEF AddInput, TypeOK, Ring
<1>5. TypeOK'
  BY <1>1, <1>4 DEF TypeOK
<1>6. Seen'
  BY <1>1, <1>3, <1>4, NumbersOfState DEF Seen, threads
<1>7. Positions'
  <2>1. TakeUncounted \in Int /\ input.avail \in Int /\ block \in Int
    BY <1>3, NumbersOfState DEF TakeUncounted
  <2>2. Ahead(InSize, input.rpos, input.avail - TakeUncounted + block, input.wpos)
    BY <1>1, <1>3 DEF Positions, PutUncounted
  <2>5. Ahead(InSize, input.rpos, input.avail + block - TakeUncounted, input.wpos)
    <3>1. input.avail + block - TakeUncounted = input.avail - TakeUncounted + block
      BY <2>1
    <3> QED BY <2>1, <2>2, <3>1
  <2>6. /\ input.rpos \in Int /\ input.wpos \in Int /\ input'.rpos = input.rpos /\ input'.wpos = input.wpos
        /\ input'.avail = input.avail + block /\ engine.read \in Int /\ InSize \in Int
    BY <1>4, NumbersOfState, SizesAreNumbers
  <2>7. CASE engine.at = "in_add"
    BY <1>1, <1>3, <2>1, <2>5, <2>6, <2>7 DEF Positions, PutUncounted, TakeUncounted, ReadUncounted,
       WriteUncounted, threads, Ahead
  <2>8. CASE engine.at # "in_add"
    BY <1>1, <1>3, <2>1, <2>5, <2>6, <2>8 DEF Positions, PutUncounted, TakeUncounted, ReadUncounted,
       WriteUncounted, threads, Ahead
  <2> QED BY <2>7, <2>8
<1> QED BY <1>2, <1>5, <1>6, <1>7

LEMMA ReadOutputKeeps ==
  ASSUME AudioInv, ReadOutput
  PROVE  AudioInv'
<1> USE DEF AudioInv
<1>1. /\ UNCHANGED <<mode, input, phase, block, engine, main, toWorklet, reads, inputs, fresh, captured>>
      /\ step = "out_read" /\ step' = "out_add"
  BY DEF ReadOutput
<1>2. /\ output.avail \in OutChunk..OutSize /\ OutChunk \in 0..OutSize /\ OutChunk \in Nat
      /\ OutSize \in Nat \ {0} /\ output.rpos \in 0..OutSize
      /\ output.buffer \in [0..OutSize - 1 -> Sample]
  BY <1>1, NumbersOfState, SizesAreNumbers DEF Seen
<1>3. ReadPos(OutSize, output.rpos, OutChunk) \in 0..OutSize
  BY <1>2, PositionsInside
<1>4. /\ output' \in Ring(OutSize) /\ output'.avail = output.avail /\ output'.wpos = output.wpos
      /\ output'.rpos = ReadPos(OutSize, output.rpos, OutChunk)
  BY <1>3 DEF ReadOutput, TypeOK, Ring
<1>5. ReadCells(OutSize, output.rpos, OutChunk) \in [1..OutChunk -> 0..OutSize - 1]
  BY <1>2, ReadsInside
<1>6. heard' \in Seq(Sample)
  BY <1>2, <1>5, PickTypes DEF ReadOutput
<1>7. Mail' /\ CreditsBalance' /\ InputsFit'
  BY <1>1, <1>4, MailStays, CreditsStay, InputsStay
<1>8. TypeOK'
  BY <1>1, <1>4, <1>6 DEF TypeOK
<1>9. Seen'
  BY <1>1, <1>4 DEF Seen, threads
<1>10. Positions'
  <2>1. SUFFICES ASSUME threads
                 PROVE  Ahead(OutSize, output'.rpos,
                              output.avail - OutChunk + WriteUncounted, output.wpos)
    <3>1. /\ ReadUncounted' = OutChunk
          /\ UNCHANGED <<WriteUncounted, TakeUncounted, PutUncounted>>
      BY <1>1 DEF ReadUncounted, WriteUncounted, TakeUncounted, PutUncounted
    <3> QED BY <1>1, <1>4, <3>1 DEF Positions, threads
  <2>2. /\ WriteUncounted \in Nat /\ output.avail + WriteUncounted \in 0..OutSize
        /\ output.wpos \in 0..OutSize - 1 /\ OutChunk \in 0..output.avail + WriteUncounted
    BY <1>2, <2>1, NumbersOfState DEF Seen, WriteUncounted
  <2>3. Ahead(OutSize, output.rpos, output.avail + WriteUncounted, output.wpos)
    <3>1. ReadUncounted = 0
      BY <1>1 DEF ReadUncounted
    <3>2. output.avail - 0 + WriteUncounted = output.avail + WriteUncounted
      BY <1>2, <2>2
    <3> QED BY <2>1, <3>1, <3>2 DEF Positions
  <2>4. Ahead(OutSize, output'.rpos, output.avail + WriteUncounted - OutChunk, output.wpos)
    <3>1. PICK d \in 0..OutSize : d = output.avail + WriteUncounted
      BY <2>2
    <3>2. OutChunk \in 0..d /\ Ahead(OutSize, output.rpos, d, output.wpos)
      BY <2>2, <2>3, <3>1
    <3>3. Ahead(OutSize, ReadPos(OutSize, output.rpos, OutChunk), d - OutChunk, output.wpos)
      BY <1>2, <2>2, <3>2, AheadAfterRead
    <3>4. d - OutChunk = output.avail + WriteUncounted - OutChunk
      <4>1. output.avail \in Int /\ WriteUncounted \in Int /\ OutChunk \in Int /\ d \in Int
        BY <1>2, <2>2
      <4> QED BY ONLY <3>1, <4>1
    <3>5. output'.rpos = ReadPos(OutSize, output.rpos, OutChunk)
      BY <1>4
    <3> QED BY <3>3, <3>4, <3>5, Zenon
  <2>5. output.avail + WriteUncounted - OutChunk = output.avail - OutChunk + WriteUncounted
    BY <1>2, <2>2
  <2> QED BY <2>4, <2>5
<1> QED BY <1>7, <1>8, <1>9, <1>10

\* One read more to answer is worth the block that was read.
LEMMA AddOutputKeeps ==
  ASSUME AudioInv, AddOutput
  PROVE  AudioInv'
<1> USE DEF AudioInv
<1>1. /\ UNCHANGED <<mode, input, phase, block, engine, main, toWorklet, inputs, fresh, heard, captured>>
      /\ step = "out_add" /\ step' = "idle" /\ phase = "started"
      /\ threads => reads' = reads
      /\ ~threads => reads' = reads + 1
  BY DEF AddOutput, Seen
<1>2. output.avail \in OutChunk..OutSize /\ OutChunk \in Nat /\ OutSize \in Nat
  BY <1>1, NumbersOfState, SizesAreNumbers DEF Seen
<1>3. /\ output' \in Ring(OutSize) /\ output'.avail = output.avail - OutChunk
      /\ output'.wpos = output.wpos /\ output'.rpos = output.rpos
  <2>1. output.avail - OutChunk \in 0..OutSize
    BY <1>2
  <2> QED BY <2>1 DEF AddOutput, TypeOK, Ring
<1>4. reads \in Nat /\ reads' \in Nat
  BY <1>1 DEF TypeOK
<1>5. TypeOK'
  BY <1>1, <1>3, <1>4 DEF TypeOK
<1>6. Mail' /\ InputsFit'
  BY <1>1, InputsStay DEF Mail, threads
<1>7. Seen'
  BY <1>1, <1>2, <1>3, NumbersOfState DEF Seen, threads
<1>8. Positions'
  <2>1. ReadUncounted = OutChunk /\ ReadUncounted' = 0 /\ UNCHANGED <<WriteUncounted, TakeUncounted, PutUncounted>>
    BY <1>1 DEF ReadUncounted, WriteUncounted, TakeUncounted, PutUncounted
  <2>2. output'.avail - ReadUncounted' = output.avail - ReadUncounted
    BY <1>2, <1>3, <2>1
  <2> QED BY <1>1, <1>3, <2>1, <2>2 DEF Positions, threads
<1>9. CreditsBalance'
  <2>1. SUFFICES ASSUME ~threads
                 PROVE  output.avail - OutChunk + OutChunk * (ChunksSent + (reads + 1)) = OutSize
    BY <1>1, <1>3 DEF CreditsBalance, ChunksSent, DataLeft, threads
  <2>2. ChunksSent \in Nat /\ output.avail + OutChunk * (ChunksSent + reads) = OutSize
    BY <1>1, <2>1, ChunksAreMail DEF CreditsBalance, DataLeft
  <2>3. OutChunk * (ChunksSent + (reads + 1)) = OutChunk * (ChunksSent + reads) + OutChunk
    BY <1>2, <1>4, <2>2
  <2>4. OutChunk * (ChunksSent + reads) \in Int
    BY <1>2, <1>4, <2>2
  <2> QED BY <1>2, <2>2, <2>3, <2>4
<1> QED BY <1>5, <1>6, <1>7, <1>8, <1>9

-----------------------------------------------------------------------------
(* parse_message() keeps the invariant.                                        *)

LEMMA HeadOfMail ==
  ASSUME TypeOK, NEW cmd, Receive(cmd)
  PROVE  /\ Len(toWorklet) \in Nat \ {0} /\ toWorklet[1].cmd = cmd
         /\ toWorklet' \in Seq([cmd : {"start", "chunk", "stop"}, data : Seq(Sample)])
         /\ Len(toWorklet') = Len(toWorklet) - 1
         /\ \A k \in 1..Len(toWorklet') :
              k + 1 \in 1..Len(toWorklet) /\ toWorklet'[k] = toWorklet[k + 1]
         /\ toWorklet' = <<>> <=> Len(toWorklet) = 1
<1>1. /\ toWorklet \in Seq([cmd : {"start", "chunk", "stop"}, data : Seq(Sample)])
      /\ toWorklet # <<>> /\ toWorklet' = Tail(toWorklet) /\ Head(toWorklet).cmd = cmd
  BY DEF TypeOK, Receive
<1>2. Len(toWorklet) \in Nat \ {0} /\ toWorklet[1].cmd = cmd
  BY <1>1
<1>3. /\ toWorklet' \in Seq([cmd : {"start", "chunk", "stop"}, data : Seq(Sample)])
      /\ Len(toWorklet') = Len(toWorklet) - 1
      /\ \A k \in 1..Len(toWorklet') : toWorklet'[k] = toWorklet[k + 1]
  BY <1>1, <1>2
<1>4. \A k \in 1..Len(toWorklet') : k + 1 \in 1..Len(toWorklet)
  BY <1>2, <1>3
<1>5. toWorklet' = <<>> <=> Len(toWorklet') = 0
  BY <1>3, EmptySeq
<1> QED BY <1>2, <1>3, <1>4, <1>5

\* Receiving leaves the side of process and of the engine alone.
LEMMA ReceiveLeaves ==
  ASSUME AudioInv, NEW cmd, Receive(cmd)
  PROVE  /\ UNCHANGED <<mode, input, step, block, engine, main, reads, inputs, fresh, heard, captured>>
         /\ step = "idle" /\ InputsFit'
         /\ (output' \in Ring(OutSize) /\ phase' \in {"created", "started", "stopped"} => TypeOK')
         /\ (output' = output => Seen' /\ Positions')
         /\ (~threads => Seen' /\ Positions')
<1> USE DEF AudioInv
<1>1. /\ UNCHANGED <<mode, input, step, block, engine, main, reads, inputs, fresh, heard, captured>>
      /\ step = "idle"
  BY DEF Receive
<1>2. InputsFit'
  BY <1>1, InputsStay
<1>3. output' \in Ring(OutSize) /\ phase' \in {"created", "started", "stopped"} => TypeOK'
  BY <1>1, HeadOfMail DEF TypeOK
<1>4. output' = output => Seen' /\ Positions'
  BY <1>1 DEF Seen, Positions, ReadUncounted, WriteUncounted, TakeUncounted, PutUncounted, threads
<1>5. ~threads => Seen' /\ Positions'
  BY <1>1 DEF Seen, Positions, threads
<1> QED BY <1>1, <1>2, <1>3, <1>4, <1>5

LEMMA StartsOnce ==
  ASSUME AudioInv, ReceiveStart
  PROVE  phase = "created"
<1> USE DEF AudioInv
<1>1. Receive("start")
  BY DEF ReceiveStart
<1>2. Len(toWorklet) \in Nat \ {0} /\ toWorklet[1].cmd = "start"
  BY <1>1, HeadOfMail
<1>4. phase = "created"
  <2>1. ASSUME phase = "started"
        PROVE  FALSE
    <3>1. toWorklet[1] = Stop \/ toWorklet[1].cmd = "chunk"
      BY <1>2, <2>1 DEF Mail
    <3> QED BY <1>2, <3>1 DEF Stop
  <2>2. ASSUME phase = "stopped"
        PROVE  FALSE
    BY <1>2, <2>2 DEF Mail
  <2> QED BY <2>1, <2>2 DEF TypeOK
<1> QED BY <1>4

LEMMA StartKeeps ==
  ASSUME AudioInv, ReceiveStart
  PROVE  AudioInv'
<1> USE DEF AudioInv
<1>1. Receive("start") /\ phase' = "started"
  BY DEF ReceiveStart
<1>2. /\ Len(toWorklet) \in Nat \ {0} /\ toWorklet[1].cmd = "start"
      /\ Len(toWorklet') = Len(toWorklet) - 1
      /\ \A k \in 1..Len(toWorklet') : toWorklet'[k] = toWorklet[k + 1]
      /\ toWorklet' = <<>> <=> Len(toWorklet) = 1
  BY <1>1, HeadOfMail
<1>3. UNCHANGED <<mode, input, step, block, engine, main, reads, inputs, fresh, heard, captured>>
  BY <1>1, ReceiveLeaves
<1>4. phase = "created"
  BY StartsOnce
<1>5. \/ main = "open" /\ toWorklet = <<Start>>
      \/ main = "closed" /\ toWorklet = <<Start, Stop>>
  <2>1. main # "idle"
    BY <1>2, <1>4 DEF Mail
  <2> QED BY <1>4, <2>1 DEF Mail, TypeOK
<1>11. /\ main = "open" => Len(toWorklet') = 0 /\ toWorklet' = <<>>
       /\ main = "closed" => Len(toWorklet') = 1 /\ toWorklet'[1] = Stop /\ toWorklet' # <<>>
  <2>1. ASSUME main = "open"
        PROVE  Len(toWorklet') = 0 /\ toWorklet' = <<>>
    <3>1. Len(toWorklet) = 1
      BY <1>5, <2>1
    <3> QED BY <1>2, <3>1
  <2>2. ASSUME main = "closed"
        PROVE  Len(toWorklet') = 1 /\ toWorklet'[1] = Stop /\ toWorklet' # <<>>
    <3>1. Len(toWorklet) = 2 /\ toWorklet[2] = Stop
      BY <1>5, <2>2
    <3>2. Len(toWorklet') = 1
      BY <1>2, <3>1
    <3>3. 1 \in 1..Len(toWorklet') /\ 1 + 1 = 2
      BY <3>2
    <3> QED BY <1>2, <3>1, <3>2, <3>3
  <2> QED BY <2>1, <2>2
<1>6. /\ reads = 0 /\ output' \in Ring(OutSize)
      /\ ~threads => output'.avail = OutSize
  <2>1. CASE threads
    BY <1>4, <2>1 DEF Mail, ReceiveStart, TypeOK
  <2>2. CASE ~threads
    <3>1. output' = NewRing(OutSize, Silence, OutSize)
      BY <2>2 DEF ReceiveStart
    <3>2. NewRing(OutSize, Silence, OutSize) \in Ring(OutSize)
      BY SizesAreNumbers DEF NewRing, Ring, Silence, Sample
    <3>3. NewRing(OutSize, Silence, OutSize).avail = OutSize
      BY DEF NewRing
    <3> QED BY <1>4, <3>1, <3>2, <3>3 DEF Mail
  <2> QED BY <2>1, <2>2
<1>7. TypeOK' /\ InputsFit'
  BY <1>1, <1>6, ReceiveLeaves
<1>8. Seen' /\ Positions'
  <2>1. CASE threads
    <3>1. output' = output
      BY <2>1 DEF ReceiveStart
    <3> QED BY <1>1, <3>1, ReceiveLeaves
  <2>2. CASE ~threads
    BY <1>1, <2>2, ReceiveLeaves
  <2> QED BY <2>1, <2>2
<1>9. Mail'
  <2>1. CASE main = "open"
    <3>1. toWorklet' = <<>>
      BY <1>11, <2>1
    <3> QED BY <1>1, <1>3, <1>6, <2>1, <3>1 DEF Mail
  <2>2. CASE main = "closed"
    <3>1. Len(toWorklet') = 1 /\ toWorklet'[1] = Stop /\ toWorklet' # <<>>
      BY <1>11, <2>2
    <3> QED BY <1>1, <1>3, <1>6, <2>2, <3>1 DEF Mail
  <2> QED BY <1>5, <2>1, <2>2
<1>10. CreditsBalance'
  <2>1. SUFFICES ASSUME ~threads
                 PROVE  output'.avail + OutChunk * (ChunksSent' + reads') = OutSize
    BY <1>3 DEF CreditsBalance, DataLeft, threads
  <2>2. Len(toWorklet') = 0 \/ (Len(toWorklet') = 1 /\ toWorklet'[1] = Stop)
    BY <1>5, <1>11
  <2>3. ChunksSent' = 0
    <3>1. \A k \in 1..Len(toWorklet') : toWorklet'[k].cmd = "chunk" <=> k <= 0
      BY <2>2 DEF Stop
    <3>2. DOMAIN toWorklet' = 1..Len(toWorklet') /\ Len(toWorklet') \in Nat
      BY <1>7 DEF TypeOK
    <3> QED BY <3>1, <3>2, ChunksCounted DEF ChunksSent
  <2> QED BY <1>3, <1>6, <2>1, <2>3, SizesAreNumbers
<1> QED BY <1>7, <1>8, <1>9, <1>10

\* A chunk that arrives takes the room its own credit stands for.
\* A chunk comes without threads only, finds the processor started, and is one block.
LEMMA ChunkArrives ==
  ASSUME AudioInv, ReceiveChunk
  PROVE  /\ phase = "started" /\ ~threads /\ ~(main = "closed" /\ Len(toWorklet) = 1)
         /\ Head(toWorklet).data \in Seq(Sample) /\ Len(Head(toWorklet).data) = OutChunk
<1> USE DEF AudioInv
<1> DEFINE data == Head(toWorklet).data
<1>1. Receive("chunk")
  BY DEF ReceiveChunk
<1>2. /\ Len(toWorklet) \in Nat \ {0} /\ toWorklet[1].cmd = "chunk"
  BY <1>1, HeadOfMail
<1>4. phase = "started"
  <2>1. ASSUME phase = "created"
        PROVE  FALSE
    <3>1. toWorklet = <<>> \/ toWorklet = <<Start>> \/ toWorklet = <<Start, Stop>>
      BY <2>1 DEF Mail, TypeOK
    <3> QED BY <1>2, <3>1 DEF Start
  <2>2. ASSUME phase = "stopped"
        PROVE  FALSE
    BY <1>2, <2>2 DEF Mail
  <2> QED BY <2>1, <2>2 DEF TypeOK
<1>5. ~threads /\ Len(data) = OutChunk /\ data \in Seq(Sample)
      /\ ~(main = "closed" /\ Len(toWorklet) = 1)
  <2>1. 1 \in 1..Len(toWorklet) /\ Head(toWorklet) = toWorklet[1]
    BY <1>1, <1>2 DEF Receive, TypeOK
  <2>2. ~threads /\ Len(toWorklet[1].data) = OutChunk /\ ~(main = "closed" /\ Len(toWorklet) = 1)
    BY <1>2, <1>4, <2>1 DEF Mail, Stop
  <2>3. toWorklet[1] \in [cmd : {"start", "chunk", "stop"}, data : Seq(Sample)]
    <3>1. toWorklet \in Seq([cmd : {"start", "chunk", "stop"}, data : Seq(Sample)])
      BY DEF TypeOK
    <3> QED BY <2>1, <3>1, ElementOfSeq
  <2> QED BY <2>1, <2>2, <2>3
<1> QED BY <1>4, <1>5

LEMMA ChunkKeeps ==
  ASSUME AudioInv, ReceiveChunk
  PROVE  AudioInv'
<1> USE DEF AudioInv
<1> DEFINE data == Head(toWorklet).data
<1>1. Receive("chunk") /\ phase' = phase
  BY DEF ReceiveChunk
<1>2. /\ Len(toWorklet) \in Nat \ {0} /\ toWorklet[1].cmd = "chunk"
      /\ Len(toWorklet') = Len(toWorklet) - 1
      /\ \A k \in 1..Len(toWorklet') :
           k + 1 \in 1..Len(toWorklet) /\ toWorklet'[k] = toWorklet[k + 1]
      /\ toWorklet' = <<>> <=> Len(toWorklet) = 1
  BY <1>1, HeadOfMail
<1>3. UNCHANGED <<mode, input, step, block, engine, main, reads, inputs, fresh, heard, captured>>
  BY <1>1, ReceiveLeaves
<1>4. phase = "started"
  BY ChunkArrives
<1>5. ~threads /\ Len(data) = OutChunk /\ data \in Seq(Sample)
      /\ ~(main = "closed" /\ Len(toWorklet) = 1)
  BY ChunkArrives
<1>6. Mail'
  <2>1. main = "closed" => toWorklet' # <<>>
    BY <1>2, <1>5
  <2>2. ASSUME NEW k \in 1..Len(toWorklet')
        PROVE  \/ main = "closed" /\ k = Len(toWorklet') /\ toWorklet'[k] = Stop
               \/ /\ ~(main = "closed" /\ k = Len(toWorklet'))
                  /\ ~threads /\ toWorklet'[k].cmd = "chunk" /\ Len(toWorklet'[k].data) = OutChunk
    <3>1. k + 1 \in 1..Len(toWorklet) /\ toWorklet'[k] = toWorklet[k + 1]
          /\ (k = Len(toWorklet') <=> k + 1 = Len(toWorklet))
      BY <1>2
    <3> QED BY <1>4, <3>1 DEF Mail
  <2> QED BY <1>1, <1>3, <1>4, <2>1, <2>2 DEF Mail, threads
<1>7. toWorklet' \in Seq([cmd : {"start", "chunk", "stop"}, data : Seq(Sample)])
  BY <1>1, HeadOfMail
<1>8. ChunksSent = ChunksSent' + 1 /\ ChunksSent' \in Nat
  <2>1. Len(toWorklet) \in Nat /\ Len(toWorklet') \in Nat
        /\ DOMAIN toWorklet = 1..Len(toWorklet) /\ DOMAIN toWorklet' = 1..Len(toWorklet')
    BY <1>7 DEF TypeOK
  <2>2. ChunksSent = Sent /\ Sent \in Nat
    BY <1>4, <1>5, ChunksAreMail
  <2>3. \A k \in 1..Len(toWorklet') : toWorklet'[k].cmd = "chunk" <=> k <= Sent - 1
    <3> TAKE k \in 1..Len(toWorklet')
    <3>1. \/ main = "closed" /\ k = Len(toWorklet') /\ toWorklet'[k] = Stop
          \/ ~(main = "closed" /\ k = Len(toWorklet')) /\ toWorklet'[k].cmd = "chunk"
      BY <1>1, <1>3, <1>4, <1>6 DEF Mail
    <3>2. Stop.cmd # "chunk"
      BY DEF Stop
    <3>3. CASE main = "closed"
      <4>1. Sent - 1 = Len(toWorklet') - 1
        BY <1>2, <2>1, <3>3 DEF Sent
      <4>2. k = Len(toWorklet') \/ k <= Len(toWorklet') - 1
        <5>1. Len(toWorklet') \in Int /\ k \in Int /\ k <= Len(toWorklet')
          BY <2>1
        <5> QED BY <5>1
      <4>3. k = Len(toWorklet') => ~(k <= Len(toWorklet') - 1)
        BY <2>1
      <4>4. CASE k = Len(toWorklet')
        BY <3>1, <3>2, <3>3, <4>1, <4>3, <4>4
      <4>5. CASE k # Len(toWorklet')
        BY <3>1, <4>1, <4>2, <4>5
      <4> QED BY <4>4, <4>5
    <3>4. CASE main # "closed"
      <4>1. Sent - 1 = Len(toWorklet') /\ toWorklet'[k].cmd = "chunk"
        BY <1>2, <2>1, <3>1, <3>4 DEF Sent
      <4> QED BY <2>1, <4>1
    <3> QED BY <3>3, <3>4
  <2>4. Sent - 1 \in Nat /\ Sent - 1 <= Len(toWorklet')
    BY <1>2, <1>5, <2>1 DEF Sent
  <2>5. ChunksSent' = Sent - 1
    BY <2>1, <2>3, <2>4, ChunksCounted DEF ChunksSent
  <2> QED BY <2>2, <2>4, <2>5
<1>9. reads \in Nat /\ OutChunk \in 1..OutSize /\ OutSize \in Nat \ {0}
      /\ output.avail \in 0..OutSize /\ output.wpos \in 0..OutSize - 1
      /\ output.buffer \in [0..OutSize - 1 -> Sample]
  BY NumbersOfState, SizesAreNumbers DEF TypeOK
<1>10. /\ output.avail + OutChunk + OutChunk * (ChunksSent' + reads) = OutSize
       /\ OutChunk * (ChunksSent' + reads) \in Nat
  <2>1. output.avail + OutChunk * (ChunksSent + reads) = OutSize
    BY <1>4, <1>5 DEF CreditsBalance, DataLeft
  <2>2. OutChunk * (ChunksSent + reads) = OutChunk + OutChunk * (ChunksSent' + reads)
    BY <1>8, <1>9
  <2>3. OutChunk * (ChunksSent' + reads) \in Nat
    <3>1. \A m, n \in Nat : m * n \in Nat
      OBVIOUS
    <3>2. OutChunk \in Nat
      BY <1>9
    <3>3. ChunksSent' + reads \in Nat
      <4>1. ChunksSent' \in Nat /\ reads \in Nat
        BY <1>8, <1>9
      <4>2. \A m, n \in Nat : m + n \in Nat
        OBVIOUS
      <4> QED BY <4>1, <4>2, Zenon
    <3> QED BY <3>1, <3>2, <3>3
  <2> QED BY <1>9, <2>1, <2>2, <2>3
<1>11. output.avail + OutChunk \in 0..OutSize
  BY <1>9, <1>10
<1>12. /\ output' \in Ring(OutSize) /\ output'.avail = output.avail + OutChunk
  <2>1. /\ OutChunk \in 0..OutSize /\ OutChunk \in Nat
        /\ output.wpos \in 0..OutSize /\ output.wpos # OutSize
    BY <1>9
  <2>2. WriteCells(OutSize, output.wpos, OutChunk) \in [1..OutChunk -> 0..OutSize - 1]
    BY <1>9, <2>1, WritesInside
  <2>3. Fill(output.buffer, WriteCells(OutSize, output.wpos, OutChunk), data)
          \in [0..OutSize - 1 -> Sample]
    <3>1. OutChunk <= Len(data)
      BY <1>5, <2>1
    <3> QED BY <1>5, <1>9, <2>1, <2>2, <3>1, FillTypes
  <2>4. WritePos(OutSize, output.wpos, OutChunk) \in 0..OutSize - 1
    BY <1>9, <2>1, PositionsInside
  <2>5. output' = [output EXCEPT
           !.buffer = Fill(@, WriteCells(OutSize, output.wpos, OutChunk), data),
           !.wpos = WritePos(OutSize, @, OutChunk),
           !.avail = @ + OutChunk]
    BY <1>5 DEF ReceiveChunk
  <2> QED BY <1>11, <2>3, <2>4, <2>5 DEF TypeOK, Ring
<1>13. TypeOK' /\ InputsFit' /\ Seen' /\ Positions'
  BY <1>1, <1>4, <1>5, <1>12, ReceiveLeaves
<1>14. CreditsBalance'
  BY <1>3, <1>10, <1>12 DEF CreditsBalance, DataLeft
<1> QED BY <1>6, <1>13, <1>14

LEMMA StopKeeps ==
  ASSUME AudioInv, ReceiveStop
  PROVE  AudioInv'
<1> USE DEF AudioInv
<1>1. Receive("stop") /\ phase' = "stopped" /\ output' = output
  BY DEF ReceiveStop
<1>2. Len(toWorklet) \in Nat \ {0} /\ toWorklet[1].cmd = "stop"
      /\ (toWorklet' = <<>> <=> Len(toWorklet) = 1)
  BY <1>1, HeadOfMail
<1>3. UNCHANGED <<mode, input, step, block, engine, main, reads, inputs, fresh, heard, captured>>
  BY <1>1, ReceiveLeaves
<1>4. phase = "started"
  <2>1. ASSUME phase = "created"
        PROVE  FALSE
    <3>1. toWorklet = <<>> \/ toWorklet = <<Start>> \/ toWorklet = <<Start, Stop>>
      BY <2>1 DEF Mail, TypeOK
    <3> QED BY <1>2, <3>1 DEF Start
  <2>2. ASSUME phase = "stopped"
        PROVE  FALSE
    BY <1>2, <2>2 DEF Mail
  <2> QED BY <2>1, <2>2 DEF TypeOK
<1>5. main = "closed" /\ Len(toWorklet) = 1 /\ toWorklet' = <<>>
  <2>1. 1 \in 1..Len(toWorklet) /\ toWorklet[1].cmd # "chunk"
    BY <1>2
  <2>2. main = "closed" /\ 1 = Len(toWorklet)
    BY <1>4, <2>1 DEF Mail
  <2> QED BY <1>2, <2>2
<1>6. Mail'
  BY <1>1, <1>3, <1>5 DEF Mail, threads
<1>7. TypeOK' /\ InputsFit' /\ Seen' /\ Positions'
  <2>1. output' \in Ring(OutSize)
    BY <1>1 DEF TypeOK
  <2> QED BY <1>1, <2>1, ReceiveLeaves
<1>8. CreditsBalance'
  <2>1. SUFFICES ASSUME ~threads
                 PROVE  output'.avail + OutChunk * (ChunksSent' + reads') = OutSize
    BY <1>3 DEF CreditsBalance, DataLeft, threads
  <2>2. ChunksSent = 0
    <3>1. Sent = 0
      BY <1>5 DEF Sent
    <3> QED BY <1>4, <2>1, <3>1, ChunksAreMail
  <2>3. ChunksSent' = 0
    <3>1. ~threads' /\ phase' = "stopped"
      BY <1>1, <1>3, <2>1 DEF threads
    <3>2. DOMAIN toWorklet' = 1..0
      BY <1>5
    <3> QED BY <3>2, ChunksCounted DEF ChunksSent
  <2> QED BY <1>1, <1>3, <1>4, <2>1, <2>2, <2>3 DEF CreditsBalance, DataLeft
<1> QED BY <1>6, <1>7, <1>8

-----------------------------------------------------------------------------
(* The engine's audio thread keeps the invariant.                              *)

LEMMA EngineLookKeeps ==
  ASSUME AudioInv, EngineLook
  PROVE  AudioInv'
<1> USE DEF AudioInv
<1>1. /\ UNCHANGED <<mode, output, input, phase, step, block, main, toWorklet, reads, inputs,
                     fresh, heard, captured>>
      /\ threads /\ engine.at = "wait"
      /\ engine' = [at |-> "capture", read |-> input.avail, write |-> OutSize - output.avail]
  BY DEF EngineLook, DataLeft, SpaceLeft
<1>2. /\ engine'.at = "capture" /\ engine'.read = input.avail /\ engine'.write = OutSize - output.avail
      /\ output.avail \in 0..OutSize /\ input.avail \in 0..InSize /\ OutSize \in Nat
      /\ OutSize - output.avail \in 0..OutSize /\ InSize \in Nat
  <2>1. output.avail \in 0..OutSize /\ input.avail \in 0..InSize /\ OutSize \in Nat /\ InSize \in Nat
    BY NumbersOfState, SizesAreNumbers
  <2> QED BY <1>1, <2>1
<1>3. Mail' /\ CreditsBalance' /\ InputsFit'
  BY <1>1, MailStays, CreditsStay, InputsStay
<1>4. TypeOK'
  BY <1>1, <1>2 DEF TypeOK
<1>5. Seen'
  BY <1>1, <1>2 DEF Seen, threads
<1>6. Positions'
  BY <1>1, <1>2 DEF Positions, ReadUncounted, WriteUncounted, TakeUncounted, PutUncounted, threads
<1> QED BY <1>3, <1>4, <1>5, <1>6

LEMMA EngineCaptureKeeps ==
  ASSUME AudioInv, EngineCapture
  PROVE  AudioInv'
<1> USE DEF AudioInv
<1>1. /\ UNCHANGED <<mode, output, phase, step, block, main, toWorklet, reads, inputs, fresh, heard>>
      /\ engine.at = "capture"
      /\ engine' = [engine EXCEPT !.at = "in_add"]
      /\ engine.read = 0 => UNCHANGED <<input, captured>>
      /\ engine.read # 0 =>
           /\ captured' = Pick(input.buffer, ReadCells(InSize, input.rpos, engine.read))
           /\ input' = [input EXCEPT !.rpos = ReadPos(InSize, @, engine.read)]
  BY DEF EngineCapture
<1>2. /\ engine'.at = "in_add" /\ engine'.read = engine.read /\ engine'.write = engine.write
      /\ engine' \in [at : {"wait", "capture", "in_add", "fill", "out_add"},
                      read : 0..InSize, write : 0..OutSize]
  BY <1>1 DEF TypeOK
<1>3. threads
  BY <1>1 DEF Seen, Waiting
<1>4. /\ engine.read \in Nat /\ engine.read \in 0..InSize /\ engine.read \in 0..input.avail
      /\ InSize \in Nat \ {0} /\ input.rpos \in 0..InSize /\ input.wpos \in 0..InSize - 1
      /\ input.avail \in 0..InSize /\ input.buffer \in [0..InSize - 1 -> Sample]
  BY <1>3, NumbersOfState, SizesAreNumbers DEF Seen
<1>5. /\ input' \in Ring(InSize) /\ captured' \in Seq(Sample)
      /\ input'.avail = input.avail /\ input'.wpos = input.wpos
  <2>1. CASE engine.read = 0
    BY <1>1, <2>1 DEF TypeOK
  <2>2. CASE engine.read # 0
    <3>1. ReadCells(InSize, input.rpos, engine.read) \in [1..engine.read -> 0..InSize - 1]
      BY <1>4, ReadsInside
    <3>2. captured' \in Seq(Sample)
      BY <1>1, <1>4, <2>2, <3>1, PickTypes
    <3>3. ReadPos(InSize, input.rpos, engine.read) \in 0..InSize
      BY <1>4, PositionsInside
    <3>4. /\ input' \in Ring(InSize)
          /\ input'.avail = input.avail /\ input'.wpos = input.wpos
      BY <1>1, <2>2, <3>3 DEF TypeOK, Ring
    <3> QED BY <3>2, <3>4
  <2> QED BY <2>1, <2>2
<1>6. Mail' /\ CreditsBalance' /\ InputsFit'
  BY <1>1, MailStays, CreditsStay, InputsStay
<1>7. TypeOK'
  BY <1>1, <1>2, <1>5 DEF TypeOK
<1>8. Seen'
  BY <1>1, <1>2, <1>3, <1>5 DEF Seen, threads
<1>9. Positions'
  <2>1. PutUncounted \in Nat /\ input.avail + PutUncounted \in 0..InSize
    BY <1>4, NumbersOfState, SizesAreNumbers DEF PutUncounted, Seen
  <2>2. Ahead(InSize, input.rpos, input.avail + PutUncounted, input.wpos)
    <3>1. TakeUncounted = 0 /\ input.avail - 0 + PutUncounted = input.avail + PutUncounted
      BY <1>1, <1>4, <2>1 DEF TakeUncounted
    <3> QED BY <1>3, <3>1 DEF Positions
  <2>3. Ahead(InSize, input'.rpos, input.avail - engine.read + PutUncounted, input.wpos)
    <3>1. input.avail + PutUncounted - engine.read = input.avail - engine.read + PutUncounted
      BY <1>4, <2>1
    <3>2. CASE engine.read = 0
      <4>1. input'.rpos = input.rpos /\ input.avail - 0 + PutUncounted = input.avail + PutUncounted
        BY <1>1, <1>4, <2>1, <3>2
      <4> QED BY <2>2, <3>2, <4>1
    <3>3. CASE engine.read # 0
      <4>1. input'.rpos = ReadPos(InSize, input.rpos, engine.read)
        BY <1>1, <3>3 DEF TypeOK, Ring
      <4>2. engine.read \in 0..input.avail + PutUncounted
        BY <1>4, <2>1
      <4>3. Ahead(InSize, ReadPos(InSize, input.rpos, engine.read),
                  input.avail + PutUncounted - engine.read, input.wpos)
        <5>1. PICK total \in 0..InSize : total = input.avail + PutUncounted
          BY <2>1
        <5>2. Ahead(InSize, input.rpos, total, input.wpos) /\ engine.read \in 0..total
          BY <2>2, <4>2, <5>1
        <5>3. Ahead(InSize, ReadPos(InSize, input.rpos, engine.read), total - engine.read, input.wpos)
          BY <1>4, <5>2, AheadAfterRead
        <5>4. PutUncounted \in Int /\ input.avail \in Int /\ engine.read \in Int
          BY <1>4, <2>1
        <5> QED BY <5>1, <5>3, <5>4
      <4> QED BY <3>1, <4>1, <4>3
    <3> QED BY <3>2, <3>3
  <2>4. TakeUncounted' = engine.read
    BY <1>2 DEF TakeUncounted
  <2> QED BY <1>1, <1>2, <1>3, <1>5, <2>3 DEF Positions, PutUncounted, TakeUncounted, ReadUncounted,
                                             WriteUncounted, threads
<1> QED BY <1>6, <1>7, <1>8, <1>9

LEMMA EngineCapturedKeeps ==
  ASSUME AudioInv, EngineCaptured
  PROVE  AudioInv'
<1> USE DEF AudioInv
<1>1. /\ UNCHANGED <<mode, output, phase, step, block, main, toWorklet, reads, inputs, fresh, heard, captured>>
      /\ engine.at = "in_add"
      /\ input' = [input EXCEPT !.avail = @ - engine.read]
      /\ engine' = [engine EXCEPT !.at = "fill", !.read = 0]
  BY DEF EngineCaptured
<1>2. threads
  BY <1>1 DEF Seen, Waiting
<1>3. /\ engine.read \in 0..input.avail /\ input.avail \in 0..InSize /\ InSize \in Nat
      /\ input.avail - engine.read \in 0..InSize
  <2>1. /\ engine.read \in 0..InSize /\ engine.read <= input.avail
        /\ input.avail \in 0..InSize /\ InSize \in Nat
    BY <1>2, NumbersOfState, SizesAreNumbers DEF Seen
  <2> QED BY <2>1
<1>4. /\ engine'.at = "fill" /\ engine'.read = 0 /\ engine'.write = engine.write
      /\ engine' \in [at : {"wait", "capture", "in_add", "fill", "out_add"},
                      read : 0..InSize, write : 0..OutSize]
  <2>1. 0 \in 0..InSize
    BY <1>3
  <2> QED BY <1>1, <2>1 DEF TypeOK
<1>5. /\ input' \in Ring(InSize) /\ input'.avail = input.avail - engine.read
      /\ input'.rpos = input.rpos /\ input'.wpos = input.wpos
  BY <1>1, <1>3 DEF TypeOK, Ring
<1>6. Mail' /\ CreditsBalance' /\ InputsFit'
  BY <1>1, MailStays, CreditsStay, InputsStay
<1>7. TypeOK'
  BY <1>1, <1>4, <1>5 DEF TypeOK
<1>8. Seen'
  <2>1. \A n \in Int : input.avail + n <= InSize => input.avail - engine.read + n <= InSize
    BY <1>3
  <2>2. step \in {"in_write", "in_add"} => input.avail - engine.read + block <= InSize
    BY <2>1, NumbersOfState DEF Seen
  <2>3. output.avail + engine.write <= OutSize /\ 0 <= input.avail - engine.read
    BY <1>2, <1>3 DEF Seen
  <2> QED BY <1>1, <1>2, <1>4, <1>5, <2>2, <2>3 DEF Seen, threads
<1>9. Positions'
  <2>1. input.avail - engine.read - 0 = input.avail - engine.read
    BY <1>3
  <2> QED BY <1>1, <1>2, <1>4, <1>5, <2>1 DEF Positions, PutUncounted, TakeUncounted, ReadUncounted,
                                             WriteUncounted, threads
<1> QED BY <1>6, <1>7, <1>8, <1>9

LEMMA EngineFillKeeps ==
  ASSUME AudioInv, EngineFill
  PROVE  AudioInv'
<1> USE DEF AudioInv
<1>1. /\ UNCHANGED <<mode, input, phase, step, block, main, toWorklet, reads, inputs, heard, captured>>
      /\ engine.at = "fill"
      /\ engine' = [engine EXCEPT !.at = "out_add"]
      /\ fresh' = [fresh EXCEPT !.out = MadeAfter(@, engine.write)]
  BY DEF EngineFill
<1>2. threads
  BY <1>1 DEF Seen, Waiting
<1>3. /\ engine'.at = "out_add" /\ engine'.read = engine.read /\ engine'.write = engine.write
      /\ engine' \in [at : {"wait", "capture", "in_add", "fill", "out_add"},
                      read : 0..InSize, write : 0..OutSize]
  BY <1>1 DEF TypeOK
<1>4. /\ engine.write \in Nat /\ engine.write \in 0..OutSize /\ output.avail \in 0..OutSize
      /\ output.avail + engine.write <= OutSize /\ OutSize \in Nat \ {0}
      /\ output.rpos \in 0..OutSize /\ output.wpos \in 0..OutSize - 1 /\ output.wpos \in 0..OutSize
      /\ output.wpos # OutSize /\ output.buffer \in [0..OutSize - 1 -> Sample]
      /\ fresh.out \in 0..Ids - 1
  BY <1>2, NumbersOfState, SizesAreNumbers DEF Seen
<1>5. /\ Made(fresh.out, engine.write) \in Seq(Sample)
      /\ Len(Made(fresh.out, engine.write)) = engine.write
      /\ MadeAfter(fresh.out, engine.write) \in 0..Ids - 1
  BY <1>4, MadeTypes
<1>6. Fill(output.buffer, WriteCells(OutSize, output.wpos, engine.write), Made(fresh.out, engine.write))
        \in [0..OutSize - 1 -> Sample]
  <2>1. WriteCells(OutSize, output.wpos, engine.write) \in [1..engine.write -> 0..OutSize - 1]
    BY <1>4, WritesInside
  <2>2. engine.write <= Len(Made(fresh.out, engine.write))
    BY <1>4, <1>5
  <2> QED BY <1>4, <1>5, <2>1, <2>2, FillTypes
<1>7. WritePos(OutSize, output.wpos, engine.write) \in 0..OutSize - 1
  BY <1>4, PositionsInside
<1>8. /\ output' \in Ring(OutSize) /\ output'.avail = output.avail /\ output'.rpos = output.rpos
      /\ output'.wpos = WritePos(OutSize, output.wpos, engine.write)
  BY <1>6, <1>7 DEF EngineFill, TypeOK, Ring
<1>9. Mail' /\ CreditsBalance' /\ InputsFit'
  BY <1>1, <1>8, MailStays, CreditsStay, InputsStay
<1>10. TypeOK'
  <2>1. fresh' \in [out : 0..Ids - 1, in : 0..Ids - 1]
    BY <1>1, <1>5 DEF TypeOK
  <2> QED BY <1>1, <1>3, <1>8, <2>1 DEF TypeOK
<1>11. Seen'
  BY <1>1, <1>2, <1>3, <1>8 DEF Seen, threads
<1>12. Positions'
  <2>1. ReadUncounted \in Nat /\ output.avail - ReadUncounted \in 0..OutSize
    BY <1>4, SizesAreNumbers DEF Seen, ReadUncounted
  <2>2. Ahead(OutSize, output.rpos, output.avail - ReadUncounted, output.wpos)
    <3>1. WriteUncounted = 0 /\ output.avail - ReadUncounted + 0 = output.avail - ReadUncounted
      BY <1>1, <1>4, <2>1 DEF WriteUncounted
    <3> QED BY <1>2, <3>1 DEF Positions
  <2>3. output.avail - ReadUncounted + engine.write <= OutSize
    BY <1>4, <2>1
  <2>4. Ahead(OutSize, output.rpos, output.avail - ReadUncounted + engine.write,
              WritePos(OutSize, output.wpos, engine.write))
    BY <1>4, <2>1, <2>2, <2>3, AheadAfterWrite
  <2> QED BY <1>1, <1>2, <1>3, <1>8, <2>4 DEF Positions, PutUncounted, TakeUncounted, ReadUncounted,
                                             WriteUncounted, threads
<1> QED BY <1>9, <1>10, <1>11, <1>12

LEMMA EngineFilledKeeps ==
  ASSUME AudioInv, EngineFilled
  PROVE  AudioInv'
<1> USE DEF AudioInv
<1>1. /\ UNCHANGED <<mode, input, phase, step, block, main, toWorklet, reads, inputs, fresh, heard, captured>>
      /\ engine.at = "out_add" /\ engine' = Waiting
      /\ output' = [output EXCEPT !.avail = @ + engine.write]
  BY DEF EngineFilled
<1>2. threads
  BY <1>1 DEF Seen, Waiting
<1>3. /\ engine.write \in 0..OutSize /\ output.avail \in 0..OutSize /\ OutSize \in Nat \ {0}
      /\ output.avail + engine.write \in 0..OutSize /\ engine.read = 0
  <2>1. /\ engine.write \in 0..OutSize /\ output.avail \in 0..OutSize /\ OutSize \in Nat \ {0}
        /\ output.avail + engine.write <= OutSize /\ engine.read = 0
    BY <1>1, <1>2, NumbersOfState, SizesAreNumbers DEF Seen
  <2> QED BY <2>1
<1>4. /\ engine'.at = "wait" /\ engine'.read = 0 /\ engine'.write = 0
      /\ engine' \in [at : {"wait", "capture", "in_add", "fill", "out_add"},
                      read : 0..InSize, write : 0..OutSize]
  BY <1>1, SizesAreNumbers DEF Waiting
<1>5. /\ output' \in Ring(OutSize) /\ output'.avail = output.avail + engine.write
      /\ output'.rpos = output.rpos /\ output'.wpos = output.wpos
  BY <1>1, <1>3 DEF TypeOK, Ring
<1>6. Mail' /\ CreditsBalance' /\ InputsFit'
  BY <1>1, <1>2, InputsStay DEF Mail, CreditsBalance, threads
<1>7. TypeOK'
  BY <1>1, <1>4, <1>5 DEF TypeOK
<1>8. Seen'
  <2>1. output.avail >= OutChunk => output.avail + engine.write >= OutChunk
    BY <1>3, SizesAreNumbers
  <2>2. 0 <= input.avail /\ output.avail + engine.write + 0 <= OutSize
    BY <1>3, NumbersOfState, SizesAreNumbers
  <2>3. output'.avail + engine'.write <= OutSize /\ engine'.read <= input'.avail
    BY <1>1, <1>4, <1>5, <2>2
  <2> QED BY <1>1, <1>2, <1>4, <1>5, <2>1, <2>3 DEF Seen, threads
<1>9. Positions'
  <2>1. ReadUncounted \in Int
    BY SizesAreNumbers DEF ReadUncounted
  <2>2. Ahead(OutSize, output.rpos, output.avail - ReadUncounted + engine.write, output.wpos)
    BY <1>1, <1>2 DEF Positions, WriteUncounted
  <2>3. /\ output.avail \in Int /\ engine.write \in Int /\ OutChunk \in Int /\ OutSize \in Int
        /\ output'.rpos = output.rpos /\ output'.wpos = output.wpos
        /\ output.rpos \in Int /\ output.wpos \in Int /\ output'.avail = output.avail + engine.write
    <3>1. output.rpos \in 0..OutSize /\ output.wpos \in 0..OutSize - 1 /\ OutChunk \in 1..OutSize
      BY NumbersOfState, SizesAreNumbers
    <3> QED BY <1>3, <1>5, <3>1
  <2>4. CASE step = "out_add"
    BY <1>1, <1>2, <1>4, <2>1, <2>2, <2>3, <2>4 DEF Positions, PutUncounted, TakeUncounted,
       ReadUncounted, WriteUncounted, threads, Ahead
  <2>5. CASE step # "out_add"
    BY <1>1, <1>2, <1>4, <2>1, <2>2, <2>3, <2>5 DEF Positions, PutUncounted, TakeUncounted,
       ReadUncounted, WriteUncounted, threads, Ahead
  <2> QED BY <2>4, <2>5
<1> QED BY <1>6, <1>7, <1>8, <1>9

-----------------------------------------------------------------------------
(* The page's main thread keeps the invariant.                                 *)

LEMMA MainLeaves ==
  ASSUME Seen, Positions,
         UNCHANGED <<mode, output, phase, step, block, engine>>,
         input' = input \/ ~threads
  PROVE  Seen' /\ Positions'
<1>1. CASE input' = input
  BY <1>1 DEF Seen, Positions, ReadUncounted, WriteUncounted, TakeUncounted, PutUncounted, threads
<1>2. CASE ~threads
  BY <1>2 DEF Seen, Positions, threads
<1> QED BY <1>1, <1>2

\* A message more in the mail.
LEMMA MailGrows ==
  ASSUME TypeOK, NEW message \in [cmd : {"start", "chunk", "stop"}, data : Seq(Sample)],
         toWorklet' = Append(toWorklet, message)
  PROVE  /\ toWorklet' \in Seq([cmd : {"start", "chunk", "stop"}, data : Seq(Sample)])
         /\ Len(toWorklet) \in Nat /\ Len(toWorklet') = Len(toWorklet) + 1 /\ toWorklet' # <<>>
         /\ \A k \in 1..Len(toWorklet) : toWorklet'[k] = toWorklet[k]
         /\ toWorklet'[Len(toWorklet) + 1] = message
         /\ DOMAIN toWorklet = 1..Len(toWorklet) /\ DOMAIN toWorklet' = 1..Len(toWorklet')
         /\ \A k \in 1..Len(toWorklet') : k \in 1..Len(toWorklet) \/ k = Len(toWorklet) + 1
<1>1. toWorklet \in Seq([cmd : {"start", "chunk", "stop"}, data : Seq(Sample)])
  BY DEF TypeOK
<1>2. /\ toWorklet' \in Seq([cmd : {"start", "chunk", "stop"}, data : Seq(Sample)])
      /\ Len(toWorklet) \in Nat /\ Len(toWorklet') = Len(toWorklet) + 1
      /\ \A k \in 1..Len(toWorklet) : toWorklet'[k] = toWorklet[k]
      /\ toWorklet'[Len(toWorklet) + 1] = message
  BY <1>1, AppendProperties
<1>3. DOMAIN toWorklet = 1..Len(toWorklet) /\ DOMAIN toWorklet' = 1..Len(toWorklet')
  BY <1>1, <1>2
<1>4. \A k \in 1..Len(toWorklet') : k \in 1..Len(toWorklet) \/ k = Len(toWorklet) + 1
  BY <1>2
<1>5. toWorklet' # <<>>
  <2>1. Len(toWorklet') # 0
    BY <1>2
  <2> QED BY <2>1
<1> QED BY <1>2, <1>3, <1>4, <1>5

LEMMA OpenKeeps ==
  ASSUME AudioInv, Open
  PROVE  AudioInv'
<1> USE DEF AudioInv
<1>1. /\ UNCHANGED <<mode, output, input, phase, step, block, engine, reads, inputs, fresh, heard, captured>>
      /\ main = "idle" /\ main' = "open" /\ toWorklet' = Append(toWorklet, Start)
  BY DEF Open
<1>2. phase = "created" /\ toWorklet = <<>>
  BY <1>1 DEF Mail, TypeOK
<1>3. Start \in [cmd : {"start", "chunk", "stop"}, data : Seq(Sample)]
  BY DEF Start
<1>4. toWorklet' = <<Start>> /\ toWorklet' \in Seq([cmd : {"start", "chunk", "stop"}, data : Seq(Sample)])
  BY <1>1, <1>2, <1>3
<1>5. TypeOK'
  BY <1>1, <1>4 DEF TypeOK
<1>6. Mail'
  BY <1>1, <1>2, <1>4 DEF Mail, DataLeft, threads
<1>7. CreditsBalance'
  BY <1>1, <1>2 DEF CreditsBalance
<1> QED BY <1>1, <1>5, <1>6, <1>7, MainLeaves, InputsStay

LEMMA SendChunkKeeps ==
  ASSUME AudioInv, SendChunk
  PROVE  AudioInv'
<1> USE DEF AudioInv
<1> DEFINE message == Chunk(Made(fresh.out, OutChunk))
<1>1. /\ UNCHANGED <<mode, output, input, phase, step, block, engine, main, inputs, heard, captured>>
      /\ main = "open" /\ reads > 0 /\ reads' = reads - 1
      /\ toWorklet' = Append(toWorklet, message)
      /\ fresh' = [fresh EXCEPT !.out = MadeAfter(@, OutChunk)]
  BY DEF SendChunk
<1>2. reads \in Nat \ {0} /\ reads' \in Nat /\ OutChunk \in Nat /\ fresh.out \in 0..Ids - 1
  <2>1. reads \in Nat /\ OutChunk \in 1..OutSize /\ OutSize \in Nat /\ fresh.out \in 0..Ids - 1
    BY NumbersOfState, SizesAreNumbers DEF TypeOK
  <2> QED BY <1>1, <2>1
<1>3. phase = "started"
  <2>1. phase # "created"
    BY <1>2 DEF Mail
  <2>2. phase # "stopped"
    BY <1>1 DEF Mail
  <2> QED BY <2>1, <2>2 DEF TypeOK
<1>4. /\ Made(fresh.out, OutChunk) \in Seq(Sample) /\ Len(Made(fresh.out, OutChunk)) = OutChunk
      /\ MadeAfter(fresh.out, OutChunk) \in 0..Ids - 1
  BY <1>2, MadeTypes
<1>5. /\ message \in [cmd : {"start", "chunk", "stop"}, data : Seq(Sample)]
      /\ message.cmd = "chunk" /\ Len(message.data) = OutChunk
  BY <1>4 DEF Chunk
<1> HIDE DEF message
<1>6. /\ toWorklet' \in Seq([cmd : {"start", "chunk", "stop"}, data : Seq(Sample)])
      /\ Len(toWorklet) \in Nat /\ Len(toWorklet') = Len(toWorklet) + 1 /\ toWorklet' # <<>>
      /\ \A k \in 1..Len(toWorklet) : toWorklet'[k] = toWorklet[k]
      /\ toWorklet'[Len(toWorklet) + 1] = message
      /\ DOMAIN toWorklet = 1..Len(toWorklet) /\ DOMAIN toWorklet' = 1..Len(toWorklet')
      /\ \A k \in 1..Len(toWorklet') : k \in 1..Len(toWorklet) \/ k = Len(toWorklet) + 1
  BY <1>1, <1>5, MailGrows
<1>7. TypeOK'
  <2>1. fresh' \in [out : 0..Ids - 1, in : 0..Ids - 1]
    BY <1>1, <1>4 DEF TypeOK
  <2> QED BY <1>1, <1>2, <1>6, <2>1 DEF TypeOK
<1>8. ~threads /\ ~threads'
  BY <1>1, <1>2 DEF Mail, threads
<1>9. Mail'
  <2>1. ASSUME NEW k \in 1..Len(toWorklet')
        PROVE  toWorklet'[k].cmd = "chunk" /\ Len(toWorklet'[k].data) = OutChunk
    <3>1. CASE k \in 1..Len(toWorklet)
      <4>1. toWorklet[k].cmd = "chunk" /\ Len(toWorklet[k].data) = OutChunk
        BY <1>1, <1>3, <3>1 DEF Mail
      <4> QED BY <1>6, <3>1, <4>1
    <3>2. CASE k = Len(toWorklet) + 1
      BY <1>5, <1>6, <3>2
    <3> QED BY <1>6, <3>1, <3>2
  <2> QED BY <1>1, <1>3, <1>8, <2>1 DEF Mail
<1>10. Seen' /\ Positions' /\ InputsFit'
  BY <1>1, MainLeaves, InputsStay
<1>11. CreditsBalance'
  <2>1. ChunksSent = Len(toWorklet)
    BY <1>1, <1>3, <1>8, ChunksAreMail DEF Sent
  <2>2. ChunksSent' = Len(toWorklet')
    <3>1. \A k \in 1..Len(toWorklet') : toWorklet'[k].cmd = "chunk" <=> k <= Len(toWorklet')
      <4> SUFFICES ASSUME NEW k \in 1..Len(toWorklet')
                   PROVE  toWorklet'[k].cmd = "chunk"
        BY <1>6
      <4>1. CASE k \in 1..Len(toWorklet)
        <5>1. toWorklet[k].cmd = "chunk"
          BY <1>1, <1>3, <4>1 DEF Mail
        <5> QED BY <1>6, <4>1, <5>1
      <4>2. CASE k = Len(toWorklet) + 1
        BY <1>5, <1>6, <4>2
      <4> QED BY <1>6, <4>1, <4>2
    <3>2. Len(toWorklet') \in Nat /\ Len(toWorklet') <= Len(toWorklet')
      BY <1>6
    <3> QED BY <1>6, <3>1, <3>2, ChunksCounted DEF ChunksSent
  <2>3. ChunksSent' + reads' = ChunksSent + reads
    <3>1. Len(toWorklet) + 1 + (reads - 1) = Len(toWorklet) + reads
      BY <1>2, <1>6
    <3> QED BY <1>1, <1>6, <2>1, <2>2, <3>1
  <2> QED BY <1>1, <1>3, <1>8, <2>3 DEF CreditsBalance, DataLeft
<1> QED BY <1>7, <1>9, <1>10, <1>11

\* receive() writes the engine's own buffer, wherever the block lands in it.
LEMMA TakeInputKeeps ==
  ASSUME AudioInv, TakeInput
  PROVE  AudioInv'
<1> USE DEF AudioInv
<1> DEFINE buf == Head(inputs)
           n == Len(buf)
           wraps == input.rpos + n >= InSize
           high == IF wraps THEN InSize - input.rpos ELSE 0
           from == IF wraps THEN 0 ELSE input.rpos
           low == SubSeq(buf, high + 1, n - high)
           first == Fill(input.buffer, WriteCells(InSize, input.rpos, high), SubSeq(buf, 1, high))
           all == Fill(first, WriteCells(InSize, from, Len(low)), low)
<1>1. /\ UNCHANGED <<mode, output, phase, step, block, engine, main, toWorklet, reads, fresh, heard>>
      /\ inputs # <<>> /\ inputs' = Tail(inputs)
      /\ input' = [input EXCEPT !.buffer = all, !.rpos = from + n - high]
      /\ captured' = Contents(all, InSize, input.rpos, n)
  BY DEF TakeInput
<1>2. /\ inputs \in Seq(Seq(Sample)) /\ inputs' \in Seq(Seq(Sample)) /\ buf \in Seq(Sample)
      /\ n \in Nat /\ n <= InSize
      /\ \A k \in 1..Len(inputs') : k + 1 \in 1..Len(inputs) /\ inputs'[k] = inputs[k + 1]
  <2>1. inputs \in Seq(Seq(Sample))
    BY DEF TypeOK
  <2>2. Len(inputs) \in Nat \ {0} /\ 1 \in 1..Len(inputs) /\ Head(inputs) = inputs[1]
    BY <1>1, <2>1
  <2>3. inputs' \in Seq(Seq(Sample)) /\ Len(inputs') = Len(inputs) - 1
        /\ \A k \in 1..Len(inputs') : inputs'[k] = inputs[k + 1]
    BY <1>1, <2>1, HeadTailProperties
  <2>4. \A k \in 1..Len(inputs') : k + 1 \in 1..Len(inputs)
    BY <2>2, <2>3
  <2>5. inputs[1] \in Seq(Sample) /\ Len(inputs[1]) <= InSize
    BY <2>1, <2>2, ElementOfSeq DEF InputsFit
  <2> QED BY <2>1, <2>2, <2>3, <2>4, <2>5
<1>3. InSize \in Nat \ {0} /\ input.rpos \in 0..InSize /\ input.buffer \in [0..InSize - 1 -> Sample]
  BY NumbersOfState, SizesAreNumbers
<1> HIDE DEF buf
<1>4. /\ high \in 0..InSize /\ high \in Nat /\ high <= n /\ from \in 0..InSize - 1
      /\ from + n - high \in 0..InSize
      /\ input.rpos = InSize => high = 0
      /\ from + (n - high) <= InSize
  BY <1>2, <1>3
<1>5. SubSeq(buf, 1, high) \in Seq(Sample) /\ Len(SubSeq(buf, 1, high)) = high
  <2>1. \A k \in 1..high : k \in 1..Len(buf)
    BY <1>2, <1>4
  <2> QED BY <1>2, <1>4, <2>1, SubSeqProperties
<1>6. low \in Seq(Sample) /\ Len(low) \in 0..InSize /\ from + Len(low) <= InSize
  <2>1. \A k \in high + 1..n - high : k \in 1..Len(buf)
    BY <1>2, <1>4
  <2>2. /\ low \in Seq(Sample)
        /\ high + 1 <= n - high + 1 => Len(low) = n - high - (high + 1) + 1
        /\ high + 1 > n - high + 1 => Len(low) = 0
    BY <1>2, <1>4, <2>1, SubSeqProperties
  <2>3. CASE high + 1 <= n - high + 1
    <3>1. Len(low) = n - high - (high + 1) + 1 /\ n \in Int /\ high \in Int /\ from \in Int /\ InSize \in Int
      BY <1>2, <1>3, <1>4, <2>2, <2>3
    <3> HIDE DEF low, high, from, n
    <3> QED BY <1>3, <1>4, <2>2, <2>3, <3>1
  <2>4. CASE high + 1 > n - high + 1
    <3>1. Len(low) = 0
      BY <2>2, <2>4
    <3> HIDE DEF low, high, from, n
    <3> QED BY <1>3, <1>4, <2>2, <3>1
  <2>5. high + 1 <= n - high + 1 \/ high + 1 > n - high + 1
    BY <1>2, <1>4
  <2> QED BY <2>3, <2>4, <2>5
<1> HIDE DEF low, high, from
<1>7. first \in [0..InSize - 1 -> Sample]
  <2>1. WriteCells(InSize, input.rpos, high) \in [1..high -> 0..InSize - 1]
    BY <1>3, <1>4, WritesInside
  <2>2. high <= Len(SubSeq(buf, 1, high))
    BY <1>4, <1>5
  <2> QED BY <1>3, <1>4, <1>5, <2>1, <2>2, FillTypes
<1> HIDE DEF first
<1>8. all \in [0..InSize - 1 -> Sample]
  <2>1. Len(low) \in Nat /\ from \in 0..InSize /\ from # InSize /\ Len(low) <= Len(low)
    BY <1>3, <1>4, <1>6
  <2>2. WriteCells(InSize, from, Len(low)) \in [1..Len(low) -> 0..InSize - 1]
    BY <1>3, <1>6, <2>1, WritesInside
  <2> QED BY <1>3, <1>6, <1>7, <2>1, <2>2, FillTypes
<1> HIDE DEF all
<1>9. captured' \in Seq(Sample)
  <2>1. input.rpos \in Nat
    BY <1>3
  <2> QED BY <1>1, <1>2, <1>3, <1>8, <2>1, ContentsTypes
<1>10. input' \in Ring(InSize)
  BY <1>1, <1>4, <1>8 DEF TypeOK, Ring
<1>11. TypeOK'
  BY <1>1, <1>2, <1>9, <1>10 DEF TypeOK
<1>12. InputsFit'
  <2>1. ~threads /\ ~threads'
    BY <1>1 DEF InputsFit, threads
  <2> QED BY <1>2, <2>1 DEF InputsFit
<1>13. Mail' /\ CreditsBalance'
  BY <1>1, MailStays, CreditsStay
<1>14. Seen' /\ Positions'
  <2>1. ~threads
    BY <1>1 DEF InputsFit
  <2> QED BY <1>1, <2>1, MainLeaves
<1> QED BY <1>11, <1>12, <1>13, <1>14

LEMMA CloseKeeps ==
  ASSUME AudioInv, Close
  PROVE  AudioInv'
<1> USE DEF AudioInv
<1>1. /\ UNCHANGED <<mode, output, input, phase, step, block, engine, reads, inputs, fresh, heard, captured>>
      /\ main = "open" /\ main' = "closed" /\ toWorklet' = Append(toWorklet, Stop)
  BY DEF Close
<1>2. /\ Stop \in [cmd : {"start", "chunk", "stop"}, data : Seq(Sample)] /\ Stop.cmd # "chunk"
  BY DEF Stop
<1>3. /\ toWorklet' \in Seq([cmd : {"start", "chunk", "stop"}, data : Seq(Sample)])
      /\ Len(toWorklet) \in Nat /\ Len(toWorklet') = Len(toWorklet) + 1 /\ toWorklet' # <<>>
      /\ \A k \in 1..Len(toWorklet) : toWorklet'[k] = toWorklet[k]
      /\ toWorklet'[Len(toWorklet) + 1] = Stop
      /\ DOMAIN toWorklet = 1..Len(toWorklet) /\ DOMAIN toWorklet' = 1..Len(toWorklet')
      /\ \A k \in 1..Len(toWorklet') : k \in 1..Len(toWorklet) \/ k = Len(toWorklet) + 1
  BY <1>1, <1>2, MailGrows
<1>4. TypeOK'
  BY <1>1, <1>3 DEF TypeOK
<1>5. Seen' /\ Positions' /\ InputsFit'
  BY <1>1, MainLeaves, InputsStay
<1>6. CASE phase = "created"
  <2>1. toWorklet = <<Start>>
    BY <1>1, <1>6 DEF Mail
  <2>2. toWorklet' = <<Start, Stop>>
    <3> DEFINE M == [cmd : {"start", "chunk", "stop"}, data : Seq(Sample)]
    <3>1. Len(toWorklet) = 1 /\ toWorklet[1] = Start
      BY <2>1
    <3>2. <<Start, Stop>> \in Seq(M) /\ Len(<<Start, Stop>>) = 2
      BY DEF Start, Stop
    <3>3. toWorklet' \in Seq(M) /\ Len(toWorklet') = 2 /\ toWorklet'[1] = Start /\ toWorklet'[2] = Stop
      BY <1>3, <3>1
    <3>4. \A k \in 1..2 : toWorklet'[k] = <<Start, Stop>>[k]
      BY <3>3
    <3> QED BY <3>2, <3>3, <3>4, SeqEqual
  <2>3. Mail'
    BY <1>1, <1>6, <2>2 DEF Mail, DataLeft, threads
  <2>4. CreditsBalance'
    BY <1>1, <1>6 DEF CreditsBalance
  <2> QED BY <1>4, <1>5, <2>3, <2>4
<1>7. CASE phase = "started"
  <2>1. ASSUME NEW k \in 1..Len(toWorklet)
        PROVE  ~threads /\ toWorklet'[k].cmd = "chunk" /\ Len(toWorklet'[k].data) = OutChunk
    <3>1. ~threads /\ toWorklet[k].cmd = "chunk" /\ Len(toWorklet[k].data) = OutChunk
      BY <1>1, <1>7, <2>1 DEF Mail
    <3> QED BY <1>3, <2>1, <3>1
  <2>2. Mail'
    <3>1. ASSUME NEW k \in 1..Len(toWorklet')
          PROVE  \/ main' = "closed" /\ k = Len(toWorklet') /\ toWorklet'[k] = Stop
                 \/ /\ ~(main' = "closed" /\ k = Len(toWorklet'))
                    /\ ~threads' /\ toWorklet'[k].cmd = "chunk" /\ Len(toWorklet'[k].data) = OutChunk
      <4>1. CASE k \in 1..Len(toWorklet)
        <5>1. k # Len(toWorklet')
          BY <1>3, <4>1
        <5> QED BY <1>1, <2>1, <4>1, <5>1 DEF threads
      <4>2. CASE k = Len(toWorklet) + 1
        BY <1>1, <1>3, <4>2
      <4> QED BY <1>3, <3>1, <4>1, <4>2
    <3>2. (threads => reads = 0)' /\ main' # "idle" /\ toWorklet' # <<>> /\ phase' = "started"
      BY <1>1, <1>3, <1>7 DEF Mail, threads
    <3> QED BY <3>1, <3>2 DEF Mail
  <2>3. CreditsBalance'
    <3>1. SUFFICES ASSUME ~threads
                   PROVE  output.avail + OutChunk * (ChunksSent' + reads) = OutSize
      BY <1>1 DEF CreditsBalance, DataLeft, threads
    <3>2. ChunksSent = Len(toWorklet)
      BY <1>1, <1>7, <3>1, ChunksAreMail DEF Sent
    <3>3. ~threads' /\ phase' = "started" /\ main' = "closed"
      BY <1>1, <1>7, <3>1 DEF threads
    <3>4. \A k \in 1..Len(toWorklet') : toWorklet'[k].cmd = "chunk" <=> k <= Len(toWorklet)
      <4> SUFFICES ASSUME NEW k \in 1..Len(toWorklet')
                   PROVE  toWorklet'[k].cmd = "chunk" <=> k <= Len(toWorklet)
        OBVIOUS
      <4>1. CASE k \in 1..Len(toWorklet)
        BY <2>1, <4>1
      <4>2. CASE k = Len(toWorklet) + 1
        <5>1. ~(k <= Len(toWorklet))
          BY <1>3, <4>2
        <5> QED BY <1>2, <1>3, <4>2, <5>1
      <4> QED BY <1>3, <4>1, <4>2
    <3>5. Len(toWorklet) <= Len(toWorklet') /\ Len(toWorklet') \in Nat
      BY <1>3
    <3>6. ChunksSent' = Len(toWorklet)
      BY <1>3, <3>4, <3>5, ChunksCounted DEF ChunksSent
    <3> QED BY <1>7, <3>1, <3>2, <3>6 DEF CreditsBalance, DataLeft
  <2> QED BY <1>4, <1>5, <2>2, <2>3
<1>8. phase # "stopped"
  BY <1>1 DEF Mail
<1> QED BY <1>6, <1>7, <1>8 DEF TypeOK

-----------------------------------------------------------------------------
(* The theorems.                                                               *)

LEMMA AudioStarts == Init => AudioInv
<1> SUFFICES ASSUME Init
             PROVE  AudioInv
  OBVIOUS
<1>1. NewRing(OutSize, Silence, 0) \in Ring(OutSize) /\ NewRing(InSize, Silence, 0) \in Ring(InSize)
  BY SizesAreNumbers DEF NewRing, Ring, Silence, Sample
<1>2. /\ output.avail = 0 /\ output.rpos = 0 /\ output.wpos = 0
      /\ input.avail = 0 /\ input.rpos = 0 /\ input.wpos = 0
      /\ engine = Waiting /\ engine.at = "wait" /\ engine.read = 0 /\ engine.write = 0
  BY DEF Init, NewRing, Waiting
<1>3. TypeOK
  <2>1. engine \in [at : {"wait", "capture", "in_add", "fill", "out_add"},
                    read : 0..InSize, write : 0..OutSize]
    BY SizesAreNumbers DEF Init, Waiting
  <2>2. fresh \in [out : 0..Ids - 1, in : 0..Ids - 1]
    BY SizesAreNumbers DEF Init
  <2> QED BY <1>1, <2>1, <2>2 DEF Init, TypeOK
<1>4. Mail /\ InputsFit /\ CreditsBalance
  BY <1>2 DEF Init, Mail, InputsFit, CreditsBalance, DataLeft
<1>5. Seen
  BY <1>2, SizesAreNumbers DEF Init, Seen
<1>6. Positions
  BY <1>2, SizesAreNumbers DEF Init, Positions, Ahead, ReadUncounted, WriteUncounted, TakeUncounted,
     PutUncounted
<1> QED BY <1>3, <1>4, <1>5, <1>6 DEF AudioInv

LEMMA AudioKeeps == AudioInv /\ [Next]_vars => AudioInv'
<1> SUFFICES ASSUME AudioInv, [Next]_vars
             PROVE  AudioInv'
  OBVIOUS
<1>1. CASE \E chunk \in InChunks : BeginBlock(chunk)
  BY <1>1, BeginKeeps
<1>2. CASE LookForSpace \/ LookForData
  BY <1>2, LooksKeep
<1>3. CASE WriteInput \/ AddInput
  BY <1>3, WriteInputKeeps, AddInputKeeps
<1>4. CASE ReadOutput \/ AddOutput
  BY <1>4, ReadOutputKeeps, AddOutputKeeps
<1>5. CASE Messages
  BY <1>5, StartKeeps, ChunkKeeps, StopKeeps DEF Messages
<1>6. CASE Engine
  BY <1>6, EngineLookKeeps, EngineCaptureKeeps, EngineCapturedKeeps, EngineFillKeeps,
     EngineFilledKeeps DEF Engine
<1>7. CASE Open \/ SendChunk \/ TakeInput \/ Close
  BY <1>7, OpenKeeps, SendChunkKeeps, TakeInputKeeps, CloseKeeps
<1>8. CASE UNCHANGED vars
  <2>1. UNCHANGED <<mode, output, input, phase, step, block, engine, main, toWorklet, reads,
                   inputs, fresh, heard, captured>>
    BY <1>8 DEF vars
  <2> QED BY <2>1, MailStays, CreditsStay, InputsStay, MainLeaves DEF AudioInv, TypeOK
<1> QED BY <1>1, <1>2, <1>3, <1>4, <1>5, <1>6, <1>7, <1>8 DEF Next, Process, Silent

\* The rings, their positions and counts and the messages stay what they are taken for,
\* however the threads interleave.
THEOREM AudioTypes == Spec => []TypeOK
<1>1. AudioInv => TypeOK
  BY DEF AudioInv
<1> QED BY <1>1, AudioStarts, AudioKeeps, PTL DEF Spec

\* Neither thread ever touches cells the other is copying: what each saw of the count is
\* still enough when it copies, and the positions are as far apart as there are samples.
THEOREM NoCellsShared == Spec => []NoRace
<1>1. AudioInv => NoRace
  <2> SUFFICES ASSUME AudioInv, threads
               PROVE  /\ step = "out_read" /\ engine.at = "fill" => OutRead \cap OutWrite = {}
                      /\ step = "in_write" /\ engine.at = "capture" => InWrite \cap InRead = {}
    BY DEF NoRace
  <2>1. ASSUME step = "out_read", engine.at = "fill"
        PROVE  OutRead \cap OutWrite = {}
    <3>1. /\ output.avail \in 0..OutSize /\ OutChunk \in 0..output.avail /\ engine.write \in 0..OutSize
          /\ output.avail + engine.write <= OutSize /\ OutSize \in Nat \ {0}
          /\ output.rpos \in 0..OutSize /\ output.wpos \in 0..OutSize - 1
      BY <2>1, NumbersOfState, SizesAreNumbers DEF AudioInv, Seen
    <3>2. Ahead(OutSize, output.rpos, output.avail - 0 + 0, output.wpos)
      BY <2>1 DEF AudioInv, Positions, ReadUncounted, WriteUncounted
    <3>3. Ahead(OutSize, output.rpos, output.avail, output.wpos)
      BY <3>1, <3>2 DEF Ahead
    <3> QED BY <3>1, <3>3, ApartInRing DEF OutRead, OutWrite
  <2>2. ASSUME step = "in_write", engine.at = "capture"
        PROVE  InWrite \cap InRead = {}
    <3>1. /\ input.avail \in 0..InSize /\ engine.read \in 0..input.avail /\ block \in 0..InSize
          /\ input.avail + block <= InSize /\ InSize \in Nat \ {0}
          /\ input.rpos \in 0..InSize /\ input.wpos \in 0..InSize - 1
      BY <2>2, NumbersOfState, SizesAreNumbers DEF AudioInv, Seen
    <3>2. Ahead(InSize, input.rpos, input.avail - 0 + 0, input.wpos)
      BY <2>2 DEF AudioInv, Positions, TakeUncounted, PutUncounted
    <3>3. Ahead(InSize, input.rpos, input.avail, input.wpos)
      BY <3>1, <3>2 DEF Ahead
    <3>4. InRead \cap InWrite = {}
      BY <3>1, <3>3, ApartInRing DEF InRead, InWrite
    <3> QED BY <3>4
  <2> QED BY <2>1, <2>2
<1> QED BY <1>1, AudioStarts, AudioKeeps, PTL DEF Spec

\* Without threads a chunk never overruns the ring and never comes before it: ring, chunks
\* and reports always make up one buffer.
THEOREM ChunksHaveRoom == Spec => []ChunksFit
<1>1. AudioInv => ChunksFit
  <2> SUFFICES ASSUME AudioInv, toWorklet # <<>>, Head(toWorklet).cmd = "chunk"
               PROVE  phase = "started"
    BY DEF AudioInv, ChunksFit, ChunksFindRing
  <2>1. phase # "stopped"
    BY DEF AudioInv, Mail
  <2>2. ASSUME phase = "created"
        PROVE  FALSE
    <3>1. toWorklet = <<>> \/ toWorklet = <<Start>> \/ toWorklet = <<Start, Stop>>
      BY <2>2 DEF AudioInv, Mail, TypeOK
    <3>2. toWorklet # <<>> => Head(toWorklet) = Start
      BY <3>1
    <3> QED BY <3>2 DEF Start
  <2> QED BY <2>1, <2>2 DEF AudioInv, TypeOK
<1> QED BY <1>1, AudioStarts, AudioKeeps, PTL DEF Spec

-----------------------------------------------------------------------------
(* The two streams of samples.                                                 *)

OutRing == Contents(output.buffer, OutSize, output.rpos,
                    DataLeft(output) - ReadUncounted + WriteUncounted)
OutMail == FlattenSeq([k \in DOMAIN toWorklet |-> toWorklet[k].data])
InRing == Contents(input.buffer, InSize, input.rpos,
                   DataLeft(input) - TakeUncounted + PutUncounted)

\* The steps a stream may take.
LEMMA OutBegins ==
  ASSUME phase # "stopped", phase' # "stopped", OutQueue = <<>>, heard = <<>>, fresh.out = 0,
         OutQueue' = [k \in 1..OutSize |-> Silence], heard' = heard, fresh'.out = fresh.out
  PROVE  OutStream!Next
<1>1. OutSize \in 1..OutSize
  BY SizesAreNumbers
<1>2. OutStream!Begin
  BY <1>1 DEF OutStream!Begin
<1> QED BY <1>2 DEF OutStream!Next

LEMMA OutPuts ==
  ASSUME NEW n \in 1..OutSize - Len(OutQueue), phase # "stopped", phase' # "stopped",
         OutQueue' = OutQueue \o Made(fresh.out, n), fresh'.out = MadeAfter(fresh.out, n),
         heard' = heard
  PROVE  OutStream!Next
<1>1. OutStream!Put
  BY DEF OutStream!Put, Made, MadeAfter
<1> QED BY <1>1 DEF OutStream!Next

LEMMA OutTakes ==
  ASSUME NEW n \in 1..Len(OutQueue), heard' = SubSeq(OutQueue, 1, n),
         OutQueue' = SubSeq(OutQueue, n + 1, Len(OutQueue)), fresh'.out = fresh.out, phase' = phase
  PROVE  OutStream!Next
<1>1. OutStream!Take
  BY DEF OutStream!Take
<1> QED BY <1>1 DEF OutStream!Next

LEMMA OutCloses ==
  ASSUME phase # "stopped", phase' = "stopped", OutQueue' = <<>>, heard' = heard,
         fresh'.out = fresh.out
  PROVE  OutStream!Next
<1>1. OutStream!Close
  BY DEF OutStream!Close
<1> QED BY <1>1 DEF OutStream!Next

LEMMA OutLoses ==
  ASSUME phase = "stopped", phase' = "stopped", OutQueue' = OutQueue, heard' = heard,
         fresh'.out \in 0..Ids - 1
  PROVE  OutStream!Next
<1>1. OutStream!Lose
  BY DEF OutStream!Lose
<1> QED BY <1>1 DEF OutStream!Next

LEMMA OutRests ==
  ASSUME OutQueue' = OutQueue, heard' = heard, fresh'.out = fresh.out,
         phase' = "stopped" <=> phase = "stopped"
  PROVE  UNCHANGED OutStream!vars
BY DEF OutStream!vars

LEMMA InPuts ==
  ASSUME NEW n \in 1..InSize * (MaxFlight + 1) - Len(InQueue), threads \/ main # "closed",
         UNCHANGED <<mode, main>>,
         InQueue' = InQueue \o Made(fresh.in, n), fresh'.in = MadeAfter(fresh.in, n),
         captured' = captured, Spoilt' = Spoilt
  PROVE  InStream!Next
<1>1. InStream!Put
  BY DEF InStream!Put, Made, MadeAfter, threads
<1> QED BY <1>1 DEF InStream!Next

LEMMA InTakes ==
  ASSUME NEW n \in 1..Len(InQueue), captured' = SubSeq(InQueue, 1, n),
         InQueue' = SubSeq(InQueue, n + 1, Len(InQueue)), fresh'.in = fresh.in,
         UNCHANGED <<mode, main>>, Spoilt' = FALSE
  PROVE  InStream!Next
<1>1. InStream!Take
  BY DEF InStream!Take, threads
<1> QED BY <1>1 DEF InStream!Next

LEMMA InSpoils ==
  ASSUME NEW n \in 1..Len(InQueue), Len(captured') = n,
         InQueue' = SubSeq(InQueue, n + 1, Len(InQueue)), fresh'.in = fresh.in,
         UNCHANGED <<mode, main>>, Spoilt' = TRUE
  PROVE  InStream!Next
<1>1. InStream!Spoil
  BY DEF InStream!Spoil, threads
<1> QED BY <1>1 DEF InStream!Next

LEMMA InCloses ==
  ASSUME ~threads, ~threads', main # "closed", main' = "closed", InQueue' = <<>>,
         captured' = captured, fresh'.in = fresh.in, Spoilt' = Spoilt
  PROVE  InStream!Next
<1>1. InStream!Close
  BY DEF InStream!Close
<1> QED BY <1>1 DEF InStream!Next

LEMMA InLoses ==
  ASSUME ~threads, main = "closed", UNCHANGED <<mode, main>>, InQueue' = InQueue,
         captured' = captured, fresh'.in \in 0..Ids - 1, Spoilt' = Spoilt
  PROVE  InStream!Next
<1>1. InStream!Lose
  BY DEF InStream!Lose, threads
<1> QED BY <1>1 DEF InStream!Next

LEMMA InRests ==
  ASSUME InQueue' = InQueue, captured' = captured, fresh'.in = fresh.in,
         threads' <=> threads, ~threads => (main' = "closed" <=> main = "closed"),
         Spoilt' = Spoilt
  PROVE  UNCHANGED InStream!vars
BY DEF InStream!vars

\* With threads no block is spoilt; without, only what the engine took in last is.
LEMMA SpoiltNever == threads => Spoilt = FALSE
BY DEF Spoilt

LEMMA SpoiltStays ==
  ASSUME UNCHANGED mode, threads \/ UNCHANGED <<input.rpos, captured>>
  PROVE  Spoilt' = Spoilt
BY DEF Spoilt, threads

-----------------------------------------------------------------------------
(* What the two queues are made of.                                            *)

LEMMA OutCounts ==
  ASSUME AudioInv
  PROVE  /\ ReadUncounted \in {0, OutChunk} /\ WriteUncounted \in 0..OutSize
         /\ output.avail - ReadUncounted \in 0..OutSize
         /\ output.avail - ReadUncounted + WriteUncounted \in 0..OutSize
         /\ ~threads => WriteUncounted = 0
<1>1. /\ output.avail \in 0..OutSize /\ engine.write \in 0..OutSize
      /\ OutChunk \in Nat /\ OutSize \in Nat
  BY NumbersOfState, SizesAreNumbers DEF AudioInv
<1>2. step = "out_add" => output.avail >= OutChunk
  BY DEF AudioInv, Seen
<1>3. threads => output.avail + engine.write <= OutSize
  BY DEF AudioInv, Seen
<1>4. ~threads => engine.at = "wait"
  BY DEF AudioInv, Seen, Waiting
<1>5. ReadUncounted = 0 \/ (ReadUncounted = OutChunk /\ output.avail >= OutChunk)
  BY <1>2 DEF ReadUncounted
<1>6. ~threads => WriteUncounted = 0
  BY <1>4 DEF WriteUncounted
<1>7. WriteUncounted = 0 \/ (WriteUncounted = engine.write /\ output.avail + engine.write <= OutSize)
  BY <1>3, <1>6 DEF WriteUncounted
<1> QED BY <1>1, <1>5, <1>6, <1>7

LEMMA InCounts ==
  ASSUME AudioInv
  PROVE  /\ TakeUncounted \in 0..InSize /\ PutUncounted \in 0..InSize
         /\ threads => /\ input.avail - TakeUncounted \in 0..InSize
                       /\ input.avail - TakeUncounted + PutUncounted \in 0..InSize
<1>1. /\ input.avail \in 0..InSize /\ engine.read \in 0..InSize /\ block \in 0..InSize
      /\ InSize \in Nat
  BY NumbersOfState, SizesAreNumbers DEF AudioInv
<1>2. step = "in_add" => input.avail + block <= InSize
  BY DEF AudioInv, Seen
<1>3. threads => engine.read <= input.avail
  BY DEF AudioInv, Seen
<1>4. TakeUncounted = 0 \/ TakeUncounted = engine.read
  BY DEF TakeUncounted
<1>5. PutUncounted = 0 \/ (PutUncounted = block /\ input.avail + block <= InSize)
  BY <1>2 DEF PutUncounted
<1> QED BY <1>1, <1>3, <1>4, <1>5

LEMMA OutIntegers ==
  ASSUME AudioInv
  PROVE  output.avail \in Int /\ engine.write \in Int /\ ReadUncounted \in Int
<1>1. output.avail \in 0..OutSize /\ engine.write \in 0..OutSize
  BY NumbersOfState DEF AudioInv
<1>2. ReadUncounted \in {0, OutChunk}
  BY OutCounts
<1>3. OutChunk \in Int
  BY SizesAreNumbers
<1> QED BY <1>1, <1>2, <1>3

LEMMA InIntegers ==
  ASSUME AudioInv
  PROVE  /\ input.avail \in Int /\ engine.read \in Int /\ block \in Int
         /\ TakeUncounted \in Int /\ PutUncounted \in Int
<1>1. input.avail \in 0..InSize /\ engine.read \in 0..InSize /\ block \in 0..InSize
  BY NumbersOfState DEF AudioInv
<1>2. TakeUncounted \in 0..InSize /\ PutUncounted \in 0..InSize
  BY InCounts
<1> QED BY <1>1, <1>2

LEMMA OutRingTypes ==
  ASSUME AudioInv
  PROVE  /\ OutRing \in Seq(Sample)
         /\ Len(OutRing) = output.avail - ReadUncounted + WriteUncounted
<1>1. PICK n \in 0..OutSize : n = output.avail - ReadUncounted + WriteUncounted
  BY OutCounts
<1>2. /\ output.buffer \in [0..OutSize - 1 -> Sample] /\ output.rpos \in 0..OutSize
      /\ OutSize \in Nat \ {0} /\ output.rpos \in Nat /\ n \in Nat
  BY NumbersOfState, SizesAreNumbers DEF AudioInv
<1>3. OutRing = Contents(output.buffer, OutSize, output.rpos, n)
  BY <1>1 DEF OutRing, DataLeft
<1>4. Contents(output.buffer, OutSize, output.rpos, n) \in Seq(Sample)
  BY <1>2, ContentsTypes
<1>5. Len(Contents(output.buffer, OutSize, output.rpos, n)) = n
  BY <1>2, ContentsAround
<1> QED BY <1>1, <1>3, <1>4, <1>5

LEMMA InRingTypes ==
  ASSUME AudioInv, threads
  PROVE  /\ InRing \in Seq(Sample)
         /\ Len(InRing) = input.avail - TakeUncounted + PutUncounted
<1>1. PICK n \in 0..InSize : n = input.avail - TakeUncounted + PutUncounted
  BY InCounts
<1>2. /\ input.buffer \in [0..InSize - 1 -> Sample] /\ input.rpos \in 0..InSize
      /\ InSize \in Nat \ {0} /\ input.rpos \in Nat /\ n \in Nat
  BY NumbersOfState, SizesAreNumbers DEF AudioInv
<1>3. InRing = Contents(input.buffer, InSize, input.rpos, n)
  BY <1>1 DEF InRing, DataLeft
<1>4. Contents(input.buffer, InSize, input.rpos, n) \in Seq(Sample)
  BY <1>2, ContentsTypes
<1>5. Len(Contents(input.buffer, InSize, input.rpos, n)) = n
  BY <1>2, ContentsAround
<1> QED BY <1>1, <1>3, <1>4, <1>5

\* The samples in the messages to the processor.
MailData(mail) == [k \in DOMAIN mail |-> mail[k].data]
Message == [cmd : {"start", "chunk", "stop"}, data : Seq(Sample)]

LEMMA MailDataTypes ==
  ASSUME NEW mail \in Seq(Message)
  PROVE  /\ MailData(mail) \in Seq(Seq(Sample)) /\ Len(MailData(mail)) = Len(mail)
         /\ \A k \in 1..Len(mail) : MailData(mail)[k] = mail[k].data
<1>1. Len(mail) \in Nat /\ DOMAIN mail = 1..Len(mail)
  BY LenProperties
<1>2. \A k \in 1..Len(mail) : mail[k].data \in Seq(Sample)
  <2> SUFFICES ASSUME NEW k \in 1..Len(mail)
               PROVE  mail[k].data \in Seq(Sample)
    OBVIOUS
  <2>1. mail[k] \in Message
    BY ElementOfSeq
  <2> QED BY <2>1 DEF Message
<1>3. MailData(mail) = [k \in 1..Len(mail) |-> mail[k].data]
  BY <1>1 DEF MailData
<1> QED BY <1>1, <1>2, <1>3, IsASeq

LEMMA MailAppends ==
  ASSUME NEW mail \in Seq(Message), NEW m \in Message
  PROVE  FlattenSeq(MailData(Append(mail, m))) = FlattenSeq(MailData(mail)) \o m.data
<1>1. /\ Append(mail, m) \in Seq(Message) /\ Len(Append(mail, m)) = Len(mail) + 1
      /\ \A k \in 1..Len(mail) : Append(mail, m)[k] = mail[k]
      /\ Append(mail, m)[Len(mail) + 1] = m /\ Len(mail) \in Nat
  BY AppendProperties, LenProperties
<1>2. m.data \in Seq(Sample)
  BY DEF Message
<1> DEFINE D == MailData(mail)
           E == MailData(Append(mail, m))
<1>3. /\ D \in Seq(Seq(Sample)) /\ Len(D) = Len(mail)
      /\ \A k \in 1..Len(mail) : D[k] = mail[k].data
  BY MailDataTypes
<1>4. /\ E \in Seq(Seq(Sample)) /\ Len(E) = Len(mail) + 1
      /\ \A k \in 1..Len(mail) + 1 : E[k] = Append(mail, m)[k].data
  BY <1>1, MailDataTypes
<1> HIDE DEF D, E
<1>5. /\ Append(D, m.data) \in Seq(Seq(Sample)) /\ Len(Append(D, m.data)) = Len(mail) + 1
      /\ \A k \in 1..Len(mail) : Append(D, m.data)[k] = D[k]
      /\ Append(D, m.data)[Len(mail) + 1] = m.data
  BY <1>2, <1>3, AppendProperties
<1>6. ASSUME NEW k \in 1..Len(mail) + 1
      PROVE  E[k] = Append(D, m.data)[k]
  <2>1. CASE k \in 1..Len(mail)
    BY <1>1, <1>3, <1>4, <1>5, <2>1
  <2>2. CASE k = Len(mail) + 1
    BY <1>1, <1>4, <1>5, <2>2
  <2>3. k \in 1..Len(mail) \/ k = Len(mail) + 1
    <3>1. Len(mail) \in Nat
      BY LenProperties
    <3> QED BY ONLY k \in 1..Len(mail) + 1, <3>1
  <2> QED BY <2>1, <2>2, <2>3, Zenon
<1>7. E = Append(D, m.data)
  BY <1>4, <1>5, <1>6, SeqEqual
<1>8. FlattenSeq(Append(D, m.data)) = FlattenSeq(D) \o m.data
  BY <1>2, <1>3, FlattenAppend
<1> QED BY <1>7, <1>8 DEF D, E

LEMMA MailHeads ==
  ASSUME NEW mail \in Seq(Message), mail # <<>>
  PROVE  FlattenSeq(MailData(mail)) = Head(mail).data \o FlattenSeq(MailData(Tail(mail)))
<1>1. /\ Tail(mail) \in Seq(Message) /\ Len(Tail(mail)) = Len(mail) - 1
      /\ \A k \in 1..Len(Tail(mail)) : Tail(mail)[k] = mail[k + 1]
      /\ Len(mail) \in Nat \ {0} /\ Head(mail) = mail[1]
  BY HeadTailProperties, EmptySeq
<1> DEFINE D == MailData(mail)
           E == MailData(Tail(mail))
<1>2. /\ D \in Seq(Seq(Sample)) /\ Len(D) = Len(mail)
      /\ \A k \in 1..Len(mail) : D[k] = mail[k].data
  BY MailDataTypes
<1>3. /\ E \in Seq(Seq(Sample)) /\ Len(E) = Len(Tail(mail))
      /\ \A k \in 1..Len(Tail(mail)) : E[k] = Tail(mail)[k].data
  BY <1>1, MailDataTypes
<1> HIDE DEF D, E
<1>4. D # <<>> /\ Len(D) # 0 /\ Head(D) = D[1]
  BY <1>1, <1>2
<1>5. Tail(D) \in Seq(Seq(Sample)) /\ Len(Tail(D)) = Len(mail) - 1
      /\ \A k \in 1..Len(Tail(D)) : Tail(D)[k] = D[k + 1]
  BY <1>2, <1>4, HeadTailProperties
<1>6. ASSUME NEW k \in 1..Len(mail) - 1
      PROVE  Tail(D)[k] = E[k]
  <2>1. k + 1 \in 1..Len(mail) /\ k \in 1..Len(Tail(D)) /\ k \in 1..Len(Tail(mail))
    BY <1>1, <1>5
  <2> QED BY <1>1, <1>2, <1>3, <1>5, <2>1
<1>7. Tail(D) = E
  BY <1>1, <1>3, <1>5, <1>6, SeqEqual
<1>8. FlattenSeq(D) = Head(D) \o FlattenSeq(Tail(D))
  BY <1>2, <1>4, FlattenHead
<1>9. Head(D) = Head(mail).data
  BY <1>1, <1>2, <1>4
<1> QED BY <1>7, <1>8, <1>9 DEF D, E

-----------------------------------------------------------------------------
(* Without threads too the positions of the output ring are as far apart as it *)
(* holds samples, and nothing was heard or sent before the processor started.  *)

OutApart ==
  Ahead(OutSize, output.rpos, output.avail - ReadUncounted + WriteUncounted, output.wpos)

Unheard == phase = "created" => heard = <<>> /\ (~threads => fresh.out = 0)

StreamInv == OutApart /\ Unheard

LEMMA ApartByThreads ==
  ASSUME AudioInv, threads
  PROVE  OutApart
BY DEF AudioInv, Positions, OutApart

LEMMA ApartStays ==
  ASSUME OutApart, UNCHANGED <<output, engine>>, step' = "out_add" <=> step = "out_add"
  PROVE  OutApart'
<1>1. ReadUncounted' = ReadUncounted /\ WriteUncounted' = WriteUncounted
  BY DEF ReadUncounted, WriteUncounted
<1> QED BY <1>1 DEF OutApart

LEMMA UnheardStays ==
  ASSUME Unheard, UNCHANGED <<mode, heard>>, phase' = "created" => phase = "created",
         phase = "created" /\ ~threads => fresh'.out = fresh.out
  PROVE  Unheard'
BY DEF Unheard, threads

LEMMA StreamStarts == Init => StreamInv
<1> SUFFICES ASSUME Init
             PROVE  StreamInv
  OBVIOUS
<1>1. /\ output.avail = 0 /\ output.rpos = 0 /\ output.wpos = 0 /\ step = "idle"
      /\ engine.at = "wait"
  BY DEF Init, NewRing, Waiting
<1>2. ReadUncounted = 0 /\ WriteUncounted = 0
  BY <1>1 DEF ReadUncounted, WriteUncounted
<1>3. OutApart
  BY <1>1, <1>2 DEF OutApart, Ahead
<1>4. Unheard
  BY DEF Init, Unheard
<1> QED BY <1>3, <1>4 DEF StreamInv

LEMMA StreamKeepsProcess ==
  ASSUME AudioInv, AudioInv', StreamInv, Process
  PROVE  StreamInv'
<1>1. phase = "started" /\ UNCHANGED <<mode, phase, engine>>
  BY DEF Process, BeginBlock, LookForSpace, WriteInput, AddInput, LookForData, ReadOutput, AddOutput,
     AudioInv, Seen
<1>2. Unheard'
  BY <1>1 DEF Unheard
<1>3. SUFFICES ASSUME ~threads
               PROVE  OutApart'
  <2>1. threads => threads'
    BY <1>1 DEF threads
  <2>2. threads => OutApart'
    BY <2>1, ApartByThreads, PTL
  <2> QED BY <1>2, <2>2 DEF StreamInv
<1>4. OutApart
  BY DEF StreamInv
<1>5. WriteUncounted = 0 /\ WriteUncounted' = 0
  <2>1. engine.at = "wait"
    BY <1>3 DEF AudioInv, Seen, Waiting
  <2> QED BY <1>1, <2>1 DEF WriteUncounted
<1>6. /\ output.avail \in 0..OutSize /\ output.rpos \in 0..OutSize /\ output.wpos \in 0..OutSize - 1
      /\ OutChunk \in 0..OutSize /\ OutSize \in Nat \ {0} /\ OutChunk \in Nat
  BY NumbersOfState, SizesAreNumbers DEF AudioInv
<1>7. CASE ReadOutput
  <2>1. /\ step = "out_read" /\ step' = "out_add" /\ output.avail >= OutChunk
        /\ output'.avail = output.avail /\ output'.wpos = output.wpos
        /\ output'.rpos = ReadPos(OutSize, output.rpos, OutChunk)
    BY <1>7 DEF ReadOutput, AudioInv, Seen, TypeOK, Ring
  <2>2. ReadUncounted = 0 /\ ReadUncounted' = OutChunk
    BY <2>1 DEF ReadUncounted
  <2>3. Ahead(OutSize, output.rpos, output.avail, output.wpos)
    BY <1>4, <1>5, <1>6, <2>2 DEF OutApart, Ahead
  <2>4. Ahead(OutSize, ReadPos(OutSize, output.rpos, OutChunk), output.avail - OutChunk, output.wpos)
    BY <1>6, <2>1, <2>3, AheadAfterRead
  <2>5. output'.avail - ReadUncounted' + WriteUncounted' = output.avail - OutChunk
    BY <1>5, <1>6, <2>1, <2>2
  <2> QED BY <2>1, <2>4, <2>5 DEF OutApart
<1>8. CASE AddOutput
  <2>1. /\ step = "out_add" /\ step' = "idle"
        /\ output'.avail = output.avail - OutChunk /\ output'.wpos = output.wpos
        /\ output'.rpos = output.rpos
    BY <1>8 DEF AddOutput, AudioInv, TypeOK, Ring
  <2>2. ReadUncounted = OutChunk /\ ReadUncounted' = 0
    BY <2>1 DEF ReadUncounted
  <2>3. output'.avail - ReadUncounted' + WriteUncounted' = output.avail - ReadUncounted + WriteUncounted
    BY <1>5, <1>6, <2>1, <2>2
  <2> QED BY <1>4, <2>1, <2>3 DEF OutApart
<1>9. CASE ~ReadOutput /\ ~AddOutput
  <2>1. UNCHANGED output /\ step # "out_add" /\ step' # "out_add"
    BY <1>9 DEF Process, BeginBlock, LookForSpace, WriteInput, AddInput, LookForData
  <2> QED BY <1>1, <1>4, <2>1, ApartStays
<1> QED BY <1>7, <1>8, <1>9

LEMMA StreamKeepsMessages ==
  ASSUME AudioInv, AudioInv', StreamInv, Messages
  PROVE  StreamInv'
<1>1. UNCHANGED <<mode, step, engine, fresh, heard>> /\ step = "idle" /\ phase' # "created"
  <2>1. CASE ReceiveStart
    BY <2>1 DEF ReceiveStart, Receive
  <2>2. CASE ReceiveStop
    BY <2>2 DEF ReceiveStop, Receive
  <2>3. CASE ReceiveChunk
    <3>1. phase = "started"
      BY <2>3, ChunkArrives
    <3> QED BY <2>3, <3>1 DEF ReceiveChunk, Receive
  <2> QED BY <2>1, <2>2, <2>3 DEF Messages
<1>2. Unheard'
  BY <1>1 DEF Unheard
<1>3. SUFFICES ASSUME ~threads
               PROVE  OutApart'
  <2>1. threads => threads'
    BY <1>1 DEF threads
  <2>2. threads => OutApart'
    BY <2>1, ApartByThreads, PTL
  <2> QED BY <1>2, <2>2 DEF StreamInv
<1>4. OutApart
  BY DEF StreamInv
<1>5. WriteUncounted = 0 /\ WriteUncounted' = 0 /\ ReadUncounted = 0 /\ ReadUncounted' = 0
  <2>1. engine.at = "wait"
    BY <1>3 DEF AudioInv, Seen, Waiting
  <2> QED BY <1>1, <2>1 DEF WriteUncounted, ReadUncounted
<1>6. /\ output.avail \in 0..OutSize /\ output.rpos \in 0..OutSize /\ output.wpos \in 0..OutSize - 1
      /\ OutChunk \in 0..OutSize /\ OutSize \in Nat \ {0} /\ OutChunk \in Nat
  BY NumbersOfState, SizesAreNumbers DEF AudioInv
<1>7. CASE ReceiveStart
  <2>1. output'.avail = OutSize /\ output'.rpos = 0 /\ output'.wpos = 0
    BY <1>3, <1>7 DEF ReceiveStart, NewRing
  <2> QED BY <1>5, <1>6, <2>1 DEF OutApart, Ahead
<1>8. CASE ReceiveChunk
  <2>1. Len(Head(toWorklet).data) = OutChunk
    BY <1>8, ChunkArrives
  <2>2. /\ output'.avail = output.avail + OutChunk /\ output'.rpos = output.rpos
        /\ output'.wpos = WritePos(OutSize, output.wpos, OutChunk)
    BY <1>8, <2>1 DEF ReceiveChunk, AudioInv, TypeOK, Ring
  <2>6. output.avail + OutChunk <= OutSize
    <3>1. output'.avail \in 0..OutSize
      BY DEF AudioInv, TypeOK, Ring
    <3> QED BY <1>6, <2>2, <3>1
  <2>3. Ahead(OutSize, output.rpos, output.avail, output.wpos)
    BY <1>4, <1>5, <1>6 DEF OutApart, Ahead
  <2>4. Ahead(OutSize, output.rpos, output.avail + OutChunk, WritePos(OutSize, output.wpos, OutChunk))
    BY <1>6, <2>6, <2>3, AheadAfterWrite
  <2>5. output'.avail - ReadUncounted' + WriteUncounted' = output.avail + OutChunk
    BY <1>5, <1>6, <2>2
  <2> QED BY <2>2, <2>4, <2>5 DEF OutApart
<1>9. CASE ReceiveStop
  <2>1. UNCHANGED output
    BY <1>9 DEF ReceiveStop
  <2> QED BY <1>1, <1>4, <2>1, ApartStays
<1> QED BY <1>7, <1>8, <1>9 DEF Messages

LEMMA StreamKeepsOthers ==
  ASSUME AudioInv, AudioInv', StreamInv,
         Engine \/ Open \/ SendChunk \/ TakeInput \/ Close \/ UNCHANGED vars
  PROVE  StreamInv'
<1>1. UNCHANGED <<mode, phase, heard, step>>
  BY DEF Engine, EngineLook, EngineCapture, EngineCaptured, EngineFill, EngineFilled, Open, SendChunk,
     TakeInput, Close, vars
<1>2. ~threads => ~Engine
  <2>1. ~threads => engine.at = "wait"
    BY DEF AudioInv, Seen, Waiting
  <2> QED BY <2>1 DEF Engine, EngineLook, EngineCapture, EngineCaptured, EngineFill, EngineFilled
<1>3. phase = "created" /\ ~threads => fresh'.out = fresh.out
  <2>1. phase = "created" => reads = 0
    BY DEF AudioInv, Mail
  <2> QED BY <1>2, <2>1 DEF Open, SendChunk, TakeInput, Close, vars
<1>4. Unheard'
  BY <1>1, <1>3, UnheardStays DEF StreamInv
<1>5. CASE threads
  <2>1. threads'
    BY <1>1, <1>5 DEF threads
  <2>2. OutApart'
    BY <2>1, ApartByThreads, PTL
  <2> QED BY <1>4, <2>2 DEF StreamInv
<1>6. CASE ~threads
  <2>1. UNCHANGED <<output, engine>>
    BY <1>2, <1>6 DEF Open, SendChunk, TakeInput, Close, vars
  <2>2. OutApart'
    BY <1>1, <2>1, ApartStays DEF StreamInv
  <2> QED BY <1>4, <2>2 DEF StreamInv
<1> QED BY <1>5, <1>6

LEMMA StreamKeeps == AudioInv /\ AudioInv' /\ StreamInv /\ [Next]_vars => StreamInv'
<1> SUFFICES ASSUME AudioInv, AudioInv', StreamInv, [Next]_vars
             PROVE  StreamInv'
  OBVIOUS
<1>1. CASE Process
  BY <1>1, StreamKeepsProcess
<1>2. CASE Messages
  BY <1>2, StreamKeepsMessages
<1>3. CASE Engine \/ Open \/ SendChunk \/ TakeInput \/ Close \/ UNCHANGED vars
  BY <1>3, StreamKeepsOthers
<1> QED BY <1>1, <1>2, <1>3 DEF Next, Silent

\* What is left of a list when its first n are taken.
LEMMA RestOfSeq ==
  ASSUME NEW S, NEW s, NEW n \in Nat, NEW l \in Nat, n <= l, \A i \in 1..l : s[i] \in S
  PROVE  /\ SubSeq(s, n + 1, l) \in Seq(S) /\ Len(SubSeq(s, n + 1, l)) = l - n
         /\ \A i \in 1..l - n : SubSeq(s, n + 1, l)[i] = s[n + i]
<1>1. \A i \in n + 1..l : s[i] \in S
  OBVIOUS
<1>2. PICK Q : Q = SubSeq(s, n + 1, l)
  OBVIOUS
<1>3. /\ Q \in Seq(S) /\ Len(Q) = IF n + 1 <= l THEN l - (n + 1) + 1 ELSE 0
      /\ \A i \in 1..l - (n + 1) + 1 : Q[i] = s[n + 1 + i - 1]
  BY <1>1, <1>2, SubSeqProperties
<1>4. Len(Q) = l - n
  BY <1>3
<1>5. ASSUME NEW i \in 1..l - n
      PROVE  Q[i] = s[n + i]
  <2>1. i \in 1..l - (n + 1) + 1 /\ n + 1 + i - 1 = n + i
    OBVIOUS
  <2> QED BY <1>3, <2>1
<1> QED BY <1>2, <1>3, <1>4, <1>5

-----------------------------------------------------------------------------
(* Every step is a step of the output stream, or none.                         *)

LEMMA TakeOfConcat ==
  ASSUME NEW S, NEW s \in Seq(S), NEW t \in Seq(S), NEW n \in 0..Len(s)
  PROVE  /\ SubSeq(s \o t, 1, n) = SubSeq(s, 1, n)
         /\ SubSeq(s \o t, n + 1, Len(s \o t)) = SubSeq(s, n + 1, Len(s)) \o t
         /\ Len(s \o t) = Len(s) + Len(t)
<1> DEFINE c == s \o t
<1>0. Len(s) \in Nat /\ Len(t) \in Nat /\ n \in Nat /\ n <= Len(s)
  BY LenProperties
<1>1. /\ c \in Seq(S) /\ Len(c) = Len(s) + Len(t)
      /\ \A i \in 1..Len(s) + Len(t) : c[i] = IF i <= Len(s) THEN s[i] ELSE t[i - Len(s)]
  BY ConcatProperties
<1>2. /\ \A i \in 1..Len(s) + Len(t) : c[i] \in S
      /\ \A i \in 1..Len(s) : s[i] \in S
  BY <1>1, ElementOfSeq
<1> HIDE DEF c
<1>3. SubSeq(c, 1, n) = SubSeq(s, 1, n)
  <2>1. \A i \in 1..n : i \in 1..Len(s) /\ i \in 1..Len(s) + Len(t)
    BY <1>0
  <2>2. /\ SubSeq(c, 1, n) \in Seq(S) /\ Len(SubSeq(c, 1, n)) = n
        /\ \A i \in 1..n : SubSeq(c, 1, n)[i] = c[i]
    BY <1>0, <1>2, <2>1, SubSeqProperties
  <2>3. /\ SubSeq(s, 1, n) \in Seq(S) /\ Len(SubSeq(s, 1, n)) = n
        /\ \A i \in 1..n : SubSeq(s, 1, n)[i] = s[i]
    BY <1>0, <1>2, <2>1, SubSeqProperties
  <2>4. \A i \in 1..n : SubSeq(c, 1, n)[i] = SubSeq(s, 1, n)[i]
    BY <1>0, <1>1, <2>1, <2>2, <2>3
  <2> QED BY <2>2, <2>3, <2>4, SeqEqual
<1> DEFINE l == Len(s) + Len(t)
           u == SubSeq(s, n + 1, Len(s))
<1>4. SubSeq(c, n + 1, l) = u \o t
  <2>1. /\ SubSeq(c, n + 1, l) \in Seq(S) /\ Len(SubSeq(c, n + 1, l)) = l - n
        /\ \A i \in 1..l - n : SubSeq(c, n + 1, l)[i] = c[n + i]
    BY <1>0, <1>2, RestOfSeq
  <2>2. /\ u \in Seq(S) /\ Len(u) = Len(s) - n
        /\ \A i \in 1..Len(s) - n : u[i] = s[n + i]
    BY <1>0, <1>2, RestOfSeq
  <2> HIDE DEF u
  <2>3. /\ u \o t \in Seq(S) /\ Len(u \o t) = l - n
        /\ \A i \in 1..l - n : (u \o t)[i] = IF i <= Len(u) THEN u[i] ELSE t[i - Len(u)]
    <3>1. Len(s) - n + Len(t) = l - n
      BY <1>0
    <3>2. /\ u \o t \in Seq(S) /\ Len(u \o t) = Len(u) + Len(t)
          /\ \A i \in 1..Len(u) + Len(t) : (u \o t)[i] = IF i <= Len(u) THEN u[i] ELSE t[i - Len(u)]
      BY <2>2, ConcatProperties
    <3>3. Len(u) + Len(t) = l - n
      BY <2>2, <3>1
    <3> HIDE DEF l
    <3> QED BY <3>2, <3>3
  <2>4. ASSUME NEW i \in 1..l - n
        PROVE  SubSeq(c, n + 1, l)[i] = (u \o t)[i]
    <3>1. n + i \in 1..l /\ SubSeq(c, n + 1, l)[i] = c[n + i]
      BY <1>0, <2>1
    <3>2. CASE i <= Len(s) - n
      <4>1. i \in 1..Len(s) - n /\ n + i <= Len(s) /\ i <= Len(u)
        BY <1>0, <2>2, <3>2
      <4> QED BY <1>1, <2>2, <2>3, <3>1, <4>1
    <3>3. CASE i > Len(s) - n
      <4>1. ~(n + i <= Len(s)) /\ ~(i <= Len(u)) /\ i - Len(u) = n + i - Len(s)
        BY <1>0, <2>2, <3>3
      <4> QED BY <1>1, <2>3, <3>1, <4>1
    <3>4. i <= Len(s) - n \/ i > Len(s) - n
      BY <1>0
    <3> QED BY <3>2, <3>3, <3>4
  <2> HIDE DEF l
  <2> QED BY <2>1, <2>3, <2>4, SeqEqual
<1> QED BY <1>1, <1>3, <1>4 DEF c

LEMMA OutRingStays ==
  ASSUME UNCHANGED <<output.buffer, output.rpos>>,
         output'.avail - ReadUncounted' + WriteUncounted' = output.avail - ReadUncounted + WriteUncounted
  PROVE  OutRing' = OutRing
BY DEF OutRing, DataLeft

LEMMA OutQueueStays ==
  ASSUME OutRing' = OutRing, threads' <=> threads, ~threads => OutMail' = OutMail,
         phase' = "stopped" <=> phase = "stopped"
  PROVE  OutQueue' = OutQueue
<1>1. CASE threads
  BY <1>1 DEF OutQueue, OutRing
<1>2. CASE ~threads
  BY <1>2 DEF OutQueue, OutRing, OutMail
<1> QED BY <1>1, <1>2

LEMMA OutQueueIs ==
  /\ phase = "stopped" => OutQueue = <<>>
  /\ phase # "stopped" /\ threads => OutQueue = OutRing \o <<>>
  /\ phase # "stopped" /\ ~threads => OutQueue = OutRing \o OutMail
BY DEF OutQueue, OutRing, OutMail

LEMMA MailTypes ==
  ASSUME TypeOK
  PROVE  /\ toWorklet \in Seq(Message) /\ MailData(toWorklet) \in Seq(Seq(Sample))
         /\ OutMail \in Seq(Sample) /\ OutMail = FlattenSeq(MailData(toWorklet))
<1>1. toWorklet \in Seq(Message)
  BY DEF TypeOK, Message
<1>2. MailData(toWorklet) \in Seq(Seq(Sample))
  BY <1>1, MailDataTypes
<1>3. OutMail = FlattenSeq(MailData(toWorklet))
  BY DEF OutMail, MailData
<1> QED BY <1>1, <1>2, <1>3, FlattenTypes

LEMMA OutReads ==
  ASSUME AudioInv, ReadOutput
  PROVE  OutStream!Next
<1>1. /\ phase = "started" /\ step = "out_read" /\ step' = "out_add" /\ output.avail >= OutChunk
      /\ UNCHANGED <<mode, phase, engine, toWorklet, fresh>>
      /\ output'.buffer = output.buffer /\ output'.avail = output.avail
      /\ output'.rpos = ReadPos(OutSize, output.rpos, OutChunk)
      /\ heard' = Pick(output.buffer, ReadCells(OutSize, output.rpos, OutChunk))
  BY DEF ReadOutput, AudioInv, Seen, TypeOK, Ring
<1>2. /\ output.avail \in 0..OutSize /\ output.rpos \in 0..OutSize
      /\ OutChunk \in 1..OutSize /\ OutSize \in Nat \ {0} /\ OutChunk \in Nat
      /\ output.buffer \in [0..OutSize - 1 -> Sample]
  BY NumbersOfState, SizesAreNumbers DEF AudioInv
<1>3. ReadUncounted = 0 /\ ReadUncounted' = OutChunk /\ WriteUncounted' = WriteUncounted
  BY <1>1 DEF ReadUncounted, WriteUncounted
<1>4. PICK d \in 0..OutSize : d = output.avail - ReadUncounted + WriteUncounted
  BY OutCounts
<1>5. d \in Nat /\ OutChunk \in 0..d /\ output.avail - OutChunk + WriteUncounted = d - OutChunk
  BY <1>1, <1>2, <1>3, <1>4, OutCounts
<1>6. OutRing = Contents(output.buffer, OutSize, output.rpos, d)
  BY <1>4 DEF OutRing, DataLeft
<1>7. OutRing' = Contents(output.buffer, OutSize, ReadPos(OutSize, output.rpos, OutChunk), d - OutChunk)
  BY <1>1, <1>3, <1>5 DEF OutRing, DataLeft
<1>8. /\ Len(OutRing) = d /\ heard' = SubSeq(OutRing, 1, OutChunk)
      /\ OutRing' = SubSeq(OutRing, OutChunk + 1, d)
  <2>1. /\ Len(Contents(output.buffer, OutSize, output.rpos, d)) = d
        /\ Pick(output.buffer, ReadCells(OutSize, output.rpos, OutChunk))
             = SubSeq(Contents(output.buffer, OutSize, output.rpos, d), 1, OutChunk)
        /\ Contents(output.buffer, OutSize, ReadPos(OutSize, output.rpos, OutChunk), d - OutChunk)
             = SubSeq(Contents(output.buffer, OutSize, output.rpos, d), OutChunk + 1, d)
    <3>1. /\ OutSize \in Nat \ {0} /\ output.buffer \in [0..OutSize - 1 -> Sample]
          /\ output.rpos \in 0..OutSize /\ d \in 0..OutSize /\ OutChunk \in 0..d
      BY <1>2, <1>5
    <3>2. ReadsOldest(output.buffer, OutSize, output.rpos, d, OutChunk)
      BY <3>1, ReadTakes
    <3> QED BY <3>2 DEF ReadsOldest
  <2> QED BY <1>1, <1>6, <1>7, <2>1
<1>9. PICK rest \in Seq(Sample) : /\ OutQueue = OutRing \o rest /\ OutQueue' = OutRing' \o rest
  <2>1. CASE threads
    <3>1. threads' /\ phase # "stopped" /\ phase' # "stopped" /\ <<>> \in Seq(Sample)
      BY <1>1, <2>1 DEF threads
    <3>2. OutQueue' = OutRing' \o <<>>
      BY <3>1 DEF OutQueue, OutRing
    <3>3. OutQueue = OutRing \o <<>>
      BY <2>1, <3>1, OutQueueIs
    <3> QED BY <3>1, <3>2, <3>3
  <2>2. CASE ~threads
    <3>1. ~threads' /\ phase # "stopped" /\ phase' # "stopped" /\ OutMail \in Seq(Sample)
      BY <1>1, <2>2, MailTypes DEF threads, AudioInv
    <3>2. OutMail' = OutMail
      BY <1>1 DEF OutMail
    <3>3. OutQueue' = OutRing' \o OutMail'
      BY <3>1 DEF OutQueue, OutRing, OutMail
    <3>4. OutQueue = OutRing \o OutMail
      BY <2>2, <3>1, OutQueueIs
    <3> QED BY <3>1, <3>2, <3>3, <3>4
  <2> QED BY <2>1, <2>2
<1>10. OutRing \in Seq(Sample)
  BY OutRingTypes
<1>11. /\ SubSeq(OutQueue, 1, OutChunk) = SubSeq(OutRing, 1, OutChunk)
       /\ SubSeq(OutQueue, OutChunk + 1, Len(OutQueue)) = SubSeq(OutRing, OutChunk + 1, d) \o rest
       /\ Len(OutQueue) = d + Len(rest)
  BY <1>5, <1>8, <1>9, <1>10, TakeOfConcat
<1>12. OutChunk \in 1..Len(OutQueue)
  <2>1. Len(rest) \in Nat
    OBVIOUS
  <2> QED BY <1>2, <1>5, <1>11, <2>1
<1>13. OutQueue' = SubSeq(OutQueue, OutChunk + 1, Len(OutQueue)) /\ heard' = SubSeq(OutQueue, 1, OutChunk)
  BY <1>8, <1>9, <1>11
<1>14. fresh'.out = fresh.out /\ phase' = phase
  BY <1>1
<1> QED BY <1>12, <1>13, <1>14, OutTakes

LEMMA OutProcess ==
  ASSUME AudioInv, Process
  PROVE  [OutStream!Next]_(OutStream!vars)
<1>1. CASE ReadOutput
  BY <1>1, OutReads
<1>2. CASE ~ReadOutput
  <2>1. /\ UNCHANGED <<mode, phase, engine, toWorklet, heard, output.buffer, output.rpos>>
        /\ fresh'.out = fresh.out
    BY <1>2 DEF Process, BeginBlock, LookForSpace, WriteInput, AddInput, LookForData, AddOutput,
       AudioInv, TypeOK, Ring
  <2>2. output'.avail - ReadUncounted' + WriteUncounted' = output.avail - ReadUncounted + WriteUncounted
    <3>1. WriteUncounted' = WriteUncounted
      BY <2>1 DEF WriteUncounted
    <3>2. CASE AddOutput
      <4>1. /\ ReadUncounted = OutChunk /\ ReadUncounted' = 0 /\ output'.avail = output.avail - OutChunk
        BY <3>2 DEF AddOutput, ReadUncounted, AudioInv, TypeOK, Ring
      <4>2. output.avail \in Int /\ OutChunk \in Int
        BY NumbersOfState, SizesAreNumbers DEF AudioInv
      <4>3. output.avail - OutChunk - 0 = output.avail - OutChunk
        BY <4>2
      <4> QED BY <3>1, <4>1, <4>3
    <3>3. CASE ~AddOutput
      <4>1. output' = output /\ step # "out_add" /\ step' # "out_add"
        BY <1>2, <3>3 DEF Process, BeginBlock, LookForSpace, WriteInput, AddInput, LookForData
      <4> QED BY <3>1, <4>1 DEF ReadUncounted
    <3> QED BY <3>2, <3>3
  <2>3. OutRing' = OutRing
    BY <2>1, <2>2, OutRingStays
  <2>4. OutQueue' = OutQueue
    <3>1. threads' <=> threads
      BY <2>1 DEF threads
    <3>2. OutMail' = OutMail
      BY <2>1 DEF OutMail
    <3> QED BY <2>1, <2>3, <3>1, <3>2, OutQueueStays
  <2> QED BY <2>1, <2>4, OutRests
<1> QED BY <1>1, <1>2

LEMMA OutStarts ==
  ASSUME AudioInv, StreamInv, ReceiveStart
  PROVE  [OutStream!Next]_(OutStream!vars)
<1>1. /\ toWorklet # <<>> /\ Head(toWorklet).cmd = "start" /\ toWorklet' = Tail(toWorklet)
      /\ UNCHANGED <<mode, engine, fresh, heard, step>> /\ step = "idle" /\ phase' = "started"
      /\ output' = IF threads THEN output ELSE NewRing(OutSize, Silence, OutSize)
  BY DEF ReceiveStart, Receive
<1>2. phase = "created"
  BY StartsOnce
<1>3. (threads' <=> threads) /\ phase # "stopped" /\ phase' # "stopped"
  BY <1>1, <1>2 DEF threads
<1>4. /\ ReadUncounted = 0 /\ ReadUncounted' = 0 /\ WriteUncounted' = WriteUncounted
  BY <1>1 DEF ReadUncounted, WriteUncounted
<1>5. CASE threads
  <2>1. output' = output
    BY <1>1, <1>5
  <2>2. OutRing' = OutRing
    BY <1>4, <2>1 DEF OutRing
  <2>3. OutQueue' = OutQueue
    BY <1>3, <1>5, <2>2, OutQueueStays
  <2> QED BY <1>1, <1>3, <2>3, OutRests
<1>6. CASE ~threads
  <2>1. output.avail = 0 /\ heard = <<>> /\ fresh.out = 0 /\ WriteUncounted = 0
    BY <1>2, <1>6, OutCounts DEF AudioInv, Mail, DataLeft, StreamInv, Unheard
  <2>2. OutMail = <<>> /\ OutMail' = <<>>
    <3>1. toWorklet = <<Start>> \/ toWorklet = <<Start, Stop>>
      BY <1>1, <1>2 DEF AudioInv, Mail, TypeOK
    <3>2. toWorklet' = <<>> \/ toWorklet' = <<Stop>>
      <4>1. Tail(<<Start>>) = <<>>
        OBVIOUS
      <4>2. Tail(<<Start, Stop>>) = <<Stop>>
        OBVIOUS
      <4> QED BY <1>1, <3>1, <4>1, <4>2, Zenon
    <3>3. Start \in Message /\ Stop \in Message /\ Start.data = <<>> /\ Stop.data = <<>>
      BY DEF Start, Stop, Message
    <3>4. FlattenSeq(MailData(<<>>)) = <<>>
      <4>1. MailData(<<>>) = <<>> /\ <<>> \in Seq(Seq(Sample))
        BY DEF MailData
      <4> QED BY <4>1, FlattenTypes
    <3>5. FlattenSeq(MailData(<<Stop>>)) = <<>>
      <4>1. <<>> \in Seq(Message) /\ Append(<<>>, Stop) = <<Stop>>
        BY <3>3
      <4>2. FlattenSeq(MailData(Append(<<>>, Stop))) = <<>> \o <<>>
        BY <3>3, <3>4, <4>1, MailAppends
      <4> QED BY <4>1, <4>2
    <3>6. OutMail' = <<>>
      <4>1. OutMail' = FlattenSeq(MailData(toWorklet'))
        BY DEF OutMail, MailData
      <4> QED BY <3>2, <3>4, <3>5, <4>1
    <3>7. OutMail = Head(toWorklet).data \o FlattenSeq(MailData(Tail(toWorklet)))
      BY <1>1, MailTypes, MailHeads DEF AudioInv
    <3>8. Head(toWorklet).data = <<>>
      BY <3>1, <3>3
    <3>9. FlattenSeq(MailData(Tail(toWorklet))) = <<>>
      BY <1>1, <3>2, <3>4, <3>5
    <3> QED BY <3>6, <3>7, <3>8, <3>9
  <2>3. OutRing = <<>>
    <3>1. OutRing \in Seq(Sample) /\ Len(OutRing) = 0
      BY <1>4, <2>1, OutRingTypes
    <3> QED BY <3>1
  <2>4. OutQueue = <<>>
    BY <1>3, <1>6, <2>2, <2>3, OutQueueIs
  <2>5. OutRing' = [k \in 1..OutSize |-> Silence]
    <3>1. output'.avail - ReadUncounted' + WriteUncounted' = OutSize
      BY <1>1, <1>4, <1>6, <2>1, SizesAreNumbers DEF NewRing
    <3>2. OutRing' = Contents(output'.buffer, OutSize, output'.rpos, OutSize)
      BY <3>1 DEF OutRing, DataLeft
    <3>3. output'.buffer = [c \in 0..OutSize - 1 |-> Silence] /\ output'.rpos = 0
      BY <1>1, <1>6 DEF NewRing
    <3>4. ASSUME NEW k \in 1..OutSize
          PROVE  output'.buffer[(output'.rpos + k - 1) % OutSize] = Silence
      <4>1. 0 + k - 1 \in Nat /\ OutSize \in Nat \ {0}
        BY SizesAreNumbers
      <4>2. (0 + k - 1) % OutSize \in 0..OutSize - 1
        BY <4>1, Remainders
      <4> QED BY <3>3, <4>2
    <3> QED BY <3>2, <3>4 DEF Contents
  <2>6. OutQueue' = OutRing' \o OutMail'
    BY <1>3, <1>6 DEF OutQueue, OutRing, OutMail
  <2>7. [k \in 1..OutSize |-> Silence] \in Seq(Sample)
    <3>1. Silence \in Sample /\ OutSize \in Nat
      BY SizesAreNumbers DEF Silence, Sample
    <3> QED BY <3>1, IsASeq
  <2>8. OutQueue' = [k \in 1..OutSize |-> Silence]
    BY <2>2, <2>5, <2>6, <2>7, ConcatEmptySeq
  <2> QED BY <1>1, <1>3, <2>1, <2>4, <2>8, OutBegins
<1> QED BY <1>5, <1>6

\* A chunk moves from the messages into the ring, which is no step of the stream.
LEMMA OutReceives ==
  ASSUME AudioInv, AudioInv', StreamInv, ReceiveChunk
  PROVE  UNCHANGED OutStream!vars
<1> DEFINE data == Head(toWorklet).data
<1>1. /\ phase = "started" /\ ~threads /\ data \in Seq(Sample) /\ Len(data) = OutChunk
  BY ChunkArrives
<1>2. /\ toWorklet # <<>> /\ toWorklet' = Tail(toWorklet) /\ phase' = phase
      /\ UNCHANGED <<mode, engine, fresh, heard, step>> /\ step = "idle"
      /\ output'.rpos = output.rpos /\ output'.avail = output.avail + Len(data)
      /\ output'.buffer = Fill(output.buffer, WriteCells(OutSize, output.wpos, Len(data)), data)
  BY DEF ReceiveChunk, Receive, AudioInv, TypeOK, Ring
<1> HIDE DEF data
<1>3. ReadUncounted = 0 /\ ReadUncounted' = 0 /\ WriteUncounted = 0 /\ WriteUncounted' = 0
  <2>1. WriteUncounted' = WriteUncounted
    BY <1>2 DEF WriteUncounted
  <2> QED BY <1>1, <1>2, <2>1, OutCounts DEF ReadUncounted
<1>4. /\ output.avail \in 0..OutSize /\ output'.avail \in 0..OutSize /\ output.rpos \in 0..OutSize
      /\ output.wpos \in 0..OutSize - 1 /\ OutSize \in Nat \ {0} /\ OutChunk \in Nat
      /\ output.buffer \in [0..OutSize - 1 -> Sample]
  <2>1. output'.avail \in 0..OutSize
    BY DEF AudioInv, TypeOK, Ring
  <2> QED BY <2>1, NumbersOfState, SizesAreNumbers DEF AudioInv
<1>5. Ahead(OutSize, output.rpos, output.avail, output.wpos)
  BY <1>3, <1>4 DEF StreamInv, OutApart, Ahead
<1>6. OutRing' = OutRing \o data
  <2>1. output.avail + Len(data) <= OutSize
    BY <1>1, <1>2, <1>4
  <2>2. WritesBehind(output.buffer, OutSize, output.rpos, output.avail, output.wpos, data)
    BY <1>1, <1>4, <1>5, <2>1, WriteAppends
  <2>3. OutRing = Contents(output.buffer, OutSize, output.rpos, output.avail)
    <3>1. output.avail - ReadUncounted + WriteUncounted = output.avail
      BY <1>3, <1>4
    <3> QED BY <3>1 DEF OutRing, DataLeft
  <2>4. OutRing' = Contents(output'.buffer, OutSize, output'.rpos, output.avail + Len(data))
    <3>1. output'.avail - ReadUncounted' + WriteUncounted' = output.avail + Len(data)
      BY <1>1, <1>2, <1>3, <1>4
    <3> QED BY <3>1 DEF OutRing, DataLeft
  <2> QED BY <1>2, <2>2, <2>3, <2>4 DEF WritesBehind
<1>7. OutMail = data \o OutMail' /\ OutMail' \in Seq(Sample)
  <2>1. OutMail = data \o FlattenSeq(MailData(Tail(toWorklet)))
    BY <1>2, MailTypes, MailHeads DEF AudioInv, data
  <2>2. OutMail' = FlattenSeq(MailData(Tail(toWorklet)))
    BY <1>2 DEF OutMail, MailData
  <2>3. OutMail' \in Seq(Sample)
    <3>1. Tail(toWorklet) \in Seq(Message)
      BY <1>2, MailTypes, HeadTailProperties DEF AudioInv
    <3>2. MailData(Tail(toWorklet)) \in Seq(Seq(Sample))
      BY <3>1, MailDataTypes
    <3> QED BY <2>2, <3>2, FlattenTypes
  <2> QED BY <2>1, <2>2, <2>3
<1>8. (OutRing \o data) \o OutMail' = OutRing \o (data \o OutMail')
  <2>1. OutRing \in Seq(Sample) /\ Regroups(Sample)
    BY OutRingTypes, JoinsRegroup
  <2> QED BY <1>1, <1>7, <2>1 DEF Regroups
<1>9. OutQueue' = OutQueue
  <2>1. OutQueue' = OutRing' \o OutMail'
    BY <1>1, <1>2 DEF OutQueue, OutRing, OutMail, threads
  <2>2. OutQueue = OutRing \o OutMail
    BY <1>1, OutQueueIs
  <2> QED BY <1>6, <1>7, <1>8, <2>1, <2>2
<1> QED BY <1>2, <1>9, OutRests

LEMMA OutStops ==
  ASSUME AudioInv, ReceiveStop
  PROVE  OutStream!Next
<1>1. /\ toWorklet # <<>> /\ phase' = "stopped" /\ UNCHANGED <<fresh, heard>>
  BY DEF ReceiveStop, Receive
<1>2. phase # "stopped"
  BY <1>1 DEF AudioInv, Mail
<1>3. OutQueue' = <<>>
  BY <1>1 DEF OutQueue
<1> QED BY <1>1, <1>2, <1>3, OutCloses

LEMMA OutFills ==
  ASSUME AudioInv, AudioInv', StreamInv, EngineFill
  PROVE  [OutStream!Next]_(OutStream!vars)
<1> DEFINE samples == Made(fresh.out, engine.write)
<1>1. /\ engine.at = "fill" /\ engine'.at = "out_add" /\ engine'.write = engine.write
      /\ UNCHANGED <<mode, phase, step, heard>> /\ fresh'.out = MadeAfter(fresh.out, engine.write)
      /\ output'.rpos = output.rpos /\ output'.avail = output.avail
      /\ output'.buffer = Fill(output.buffer, WriteCells(OutSize, output.wpos, engine.write), samples)
  BY DEF EngineFill, AudioInv, TypeOK, Ring
<1>2. threads /\ threads'
  <2>1. threads
    BY <1>1 DEF AudioInv, Seen, Waiting
  <2> QED BY <1>1, <2>1 DEF threads
<1>3. /\ output.avail \in 0..OutSize /\ output.rpos \in 0..OutSize /\ output.wpos \in 0..OutSize - 1
      /\ OutSize \in Nat \ {0} /\ OutChunk \in Nat /\ output.buffer \in [0..OutSize - 1 -> Sample]
      /\ engine.write \in 0..OutSize /\ engine.write \in Nat /\ fresh.out \in 0..Ids - 1
  BY NumbersOfState, SizesAreNumbers DEF AudioInv
<1>4. samples \in Seq(Sample) /\ Len(samples) = engine.write
  BY <1>3, MadeTypes
<1> HIDE DEF samples
<1>5. /\ WriteUncounted = 0 /\ WriteUncounted' = engine.write /\ ReadUncounted' = ReadUncounted
      /\ output.avail - ReadUncounted \in 0..OutSize
      /\ output.avail + engine.write <= OutSize
  <2>1. WriteUncounted = 0 /\ WriteUncounted' = engine.write /\ ReadUncounted' = ReadUncounted
    BY <1>1 DEF WriteUncounted, ReadUncounted
  <2>2. output.avail + engine.write <= OutSize
    BY <1>2 DEF AudioInv, Seen
  <2> QED BY <2>1, <2>2, OutCounts
<1>6. PICK d \in 0..OutSize : d = output.avail - ReadUncounted
  BY <1>5
<1>7. d + engine.write <= OutSize /\ ReadUncounted \in Nat
  <2>1. ReadUncounted \in Nat
    BY <1>3, OutCounts
  <2> QED BY <1>3, <1>5, <1>6, <2>1
<1>8. OutRing = Contents(output.buffer, OutSize, output.rpos, d)
  <2>1. output.avail - ReadUncounted + WriteUncounted = d
    BY <1>3, <1>5, <1>6, <1>7
  <2> QED BY <2>1 DEF OutRing, DataLeft
<1>9. OutRing' = Contents(output'.buffer, OutSize, output.rpos, d + engine.write)
  <2>1. output'.avail - ReadUncounted' + WriteUncounted' = d + engine.write
    BY <1>1, <1>3, <1>5, <1>6, <1>7
  <2> QED BY <1>1, <2>1 DEF OutRing, DataLeft
<1>10. OutRing' = OutRing \o samples
  <2>1. Ahead(OutSize, output.rpos, d, output.wpos)
    BY <1>3, <1>5, <1>6, <1>7 DEF StreamInv, OutApart, Ahead
  <2>2. d + Len(samples) <= OutSize
    BY <1>4, <1>7
  <2>3. WritesBehind(output.buffer, OutSize, output.rpos, d, output.wpos, samples)
    BY <1>3, <1>4, <2>1, <2>2, WriteAppends
  <2> QED BY <1>1, <1>4, <1>8, <1>9, <2>3 DEF WritesBehind
<1>11. OutRing \in Seq(Sample) /\ Len(OutRing) = d
  <2>1. output.avail - ReadUncounted + WriteUncounted = d
    BY <1>3, <1>5, <1>6, <1>7
  <2> QED BY <2>1, OutRingTypes
<1>12. CASE phase = "stopped"
  <2>1. OutQueue' = OutQueue /\ phase' = "stopped"
    BY <1>1, <1>12 DEF OutQueue
  <2>2. fresh'.out \in 0..Ids - 1
    BY DEF AudioInv, TypeOK
  <2> QED BY <1>1, <1>12, <2>1, <2>2, OutLoses
<1>13. CASE phase # "stopped"
  <2>1. OutQueue = OutRing
    BY <1>2, <1>11, <1>13, OutQueueIs, ConcatEmptySeq
  <2>2. OutRing \o samples \in Seq(Sample)
    BY <1>4, <1>11, ConcatProperties
  <2>3. OutQueue' = OutRing \o samples
    <3>1. OutQueue' = OutRing' \o <<>>
      BY <1>1, <1>2, <1>13 DEF OutQueue, OutRing
    <3> QED BY <1>10, <2>2, <3>1, ConcatEmptySeq
  <2>4. CASE engine.write = 0
    <3>1. samples = <<>>
      BY <1>4, <2>4
    <3>2. OutQueue' = OutQueue
      BY <1>11, <2>1, <2>3, <3>1, ConcatEmptySeq
    <3>3. fresh'.out = fresh.out
      <4>1. fresh.out + 0 \in Nat /\ fresh.out \in Nat /\ fresh.out < Ids /\ Ids \in Nat \ {0}
        BY <1>3, SizesAreNumbers
      <4>2. fresh.out + 0 = fresh.out /\ fresh.out % Ids = fresh.out
        BY <4>1
      <4> QED BY <1>1, <2>4, <4>2 DEF MadeAfter
    <3> QED BY <1>1, <3>2, <3>3, OutRests
  <2>5. CASE engine.write # 0
    <3>1. engine.write \in 1..OutSize - Len(OutQueue)
      BY <1>3, <1>7, <1>11, <2>1, <2>5
    <3>2. OutQueue' = OutQueue \o Made(fresh.out, engine.write)
      BY <2>1, <2>3 DEF samples
    <3> QED BY <1>1, <1>13, <3>1, <3>2, OutPuts
  <2> QED BY <2>4, <2>5
<1> QED BY <1>12, <1>13

LEMMA OutEngine ==
  ASSUME AudioInv, AudioInv', StreamInv, Engine
  PROVE  [OutStream!Next]_(OutStream!vars)
<1>1. CASE EngineFill
  BY <1>1, OutFills
<1>2. CASE ~EngineFill
  <2>1. UNCHANGED <<mode, phase, step, toWorklet, fresh, heard, output.buffer, output.rpos>>
    BY <1>2 DEF Engine, EngineLook, EngineCapture, EngineCaptured, EngineFilled, AudioInv, TypeOK, Ring
  <2>2. output'.avail - ReadUncounted' + WriteUncounted' = output.avail - ReadUncounted + WriteUncounted
    <3>1. ReadUncounted' = ReadUncounted
      BY <2>1 DEF ReadUncounted
    <3>2. CASE EngineFilled
      <4>1. /\ WriteUncounted = engine.write /\ WriteUncounted' = 0
            /\ output'.avail = output.avail + engine.write
        BY <3>2 DEF EngineFilled, WriteUncounted, Waiting, AudioInv, TypeOK, Ring
      <4>2. output.avail \in Int /\ engine.write \in Int /\ ReadUncounted \in Int
        BY OutIntegers
      <4> QED BY ONLY <3>1, <4>1, <4>2
    <3>3. CASE ~EngineFilled
      <4>1. output' = output /\ engine.at # "out_add" /\ engine'.at # "out_add"
        <5>1. engine \in [at : {"wait", "capture", "in_add", "fill", "out_add"},
                           read : 0..InSize, write : 0..OutSize]
          BY DEF AudioInv, TypeOK
        <5>2. CASE EngineLook
          BY <5>2 DEF EngineLook
        <5>3. CASE EngineCapture
          BY <5>1, <5>3 DEF EngineCapture
        <5>4. CASE EngineCaptured
          BY <5>1, <5>4 DEF EngineCaptured
        <5> QED BY <1>2, <3>3, <5>2, <5>3, <5>4 DEF Engine
      <4> QED BY <3>1, <4>1 DEF WriteUncounted
    <3> QED BY <3>2, <3>3
  <2>3. OutRing' = OutRing
    BY <2>1, <2>2, OutRingStays
  <2>4. OutQueue' = OutQueue
    <3>1. threads' <=> threads
      BY <2>1 DEF threads
    <3>2. OutMail' = OutMail
      BY <2>1 DEF OutMail
    <3> QED BY <2>1, <2>3, <3>1, <3>2, OutQueueStays
  <2> QED BY <2>1, <2>4, OutRests
<1> QED BY <1>1, <1>2

\* The page's messages: an empty one changes nothing, a chunk adds its samples.
LEMMA OutSends ==
  ASSUME AudioInv, ~threads, SendChunk
  PROVE  OutStream!Next
<1>1. /\ main = "open" /\ reads > 0 /\ UNCHANGED <<mode, output, phase, step, engine, heard>>
      /\ fresh'.out = MadeAfter(fresh.out, OutChunk)
      /\ toWorklet' = Append(toWorklet, Chunk(Made(fresh.out, OutChunk)))
  BY DEF SendChunk, AudioInv, TypeOK
<1>2. phase = "started"
  <2>1. reads # 0
    BY <1>1 DEF AudioInv, TypeOK
  <2> QED BY <1>1, <2>1 DEF AudioInv, Mail, TypeOK
<1>3. /\ OutChunk \in 1..OutSize /\ OutChunk \in Nat /\ OutSize \in Nat /\ fresh.out \in 0..Ids - 1
      /\ output.avail \in Nat /\ reads \in Nat \ {0}
  <2>1. TypeOK /\ reads \in Nat
    BY DEF AudioInv, TypeOK
  <2>2. output.avail \in 0..OutSize /\ fresh.out \in 0..Ids - 1
    BY <2>1, NumbersOfState
  <2>3. OutChunk \in 1..OutSize /\ OutChunk \in Nat /\ OutSize \in Nat
    BY SizesAreNumbers
  <2>4. reads \in Nat \ {0}
    BY <1>1, <2>1
  <2>5. output.avail \in Nat
    BY <2>2, <2>3
  <2> QED BY <2>2, <2>3, <2>4, <2>5
<1> DEFINE samples == Made(fresh.out, OutChunk)
<1>4. samples \in Seq(Sample) /\ Len(samples) = OutChunk
  BY <1>3, MadeTypes
<1> HIDE DEF samples
<1>5. Chunk(samples) \in Message /\ Chunk(samples).data = samples
  BY <1>4 DEF Chunk, Message
<1>6. /\ toWorklet \in Seq(Message) /\ OutMail \in Seq(Sample)
      /\ OutMail = FlattenSeq(MailData(toWorklet)) /\ MailData(toWorklet) \in Seq(Seq(Sample))
  BY MailTypes DEF AudioInv
<1>7. OutMail' = OutMail \o samples
  <2>1. OutMail' = FlattenSeq(MailData(Append(toWorklet, Chunk(samples))))
    BY <1>1 DEF OutMail, MailData, samples
  <2> QED BY <1>5, <1>6, <2>1, MailAppends
<1>8. OutRing' = OutRing
  <2>1. ReadUncounted' = ReadUncounted /\ WriteUncounted' = WriteUncounted
    BY <1>1 DEF ReadUncounted, WriteUncounted
  <2> QED BY <1>1, <2>1 DEF OutRing
<1>9. OutRing \in Seq(Sample) /\ Len(OutRing) <= output.avail /\ Len(OutRing) \in Nat
  <2>1. OutRing \in Seq(Sample) /\ Len(OutRing) = output.avail - ReadUncounted + 0
    BY OutRingTypes, OutCounts
  <2>2. ReadUncounted \in Nat
    BY <1>3, OutCounts
  <2> QED BY <1>3, <2>1, <2>2, LenProperties
<1>10. OutQueue = OutRing \o OutMail /\ OutQueue' = (OutRing \o OutMail) \o samples
  <2>1. OutQueue' = OutRing' \o OutMail'
    BY <1>1, <1>2 DEF OutQueue, OutRing, OutMail, threads
  <2>2. OutRing \o (OutMail \o samples) = (OutRing \o OutMail) \o samples
    <3>1. Regroups(Sample)
      BY JoinsRegroup
    <3> QED BY <1>4, <1>6, <1>9, <3>1 DEF Regroups
  <2> QED BY <1>2, <1>7, <1>8, <2>1, <2>2, OutQueueIs
<1>11. Len(OutMail) <= OutChunk * ChunksSent
  <2>1. ChunksSent = Len(toWorklet)
    BY <1>1, <1>2, ChunksAreMail DEF AudioInv, Sent
  <2>2. ASSUME NEW k \in 1..Len(toWorklet)
        PROVE  Len(toWorklet[k].data) = OutChunk
    BY <1>1, <1>2 DEF AudioInv, Mail
  <2>3. /\ Len(MailData(toWorklet)) = Len(toWorklet)
        /\ \A k \in 1..Len(toWorklet) : MailData(toWorklet)[k] = toWorklet[k].data
    BY <1>6, MailDataTypes
  <2>4. \A k \in 1..Len(MailData(toWorklet)) : Len(MailData(toWorklet)[k]) <= OutChunk
    BY <1>3, <2>2, <2>3
  <2>5. Len(FlattenSeq(MailData(toWorklet))) <= OutChunk * Len(MailData(toWorklet))
    BY <1>3, <1>6, <2>4, FlattenBound
  <2> QED BY <1>6, <2>1, <2>3, <2>5
<1>12. OutChunk \in 1..OutSize - Len(OutQueue)
  <2>1. output.avail + OutChunk * (ChunksSent + reads) = OutSize
    BY <1>2 DEF AudioInv, CreditsBalance, DataLeft
  <2>2. ChunksSent \in Nat
    BY <1>2, ChunksAreMail DEF AudioInv
  <2>3. OutChunk * (ChunksSent + reads) >= OutChunk * ChunksSent + OutChunk
    <3>1. OutChunk * (ChunksSent + reads) = OutChunk * ChunksSent + OutChunk * reads
      BY <1>3, <2>2
    <3>2. OutChunk * reads >= OutChunk
      BY <1>3
    <3>3. OutChunk * ChunksSent \in Int /\ OutChunk * reads \in Int
      BY <1>3, <2>2
    <3> QED BY <1>3, <3>1, <3>2, <3>3
  <2>4. Len(OutQueue) = Len(OutRing) + Len(OutMail) /\ Len(OutMail) \in Nat
    BY <1>6, <1>9, <1>10, ConcatProperties, LenProperties
  <2>5. PICK p \in Int : p = OutChunk * ChunksSent
    BY <1>3, <2>2
  <2>6. PICK q \in Int : q = OutChunk * (ChunksSent + reads)
    BY <1>3, <2>2
  <2>7. output.avail + q = OutSize /\ q >= p + OutChunk /\ Len(OutMail) <= p
    BY <1>11, <2>1, <2>3, <2>5, <2>6
  <2> QED BY <1>3, <1>9, <2>4, <2>7
<1>13. /\ phase # "stopped" /\ phase' # "stopped" /\ heard' = heard
       /\ OutQueue' = OutQueue \o Made(fresh.out, OutChunk)
  BY <1>1, <1>2, <1>10 DEF samples
<1> QED BY <1>1, <1>12, <1>13, OutPuts

LEMMA OutMain ==
  ASSUME AudioInv, Open \/ SendChunk \/ TakeInput \/ Close \/ UNCHANGED vars
  PROVE  [OutStream!Next]_(OutStream!vars)
<1>1. UNCHANGED <<mode, output, phase, step, engine, heard>>
  BY DEF Open, SendChunk, TakeInput, Close, vars
<1>2. OutRing' = OutRing
  <2>1. ReadUncounted' = ReadUncounted /\ WriteUncounted' = WriteUncounted
    BY <1>1 DEF ReadUncounted, WriteUncounted
  <2> QED BY <1>1, <2>1 DEF OutRing
<1>3. CASE SendChunk
  <2>1. ~threads
    BY <1>3 DEF SendChunk, AudioInv, Mail
  <2> QED BY <1>3, <2>1, OutSends
<1>4. CASE ~SendChunk
  <2>1. fresh'.out = fresh.out
    BY <1>4 DEF Open, TakeInput, Close, vars
  <2>2. OutMail' = OutMail
    <3>1. CASE toWorklet' = toWorklet
      BY <3>1 DEF OutMail
    <3>2. CASE toWorklet' # toWorklet
      <4>1. PICK m \in {Start, Stop} : toWorklet' = Append(toWorklet, m)
        BY <1>4, <3>2 DEF Open, TakeInput, Close, vars
      <4>2. m \in Message /\ m.data = <<>>
        <5>1. Start \in Message /\ Start.data = <<>> /\ Stop \in Message /\ Stop.data = <<>>
          BY DEF Start, Stop, Message
        <5> QED BY <5>1
      <4>3. toWorklet \in Seq(Message) /\ OutMail \in Seq(Sample)
            /\ OutMail = FlattenSeq(MailData(toWorklet))
        BY MailTypes DEF AudioInv
      <4>4. OutMail' = FlattenSeq(MailData(Append(toWorklet, m)))
        BY <4>1 DEF OutMail, MailData
      <4>5. OutMail' = OutMail \o <<>>
        BY <4>2, <4>3, <4>4, MailAppends
      <4> QED BY <4>3, <4>5, ConcatEmptySeq
    <3> QED BY <3>1, <3>2
  <2>3. OutQueue' = OutQueue
    <3>1. threads' <=> threads
      BY <1>1 DEF threads
    <3> QED BY <1>1, <1>2, <2>2, <3>1, OutQueueStays
  <2> QED BY <1>1, <2>1, <2>3, OutRests
<1> QED BY <1>3, <1>4

LEMMA OutStep == AudioInv /\ AudioInv' /\ StreamInv /\ [Next]_vars => [OutStream!Next]_(OutStream!vars)
<1> SUFFICES ASSUME AudioInv, AudioInv', StreamInv, [Next]_vars
             PROVE  [OutStream!Next]_(OutStream!vars)
  OBVIOUS
<1>1. CASE Process
  BY <1>1, OutProcess
<1>2. CASE Messages
  BY <1>2, OutStarts, OutReceives, OutStops DEF Messages
<1>3. CASE Engine
  BY <1>3, OutEngine
<1>4. CASE Open \/ SendChunk \/ TakeInput \/ Close \/ UNCHANGED vars
  BY <1>4, OutMain
<1> QED BY <1>1, <1>2, <1>3, <1>4 DEF Next, Silent

\* Whatever way the samples go to the player, by the shared ring or in messages that never
\* outrun his reads, he hears them in the order they were made, each once, none left out.
THEOREM SoundInOrder == Spec => HeardInOrder
<1>1. Init => OutStream!Init
  <2> SUFFICES ASSUME Init
               PROVE  OutStream!Init
    OBVIOUS
  <2>1. heard = <<>> /\ fresh.out = 0 /\ phase # "stopped"
    BY DEF Init
  <2>2. OutRing = <<>>
    <3>1. AudioInv
      BY AudioStarts
    <3>2. output.avail = 0 /\ step = "idle" /\ engine.at = "wait"
      BY DEF Init, NewRing, Waiting
    <3>3. OutRing \in Seq(Sample) /\ Len(OutRing) = 0
      BY <3>1, <3>2, OutRingTypes DEF ReadUncounted, WriteUncounted
    <3> QED BY <3>3
  <2>3. OutMail = <<>>
    <3>1. toWorklet = <<>> /\ MailData(<<>>) = <<>> /\ <<>> \in Seq(Seq(Sample))
      BY DEF Init, MailData
    <3>2. OutMail = FlattenSeq(MailData(toWorklet))
      BY DEF OutMail, MailData
    <3> QED BY <3>1, <3>2, FlattenTypes
  <2>4. OutQueue = <<>>
    BY <2>1, <2>2, <2>3, OutQueueIs
  <2> QED BY <2>1, <2>4 DEF OutStream!Init
<1> QED BY <1>1, AudioStarts, AudioKeeps, StreamStarts, StreamKeeps, OutStep, PTL
        DEF Spec, HeardInOrder, OutStream!Spec

-----------------------------------------------------------------------------
(* The input stream.                                                           *)

\* Without threads a message holds at least one sample, and the engine's place in its
\* buffer is never the buffer's end.
Blocks ==
  ~threads => input.rpos < InSize /\ \A k \in 1..Len(inputs) : Len(inputs[k]) >= 1

LEMMA MessagesPosted ==
  /\ threads => InQueue = InRing
  /\ ~threads /\ main = "closed" => InQueue = <<>>
  /\ ~threads /\ main # "closed" => InQueue = FlattenSeq(inputs)
BY DEF InQueue, InRing

LEMMA InRingStays ==
  ASSUME UNCHANGED <<input.buffer, input.rpos>>,
         input'.avail - TakeUncounted' + PutUncounted' = input.avail - TakeUncounted + PutUncounted
  PROVE  InRing' = InRing
BY DEF InRing, DataLeft

LEMMA InQueueStays ==
  ASSUME threads' <=> threads, threads => InRing' = InRing,
         ~threads => inputs' = inputs /\ (main' = "closed" <=> main = "closed")
  PROVE  InQueue' = InQueue
<1>1. CASE threads
  BY <1>1 DEF InQueue, InRing
<1>2. CASE ~threads
  BY <1>2 DEF InQueue
<1> QED BY <1>1, <1>2

LEMMA BlocksStay ==
  ASSUME Blocks, UNCHANGED <<mode, inputs, input.rpos>>
  PROVE  Blocks'
BY DEF Blocks, threads

-----------------------------------------------------------------------------
(* With threads: the two sides of the input ring.                              *)

LEMMA InCaptures ==
  ASSUME AudioInv, EngineCapture
  PROVE  [InStream!Next]_(InStream!vars)
<1>1. /\ engine.at = "capture" /\ engine'.at = "in_add" /\ engine'.read = engine.read
      /\ UNCHANGED <<mode, step, block, main, inputs, fresh>>
  BY DEF EngineCapture, AudioInv, TypeOK
<1>2. threads /\ threads' /\ engine.read <= input.avail
  <2>1. threads
    BY <1>1 DEF AudioInv, Seen, Waiting
  <2> QED BY <1>1, <2>1 DEF threads, AudioInv, Seen
<1>3. /\ input.avail \in 0..InSize /\ input.rpos \in 0..InSize /\ engine.read \in 0..InSize
      /\ input.buffer \in [0..InSize - 1 -> Sample]
  BY NumbersOfState DEF AudioInv
<1>4. InSize \in Nat \ {0} /\ engine.read \in Nat /\ input.avail \in Nat
  BY <1>3, SizesAreNumbers
<1>5. TakeUncounted = 0 /\ TakeUncounted' = engine.read /\ PutUncounted' = PutUncounted
  BY <1>1 DEF TakeUncounted, PutUncounted
<1>6. PICK d \in 0..InSize : d = input.avail - TakeUncounted + PutUncounted
  BY <1>2, InCounts
<1>7. PutUncounted \in Nat
  BY <1>4, InCounts
<1>8. InQueue = InRing /\ InQueue' = InRing'
  <2>1. InQueue = InRing
    BY <1>2, MessagesPosted
  <2>2. InQueue' = InRing'
    BY <1>2 DEF InQueue, InRing
  <2> QED BY <2>1, <2>2
<1>9. InRing = Contents(input.buffer, InSize, input.rpos, d)
  BY <1>6 DEF InRing, DataLeft
<1>s. Spoilt' = Spoilt /\ Spoilt' = FALSE
  BY <1>1, <1>2, SpoiltNever, SpoiltStays
<1>10. CASE engine.read = 0
  <2>1. UNCHANGED <<input, captured>>
    BY <1>10 DEF EngineCapture
  <2>2. input'.avail - TakeUncounted' + PutUncounted' = input.avail - TakeUncounted + PutUncounted
    BY <1>5, <1>10, <2>1
  <2>3. InRing' = InRing
    BY <2>1, <2>2, InRingStays
  <2>4. (threads' <=> threads) /\ fresh'.in = fresh.in
    BY <1>1, <1>2
  <2> QED BY <1>1, <1>2, <1>8, <1>s, <2>1, <2>3, <2>4, InRests
<1>11. CASE engine.read # 0
  <2>1. /\ captured' = Pick(input.buffer, ReadCells(InSize, input.rpos, engine.read))
        /\ input'.buffer = input.buffer /\ input'.avail = input.avail
        /\ input'.rpos = ReadPos(InSize, input.rpos, engine.read)
    <3>1. /\ captured' = Pick(input.buffer, ReadCells(InSize, input.rpos, engine.read))
          /\ input' = [input EXCEPT !.rpos = ReadPos(InSize, @, engine.read)]
      BY <1>11 DEF EngineCapture
    <3>2. input \in Ring(InSize)
      BY DEF AudioInv, TypeOK
    <3> QED BY <3>1, <3>2 DEF Ring
  <2>2. engine.read \in 0..d /\ input.avail - engine.read + PutUncounted = d - engine.read
    BY <1>2, <1>4, <1>5, <1>6, <1>7
  <2>3. InRing' = Contents(input.buffer, InSize, ReadPos(InSize, input.rpos, engine.read), d - engine.read)
    BY <1>5, <2>1, <2>2 DEF InRing, DataLeft
  <2>4. ReadsOldest(input.buffer, InSize, input.rpos, d, engine.read)
    BY <1>3, <1>4, <2>2, ReadTakes
  <2>5. /\ Len(InRing) = d /\ captured' = SubSeq(InRing, 1, engine.read)
        /\ InRing' = SubSeq(InRing, engine.read + 1, d)
    BY <1>9, <2>1, <2>3, <2>4 DEF ReadsOldest
  <2>6. engine.read \in 1..Len(InQueue)
    BY <1>4, <1>8, <1>11, <2>2, <2>5
  <2>7. fresh'.in = fresh.in
    BY <1>1
  <2> QED BY <1>1, <1>8, <1>s, <2>5, <2>6, <2>7, InTakes
<1> QED BY <1>10, <1>11

LEMMA RoomForBlock == InSize * (MaxFlight + 1) \in Int /\ InSize <= InSize * (MaxFlight + 1)
<1>1. InSize \in Nat /\ MaxFlight \in Nat
  BY SizeAssumption
<1>2. InSize * (MaxFlight + 1) = InSize * MaxFlight + InSize /\ InSize * MaxFlight \in Nat
  BY <1>1
<1> QED BY <1>1, <1>2

LEMMA InWrites ==
  ASSUME AudioInv, WriteInput
  PROVE  [InStream!Next]_(InStream!vars)
<1> DEFINE samples == Made(fresh.in, block)
<1>1. /\ step = "in_write" /\ step' = "in_add" /\ UNCHANGED <<mode, block, engine, main, inputs, captured>>
      /\ fresh'.in = MadeAfter(fresh.in, block)
      /\ input'.rpos = input.rpos /\ input'.avail = input.avail
      /\ input'.buffer = Fill(input.buffer, WriteCells(InSize, input.wpos, block), samples)
  BY DEF WriteInput, AudioInv, TypeOK, Ring
<1>2. threads /\ threads' /\ input.avail + block <= InSize
  <2>1. threads /\ input.avail + block <= InSize
    BY <1>1 DEF AudioInv, Seen
  <2> QED BY <1>1, <2>1 DEF threads
<1>3. /\ input.avail \in 0..InSize /\ input.rpos \in 0..InSize /\ input.wpos \in 0..InSize - 1
      /\ input.buffer \in [0..InSize - 1 -> Sample] /\ block \in 0..InSize /\ fresh.in \in 0..Ids - 1
  BY NumbersOfState DEF AudioInv
<1>4. InSize \in Nat \ {0} /\ block \in Nat /\ input.avail \in Nat
  BY <1>3, SizesAreNumbers
<1>5. samples \in Seq(Sample) /\ Len(samples) = block
  BY <1>3, <1>4, MadeTypes
<1> HIDE DEF samples
<1>6. PutUncounted = 0 /\ PutUncounted' = block /\ TakeUncounted' = TakeUncounted
  BY <1>1 DEF TakeUncounted, PutUncounted
<1>7. PICK d \in 0..InSize : d = input.avail - TakeUncounted
  BY <1>2, InCounts
<1>8. TakeUncounted \in Nat
  BY <1>4, InCounts
<1>9. d + block <= InSize /\ input.avail - TakeUncounted + PutUncounted = d
  BY <1>2, <1>4, <1>6, <1>7, <1>8
<1>10. InQueue = InRing /\ InQueue' = InRing'
  <2>1. InQueue = InRing
    BY <1>2, MessagesPosted
  <2>2. InQueue' = InRing'
    BY <1>2 DEF InQueue, InRing
  <2> QED BY <2>1, <2>2
<1>11. InRing = Contents(input.buffer, InSize, input.rpos, d)
  BY <1>9 DEF InRing, DataLeft
<1>12. InRing' = Contents(input'.buffer, InSize, input.rpos, d + block)
  <2>1. input'.avail - TakeUncounted' + PutUncounted' = d + block
    BY <1>1, <1>6, <1>7
  <2> QED BY <1>1, <2>1 DEF InRing, DataLeft
<1>13. InRing' = InRing \o samples
  <2>1. Ahead(InSize, input.rpos, d, input.wpos)
    BY <1>2, <1>9 DEF AudioInv, Positions
  <2>2. d + Len(samples) <= InSize
    BY <1>5, <1>9
  <2>3. WritesBehind(input.buffer, InSize, input.rpos, d, input.wpos, samples)
    BY <1>3, <1>4, <1>5, <2>1, <2>2, WriteAppends
  <2> QED BY <1>1, <1>5, <1>11, <1>12, <2>3 DEF WritesBehind
<1>14. InRing \in Seq(Sample) /\ Len(InRing) = d
  BY <1>2, <1>9, InRingTypes
<1>s. Spoilt' = Spoilt
  BY <1>1, <1>2, SpoiltStays
<1>15. CASE block = 0
  <2>1. samples = <<>>
    BY <1>5, <1>15
  <2>2. InQueue' = InQueue
    BY <1>10, <1>13, <1>14, <2>1, ConcatEmptySeq
  <2>3. fresh'.in = fresh.in
    <3>1. fresh.in \in Nat /\ fresh.in < Ids /\ Ids \in Nat \ {0}
      BY <1>3, SizesAreNumbers
    <3>2. fresh.in + 0 = fresh.in /\ fresh.in % Ids = fresh.in
      BY <3>1
    <3> QED BY <1>1, <1>15, <3>2 DEF MadeAfter
  <2>4. (threads' <=> threads) /\ (main' = "closed" <=> main = "closed")
    BY <1>1, <1>2
  <2> QED BY <1>1, <1>s, <2>2, <2>3, <2>4, InRests
<1>16. CASE block # 0
  <2>1. Len(InQueue) = d
    BY <1>10, <1>14
  <2>2. block \in 1..InSize * (MaxFlight + 1) - Len(InQueue)
    <3>1. PICK r \in Int : r = InSize * (MaxFlight + 1)
      BY RoomForBlock
    <3>2. InSize <= r
      BY <3>1, RoomForBlock
    <3>3. block \in 1..r - Len(InQueue)
      BY <1>4, <1>7, <1>9, <1>16, <2>1, <3>2
    <3> QED BY <3>1, <3>3
  <2>3. InQueue' = InQueue \o Made(fresh.in, block)
    BY <1>10, <1>13 DEF samples
  <2> QED BY <1>1, <1>2, <1>s, <2>2, <2>3, InPuts
<1> QED BY <1>15, <1>16

\* The counts follow the copies, and nobody else touches the ring.
LEMMA InEngine ==
  ASSUME AudioInv, AudioInv', Engine
  PROVE  [InStream!Next]_(InStream!vars)
<1>1. threads
  <2>1. ~threads => engine.at = "wait"
    BY DEF AudioInv, Seen, Waiting
  <2> QED BY <2>1 DEF Engine, EngineLook, EngineCapture, EngineCaptured, EngineFill, EngineFilled
<1>2. CASE EngineCapture
  BY <1>2, InCaptures
<1>3. CASE EngineCaptured
  <2>1. /\ engine.at = "in_add" /\ engine'.at = "fill" /\ UNCHANGED <<mode, step, block, inputs, main, fresh, captured>>
        /\ input'.buffer = input.buffer /\ input'.rpos = input.rpos
        /\ input'.avail = input.avail - engine.read
    BY <1>3 DEF EngineCaptured, AudioInv, TypeOK, Ring
  <2>2. TakeUncounted = engine.read /\ TakeUncounted' = 0 /\ PutUncounted' = PutUncounted
    BY <2>1 DEF TakeUncounted, PutUncounted
  <2>3. input.avail \in Int /\ engine.read \in Int /\ PutUncounted \in Int
    BY InIntegers
  <2>4. input'.avail - TakeUncounted' + PutUncounted' = input.avail - TakeUncounted + PutUncounted
    BY <2>1, <2>2, <2>3
  <2>5. InRing' = InRing
    BY <2>1, <2>4, InRingStays
  <2>6. (threads' <=> threads) /\ fresh'.in = fresh.in
    BY <2>1 DEF threads
  <2>7. Spoilt' = Spoilt
    BY <1>1, <2>1, SpoiltStays
  <2> QED BY <1>1, <2>1, <2>5, <2>6, <2>7, InQueueStays, InRests
<1>4. CASE EngineLook \/ EngineFill \/ EngineFilled
  <2>1. /\ UNCHANGED <<mode, input, step, block, inputs, main, captured>>
        /\ engine.at # "in_add" /\ engine'.at # "in_add" /\ fresh'.in = fresh.in
    <3>1. /\ engine \in [at : {"wait", "capture", "in_add", "fill", "out_add"},
                         read : 0..InSize, write : 0..OutSize]
          /\ fresh \in [out : 0..Ids - 1, in : 0..Ids - 1]
      BY DEF AudioInv, TypeOK
    <3>2. CASE EngineLook
      BY <3>2 DEF EngineLook
    <3>3. CASE EngineFill
      BY <3>1, <3>3 DEF EngineFill
    <3>4. CASE EngineFilled
      BY <3>1, <3>4 DEF EngineFilled, Waiting
    <3> QED BY <1>4, <3>2, <3>3, <3>4
  <2>2. TakeUncounted' = TakeUncounted /\ PutUncounted' = PutUncounted
    BY <2>1 DEF TakeUncounted, PutUncounted
  <2>3. InRing' = InRing
    BY <2>1, <2>2, InRingStays
  <2>4. threads' <=> threads
    BY <2>1 DEF threads
  <2>5. Spoilt' = Spoilt
    BY <1>1, <2>1, SpoiltStays
  <2> QED BY <1>1, <2>1, <2>3, <2>4, <2>5, InQueueStays, InRests
<1> QED BY <1>2, <1>3, <1>4 DEF Engine

LEMMA InAdds ==
  ASSUME AudioInv, AudioInv', AddInput
  PROVE  [InStream!Next]_(InStream!vars)
<1>1. /\ step = "in_add" /\ step' = "out_look" /\ UNCHANGED <<mode, engine, block, inputs, main, fresh, captured>>
      /\ input'.buffer = input.buffer /\ input'.rpos = input.rpos
      /\ input'.avail = input.avail + block
  BY DEF AddInput, AudioInv, TypeOK, Ring
<1>2. threads
  BY <1>1 DEF AudioInv, Seen
<1>3. TakeUncounted' = TakeUncounted /\ PutUncounted = block /\ PutUncounted' = 0
  BY <1>1 DEF TakeUncounted, PutUncounted
<1>4. input.avail \in Int /\ block \in Int /\ TakeUncounted \in Int
  BY InIntegers
<1>5. input'.avail - TakeUncounted' + PutUncounted' = input.avail - TakeUncounted + PutUncounted
  BY <1>1, <1>3, <1>4
<1>6. InRing' = InRing
  BY <1>1, <1>5, InRingStays
<1>7. (threads' <=> threads) /\ fresh'.in = fresh.in
  BY <1>1 DEF threads
<1>8. Spoilt' = Spoilt
  BY <1>1, <1>2, SpoiltStays
<1> QED BY <1>1, <1>2, <1>6, <1>7, <1>8, InQueueStays, InRests

\* Steps that have nothing to do with the input.
LEMMA InLeaves ==
  ASSUME UNCHANGED <<mode, input, engine, block, inputs, fresh, captured>>,
         step' = "in_add" <=> step = "in_add", ~threads => (main' = "closed" <=> main = "closed")
  PROVE  UNCHANGED InStream!vars
<1>1. TakeUncounted' = TakeUncounted /\ PutUncounted' = PutUncounted
  BY DEF TakeUncounted, PutUncounted
<1>2. InRing' = InRing
  BY <1>1, InRingStays
<1>3. (threads' <=> threads) /\ fresh'.in = fresh.in
  BY DEF threads
<1>4. Spoilt' = Spoilt
  BY SpoiltStays
<1> QED BY <1>2, <1>3, <1>4, InQueueStays, InRests

-----------------------------------------------------------------------------
(* Without threads: the messages to the engine.                                *)

LEMMA InBlocks ==
  ASSUME AudioInv, NEW chunk \in InChunks, BeginBlock(chunk)
  PROVE  [InStream!Next]_(InStream!vars)
<1>1. /\ step = "idle" /\ step' # "in_add" /\ UNCHANGED <<mode, input, engine, main, captured>>
  BY DEF BeginBlock
<1>s. Spoilt' = Spoilt
  BY <1>1, SpoiltStays
<1>2. CASE chunk = 0 \/ threads
  <2>1. UNCHANGED <<inputs, fresh>>
    BY <1>2 DEF BeginBlock
  <2>2. TakeUncounted' = TakeUncounted /\ PutUncounted' = PutUncounted
    BY <1>1 DEF TakeUncounted, PutUncounted
  <2>3. InRing' = InRing
    BY <1>1, <2>2, InRingStays
  <2>4. (threads' <=> threads) /\ fresh'.in = fresh.in
    BY <1>1, <2>1 DEF threads
  <2> QED BY <1>1, <1>s, <2>1, <2>3, <2>4, InQueueStays, InRests
<1>3. CASE chunk # 0 /\ ~threads
  <2>1. /\ inputs' = Append(inputs, Made(fresh.in, chunk)) /\ Len(inputs) < MaxFlight
        /\ fresh'.in = MadeAfter(fresh.in, chunk)
    BY <1>3 DEF BeginBlock, AudioInv, TypeOK
  <2>2. /\ chunk \in 1..InSize /\ chunk \in Nat /\ InSize \in Nat \ {0} /\ fresh.in \in 0..Ids - 1
        /\ inputs \in Seq(Seq(Sample)) /\ MaxFlight \in Nat /\ Len(inputs) \in Nat
    <3>1. fresh.in \in 0..Ids - 1 /\ inputs \in Seq(Seq(Sample))
      BY NumbersOfState DEF AudioInv, TypeOK
    <3> QED BY <1>3, <3>1, SizeAssumption, LenProperties
  <2> DEFINE samples == Made(fresh.in, chunk)
  <2>3. samples \in Seq(Sample) /\ MadeAfter(fresh.in, chunk) \in 0..Ids - 1
    BY <2>2, MadeTypes
  <2> HIDE DEF samples
  <2>4. CASE main = "closed"
    <3>1. InQueue' = InQueue
      BY <1>1, <1>3, <2>4 DEF InQueue, threads
    <3> QED BY <1>1, <1>3, <1>s, <2>1, <2>3, <2>4, <3>1, InLoses
  <2>5. CASE main # "closed"
    <3>1. InQueue = FlattenSeq(inputs) /\ InQueue' = FlattenSeq(Append(inputs, samples))
      <4>1. InQueue' = FlattenSeq(inputs')
        BY <1>1, <1>3, <2>5 DEF InQueue, threads
      <4> QED BY <1>3, <2>1, <2>5, <4>1, MessagesPosted DEF samples
    <3>2. InQueue' = InQueue \o samples
      BY <2>2, <2>3, <3>1, FlattenAppend
    <3>3. \A k \in 1..Len(inputs) : Len(inputs[k]) <= InSize
      BY DEF AudioInv, InputsFit
    <3>4. Len(InQueue) <= InSize * Len(inputs) /\ Len(InQueue) \in Nat
      <4>1. Len(FlattenSeq(inputs)) <= InSize * Len(inputs)
        BY <2>2, <3>3, FlattenBound
      <4>2. FlattenSeq(inputs) \in Seq(Sample)
        BY <2>2, FlattenTypes
      <4> QED BY <3>1, <4>1, <4>2, LenProperties
    <3>5. InSize * Len(inputs) + InSize <= InSize * (MaxFlight + 1)
      <4>1. PICK d \in Nat : MaxFlight = Len(inputs) + d
        <5>1. MaxFlight - Len(inputs) \in Nat /\ MaxFlight = Len(inputs) + (MaxFlight - Len(inputs))
          BY <2>1, <2>2
        <5> QED BY <5>1
      <4>2. InSize * (Len(inputs) + d + 1) = InSize * Len(inputs) + InSize * d + InSize
        BY <2>2
      <4>3. InSize * d \in Nat /\ InSize * Len(inputs) \in Nat
        BY <2>2
      <4> QED BY <2>2, <4>1, <4>2, <4>3
    <3>6. chunk \in 1..InSize * (MaxFlight + 1) - Len(InQueue)
      <4>1. PICK r \in Int : r = InSize * (MaxFlight + 1)
        BY RoomForBlock
      <4>2. PICK p \in Int : p = InSize * Len(inputs)
        BY <2>2
      <4>3. p + InSize <= r
        BY <3>5, <4>1, <4>2
      <4>4. Len(InQueue) <= p /\ Len(InQueue) \in Nat
        BY <3>4, <4>2
      <4>5. chunk \in 1..r - Len(InQueue)
        BY <2>2, <4>3, <4>4
      <4> QED BY <4>1, <4>5
    <3>7. InQueue' = InQueue \o Made(fresh.in, chunk)
      BY <3>2 DEF samples
    <3> QED BY <1>1, <1>s, <2>1, <2>5, <3>6, <3>7, InPuts
  <2> QED BY <2>4, <2>5
<1> QED BY <1>2, <1>3

\* A block that ends in the buffer is copied in one piece and handed on as it is.
LEMMA BlockHandedOn ==
  ASSUME NEW size \in Nat \ {0}, NEW buffer \in [0..size - 1 -> Sample], NEW rpos \in 0..size - 1,
         NEW buf \in Seq(Sample), rpos + Len(buf) <= size
  PROVE  Contents(Fill(buffer, WriteCells(size, rpos, Len(buf)), buf), size, rpos, Len(buf)) = buf
<1> DEFINE n == Len(buf)
           all == Fill(buffer, WriteCells(size, rpos, n), buf)
<1>1. n \in Nat /\ n \in 0..size /\ rpos \in 0..size /\ rpos + 0 - rpos = 0 /\ 0 + n <= size /\ 0 + n = n
  BY LenProperties
<1>2. Ahead(size, rpos, 0, rpos)
  BY DEF Ahead
<1>3. WritesBehind(buffer, size, rpos, 0, rpos, buf)
  <2>1. 0 \in 0..size
    OBVIOUS
  <2> QED BY <1>1, <1>2, <2>1, WriteAppends
<1>4. Contents(all, size, rpos, n) = Contents(buffer, size, rpos, 0) \o buf
  BY <1>1, <1>3 DEF WritesBehind
<1>5. Contents(buffer, size, rpos, 0) = <<>>
  <2>1. 0 \in 0..size /\ rpos \in Nat /\ 0 \in Nat
    OBVIOUS
  <2>2. Len(Contents(buffer, size, rpos, 0)) = 0
    BY <1>1, <2>1, ContentsAround
  <2>3. Contents(buffer, size, rpos, 0) \in Seq(Sample)
    BY <2>1, ContentsTypes
  <2> QED BY <2>2, <2>3
<1> QED BY <1>4, <1>5, ConcatEmptySeq

\* Filling with nothing.
LEMMA FillNothing ==
  ASSUME NEW size \in Nat \ {0}, NEW buffer \in [0..size - 1 -> Sample], NEW pos, NEW s
  PROVE  Fill(buffer, WriteCells(size, pos, 0), s) = buffer
<1>1. DOMAIN WriteCells(size, pos, 0) = {}
  BY DEF WriteCells
<1>2. \A c \in 0..size - 1 :
        (IF \E k \in DOMAIN WriteCells(size, pos, 0) : WriteCells(size, pos, 0)[k] = c
         THEN s[CHOOSE k \in DOMAIN WriteCells(size, pos, 0) : WriteCells(size, pos, 0)[k] = c]
         ELSE buffer[c]) = buffer[c]
  BY <1>1
<1> QED BY <1>2 DEF Fill

LEMMA InReceives ==
  ASSUME AudioInv, Blocks, TakeInput
  PROVE  InStream!Next /\ input'.rpos < InSize
<1> DEFINE buf == Head(inputs)
           n == Len(buf)
           wraps == input.rpos + n >= InSize
           high == IF wraps THEN InSize - input.rpos ELSE 0
           from == IF wraps THEN 0 ELSE input.rpos
           low == SubSeq(buf, high + 1, n - high)
           first == Fill(input.buffer, WriteCells(InSize, input.rpos, high), SubSeq(buf, 1, high))
           all == Fill(first, WriteCells(InSize, from, Len(low)), low)
<1>1. /\ UNCHANGED <<mode, main, fresh>> /\ main = "open"
      /\ inputs # <<>> /\ inputs' = Tail(inputs)
      /\ input'.rpos = from + n - high
      /\ captured' = Contents(all, InSize, input.rpos, n)
  BY DEF TakeInput, AudioInv, TypeOK, Ring
<1>2. ~threads
  BY <1>1 DEF AudioInv, InputsFit
<1>3. inputs \in Seq(Seq(Sample)) /\ Len(inputs) # 0
  BY <1>1 DEF AudioInv, TypeOK
<1>4. buf \in Seq(Sample) /\ n >= 1 /\ n <= InSize
  <2>1. Len(inputs) \in Nat \ {0} /\ 1 \in 1..Len(inputs) /\ Head(inputs) = inputs[1]
    BY <1>1, <1>3, HeadTailProperties
  <2>2. inputs[1] \in Seq(Sample)
    BY <1>3, <2>1, ElementOfSeq
  <2>3. Len(inputs[1]) <= InSize
    BY <2>1 DEF AudioInv, InputsFit
  <2>4. Len(inputs[1]) >= 1
    BY <1>2, <2>1 DEF Blocks
  <2> QED BY <2>1, <2>2, <2>3, <2>4
<1>5. InSize \in Nat \ {0} /\ input.rpos \in 0..InSize /\ input.buffer \in [0..InSize - 1 -> Sample]
  BY NumbersOfState, SizesAreNumbers DEF AudioInv
<1>6. input.rpos < InSize
  BY <1>2 DEF Blocks
<1> HIDE DEF buf
<1>7. n \in Nat
  BY <1>4, LenProperties
<1>8. n \in Nat \ {0} /\ n \in 0..InSize /\ input.rpos \in Nat /\ input.rpos \in 0..InSize - 1
  BY <1>4, <1>5, <1>6, <1>7
<1>9. SubSeq(buf, 1, n) = buf
  BY <1>4, SubSeqFull
\* As many samples come out as were posted, and as many leave the queue.
<1>10. Len(captured') = n
  <2> HIDE DEF all
  <2>1. Len(Contents(all, InSize, input.rpos, n)) = n
    BY <1>5, <1>8, ContentsAround
  <2> QED BY <1>1, <2>1
<1>11. InQueue = buf \o FlattenSeq(inputs') /\ InQueue' = FlattenSeq(inputs')
  <2>1. main # "closed" /\ main' # "closed" /\ ~threads'
    BY <1>1, <1>2 DEF threads
  <2>2. InQueue' = FlattenSeq(inputs')
    BY <2>1 DEF InQueue
  <2>3. FlattenSeq(inputs) = buf \o FlattenSeq(Tail(inputs))
    BY <1>3, FlattenHead DEF buf
  <2>4. InQueue = FlattenSeq(inputs)
    BY <1>2, <2>1, MessagesPosted
  <2> QED BY <1>1, <2>2, <2>3, <2>4
<1>12. FlattenSeq(inputs') \in Seq(Sample)
  <2>1. inputs' \in Seq(Seq(Sample))
    BY <1>1, <1>3, HeadTailProperties
  <2> QED BY <2>1, FlattenTypes
<1>13. /\ n \in 1..Len(InQueue) /\ buf = SubSeq(InQueue, 1, n)
       /\ InQueue' = SubSeq(InQueue, n + 1, Len(InQueue))
  <2> DEFINE rest == FlattenSeq(inputs')
  <2>1. /\ SubSeq(buf \o rest, 1, n) = SubSeq(buf, 1, n)
        /\ SubSeq(buf \o rest, n + 1, Len(buf \o rest)) = SubSeq(buf, n + 1, Len(buf)) \o rest
        /\ Len(buf \o rest) = Len(buf) + Len(rest)
    <3>1. n \in 0..Len(buf)
      BY <1>8
    <3> QED BY <1>4, <1>12, <3>1, TakeOfConcat
  <2>2. SubSeq(buf, n + 1, Len(buf)) = <<>>
    <3>1. n + 1 > Len(buf) /\ n + 1 \in Int /\ Len(buf) \in Int
      BY <1>8
    <3> QED BY <3>1, SubSeqEmpty
  <2>3. <<>> \o rest = rest
    BY <1>12, ConcatEmptySeq
  <2>4. Len(rest) \in Nat
    BY <1>12, LenProperties
  <2>5. n \in 1..Len(InQueue)
    BY <1>8, <1>11, <2>1, <2>4
  <2> QED BY <1>9, <1>11, <2>1, <2>2, <2>3, <2>5
\* A block that ends in the buffer is copied in one piece.
<1>14. CASE input.rpos + n <= InSize
  <2> DEFINE handed == Fill(input.buffer, WriteCells(InSize, input.rpos, n), buf)
  <2>1. handed \in [0..InSize - 1 -> Sample]
    <3>1. WriteCells(InSize, input.rpos, n) \in [1..n -> 0..InSize - 1]
      <4>1. n \in 0..InSize /\ (input.rpos = InSize => n = 0)
        BY <1>6, <1>8
      <4> QED BY <1>5, <4>1, WritesInside
    <3>2. n \in Nat /\ n <= n
      BY <1>8
    <3> QED BY <1>4, <1>5, <3>1, <3>2, FillTypes
  <2> HIDE DEF handed
  <2>2. all = handed /\ from + n - high < InSize /\ (from + n - high = 0 \/ from + n - high >= n)
    <3>1. CASE input.rpos + n < InSize
      <4>1. high = 0 /\ from = input.rpos
        BY <1>5, <1>8, <3>1
      <4>2. first = input.buffer
        BY <1>5, <4>1, FillNothing
      <4>3. low = buf
        <5>1. high + 1 = 1 /\ n - high = n
          BY <1>8, <4>1
        <5> QED BY <1>9, <5>1
      <4>4. all = handed
        BY <4>1, <4>2, <4>3 DEF handed
      <4>5. from + n - high = input.rpos + n
        BY <1>5, <1>8, <4>1
      <4> HIDE DEF all, from, high
      <4> QED BY <1>5, <1>8, <3>1, <4>4, <4>5
    <3>2. CASE input.rpos + n = InSize
      <4>1. high = n /\ from = 0
        BY <1>5, <1>8, <3>2
      <4>2. first = handed
        BY <1>9, <4>1 DEF handed
      <4>3. low = <<>> /\ Len(low) = 0
        <5>1. high + 1 > n - high /\ high + 1 \in Int /\ n - high \in Int
          BY <1>8, <4>1
        <5>2. SubSeq(buf, high + 1, n - high) = <<>>
          BY <5>1, SubSeqEmpty
        <5> QED BY <5>2
      <4>4. all = handed
        <5>1. \A s : Fill(handed, WriteCells(InSize, 0, 0), s) = handed
          BY <1>5, <2>1, FillNothing
        <5>2. all = Fill(handed, WriteCells(InSize, 0, 0), low)
          BY <4>1, <4>2, <4>3
        <5> HIDE DEF all, low
        <5> QED BY <5>1, <5>2
      <4>5. from + n - high = 0
        BY <1>8, <4>1
      <4> HIDE DEF all, from, high
      <4> QED BY <1>5, <4>4, <4>5
    <3>3. input.rpos + n < InSize \/ input.rpos + n = InSize
      BY <1>5, <1>8, <1>14
    <3> QED BY <3>1, <3>2, <3>3
  <2> HIDE DEF all, high, from
  <2>3. captured' = buf
    <3>1. Contents(handed, InSize, input.rpos, n) = buf
      BY <1>4, <1>5, <1>8, <1>14, BlockHandedOn DEF handed
    <3> QED BY <1>1, <2>2, <3>1
  <2>4. Spoilt' = FALSE
    <3>1. ~(input'.rpos \in 1..n - 1)
      BY <1>1, <1>8, <2>2
    <3> QED BY <1>10, <3>1 DEF Spoilt
  <2>5. InStream!Next
    BY <1>1, <1>13, <2>3, <2>4, InTakes
  <2> QED BY <1>1, <2>2, <2>5
\* One that goes past its end is spoilt, and the next begins where it should have ended.
<1>15. CASE input.rpos + n > InSize
  <2>1. from + n - high = input.rpos + n - InSize
    BY <1>5, <1>8, <1>15
  <2>2. input'.rpos \in 1..n - 1 /\ input'.rpos < InSize
    <3> HIDE DEF from, high
    <3>1. input'.rpos = input.rpos + n - InSize
      BY <1>1, <2>1
    <3> QED BY <1>5, <1>6, <1>8, <1>15, <3>1
  <2>3. Spoilt' = TRUE
    <3>1. ~threads'
      BY <1>1, <1>2 DEF threads
    <3> QED BY <1>10, <2>2, <3>1 DEF Spoilt
  <2> HIDE DEF all, high, from
  <2>4. InStream!Next
    BY <1>1, <1>10, <1>13, <2>3, InSpoils
  <2> QED BY <2>2, <2>4
<1> HIDE DEF n
<1>16. input.rpos + n <= InSize \/ input.rpos + n > InSize
  BY <1>5, <1>8
<1> QED BY <1>14, <1>15, <1>16

LEMMA InCloseStep ==
  ASSUME AudioInv, Close
  PROVE  [InStream!Next]_(InStream!vars)
<1>1. /\ main = "open" /\ main' = "closed"
      /\ UNCHANGED <<mode, input, step, engine, block, inputs, fresh, captured>>
  BY DEF Close
<1>2. CASE threads
  BY <1>1, <1>2, InLeaves
<1>3. CASE ~threads
  <2>1. ~threads' /\ InQueue' = <<>> /\ fresh'.in = fresh.in
    BY <1>1, <1>3 DEF InQueue, threads
  <2>2. Spoilt' = Spoilt
    BY <1>1, SpoiltStays
  <2> QED BY <1>1, <1>3, <2>1, <2>2, InCloses
<1> QED BY <1>2, <1>3

LEMMA InStep ==
  ASSUME AudioInv, AudioInv', Blocks, [Next]_vars
  PROVE  [InStream!Next]_(InStream!vars)
<1>1. CASE \E chunk \in InChunks : BeginBlock(chunk)
  BY <1>1, InBlocks
<1>2. CASE WriteInput
  BY <1>2, InWrites
<1>3. CASE AddInput
  BY <1>3, InAdds
<1>4. CASE LookForSpace \/ LookForData \/ ReadOutput \/ AddOutput \/ Messages \/ UNCHANGED vars
  <2>1. /\ UNCHANGED <<mode, input, engine, block, inputs, fresh, captured, main>>
        /\ step' = "in_add" <=> step = "in_add"
    BY <1>4 DEF LookForSpace, LookForData, ReadOutput, AddOutput, Messages, ReceiveStart, ReceiveChunk,
       ReceiveStop, Receive, vars
  <2> QED BY <2>1, InLeaves
<1>5. CASE Engine
  BY <1>5, InEngine
<1>6. CASE Open \/ SendChunk
  <2>1. /\ UNCHANGED <<mode, input, engine, block, inputs, captured, step>>
        /\ main' = "closed" <=> main = "closed"
    BY <1>6 DEF Open, SendChunk
  <2>2. fresh'.in = fresh.in
    BY <1>6 DEF Open, SendChunk, AudioInv, TypeOK
  <2>3. TakeUncounted' = TakeUncounted /\ PutUncounted' = PutUncounted
    BY <2>1 DEF TakeUncounted, PutUncounted
  <2>4. InRing' = InRing
    BY <2>1, <2>3, InRingStays
  <2>5. threads' <=> threads
    BY <2>1 DEF threads
  <2>6. Spoilt' = Spoilt
    BY <2>1, SpoiltStays
  <2> QED BY <2>1, <2>2, <2>4, <2>5, <2>6, InQueueStays, InRests
<1>7. CASE TakeInput
  BY <1>7, InReceives
<1>8. CASE Close
  BY <1>8, InCloseStep
<1> QED BY <1>1, <1>2, <1>3, <1>4, <1>5, <1>6, <1>7, <1>8 DEF Next, Process, Silent

LEMMA BlocksStart == Init => Blocks
<1> SUFFICES ASSUME Init
             PROVE  Blocks
  OBVIOUS
<1>1. inputs = <<>> /\ input.rpos = 0 /\ InSize \in Nat \ {0}
  BY SizesAreNumbers DEF Init, NewRing
<1> QED BY <1>1 DEF Blocks

LEMMA BlocksKeep ==
  ASSUME AudioInv, Blocks, [Next]_vars
  PROVE  Blocks'
<1>1. CASE TakeInput
  <2>1. inputs # <<>> /\ inputs' = Tail(inputs) /\ mode' = mode
    BY <1>1 DEF TakeInput
  <2>2. ~threads
    BY <2>1 DEF AudioInv, InputsFit
  <2>3. /\ Len(inputs') = Len(inputs) - 1 /\ Len(inputs) \in Nat
        /\ \A k \in 1..Len(inputs') : inputs'[k] = inputs[k + 1]
    <3>1. inputs \in Seq(Seq(Sample))
      BY DEF AudioInv, TypeOK
    <3> QED BY <2>1, <3>1, HeadTailProperties, LenProperties
  <2>4. \A k \in 1..Len(inputs') : Len(inputs'[k]) >= 1
    <3>1. \A k \in 1..Len(inputs') : k + 1 \in 1..Len(inputs)
      BY <2>3
    <3> QED BY <2>2, <2>3, <3>1 DEF Blocks
  <2>5. input'.rpos < InSize
    BY <1>1, InReceives
  <2> QED BY <2>4, <2>5 DEF Blocks
<1>2. CASE \E chunk \in InChunks : BeginBlock(chunk)
  <2>1. PICK chunk \in InChunks : BeginBlock(chunk)
    BY <1>2
  <2>2. mode' = mode /\ input' = input
    BY <2>1 DEF BeginBlock
  <2>3. CASE inputs' = inputs
    BY <2>2, <2>3, BlocksStay
  <2>4. CASE inputs' # inputs
    <3>1. ~threads /\ chunk # 0 /\ inputs' = Append(inputs, Made(fresh.in, chunk))
      BY <2>1, <2>4 DEF BeginBlock
    <3>2. chunk \in Nat /\ chunk >= 1
      BY <3>1, SizeAssumption
    <3>3. /\ inputs \in Seq(Seq(Sample)) /\ Made(fresh.in, chunk) \in Seq(Sample)
          /\ Len(Made(fresh.in, chunk)) >= 1
      <4>1. inputs \in Seq(Seq(Sample)) /\ fresh.in \in 0..Ids - 1
        BY NumbersOfState DEF AudioInv, TypeOK
      <4> QED BY <3>2, <4>1, MadeTypes
    <3>4. /\ Len(inputs') = Len(inputs) + 1 /\ Len(inputs) \in Nat
          /\ \A k \in 1..Len(inputs) : inputs'[k] = inputs[k]
          /\ inputs'[Len(inputs) + 1] = Made(fresh.in, chunk)
      BY <3>1, <3>3, AppendProperties, LenProperties
    <3>5. \A k \in 1..Len(inputs) : Len(inputs[k]) >= 1
      BY <3>1 DEF Blocks
    <3>6. ASSUME NEW k \in 1..Len(inputs')
          PROVE  Len(inputs'[k]) >= 1
      <4>1. k \in 1..Len(inputs) \/ k = Len(inputs) + 1
        BY <3>4
      <4> QED BY <3>3, <3>4, <3>5, <4>1, Zenon
    <3>7. input'.rpos < InSize
      BY <2>2, <3>1 DEF Blocks
    <3> QED BY <3>6, <3>7 DEF Blocks
  <2> QED BY <2>3, <2>4
<1>3. CASE threads
  <2>1. mode' = mode
    BY DEF Next, Process, BeginBlock, LookForSpace, WriteInput, AddInput, LookForData, ReadOutput, AddOutput,
       Messages, ReceiveStart, ReceiveChunk, ReceiveStop, Receive, Engine, EngineLook, EngineCapture,
       EngineCaptured, EngineFill, EngineFilled, Open, SendChunk, TakeInput, Close, Silent, vars
  <2> QED BY <1>3, <2>1 DEF Blocks, threads
<1>4. CASE ~threads /\ ~TakeInput /\ ~(\E chunk \in InChunks : BeginBlock(chunk))
  <2>1. engine.at = "wait" /\ ~(step \in {"in_look", "in_write", "in_add"})
    BY <1>4 DEF AudioInv, Seen, Waiting
  <2>2. UNCHANGED <<mode, inputs, input>>
    BY <1>4, <2>1 DEF Next, Process, LookForSpace, WriteInput, AddInput, LookForData, ReadOutput, AddOutput,
       Messages, ReceiveStart, ReceiveChunk, ReceiveStop, Receive, Engine, EngineLook, EngineCapture,
       EngineCaptured, EngineFill, EngineFilled, Open, SendChunk, Close, Silent, vars
  <2> QED BY <2>2, BlocksStay
<1> QED BY <1>1, <1>2, <1>3, <1>4

\* From the microphone too the samples of every block that was taken come to the engine in
\* the order they were made, each once, whatever the lengths of the browser's blocks: a
\* block that receive() has to copy in two pieces is spoilt, the next is in order again.
THEOREM CaptureInOrder == Spec => CapturedInOrder
<1>1. Init => InStream!Init
  <2> SUFFICES ASSUME Init
               PROVE  InStream!Init
    OBVIOUS
  <2>1. captured = <<>> /\ fresh.in = 0 /\ main # "closed" /\ inputs = <<>> /\ input.rpos = 0
    BY DEF Init, NewRing
  <2>2. InRing = <<>> \/ ~threads
    <3> SUFFICES ASSUME threads
                 PROVE  InRing = <<>>
      OBVIOUS
    <3>1. AudioInv
      BY AudioStarts
    <3>2. input.avail = 0 /\ step = "idle" /\ engine.at = "wait"
      BY DEF Init, NewRing, Waiting
    <3>3. InRing \in Seq(Sample) /\ Len(InRing) = 0
      BY <3>1, <3>2, InRingTypes DEF TakeUncounted, PutUncounted
    <3> QED BY <3>3
  <2>3. FlattenSeq(inputs) = <<>>
    <3>1. <<>> \in Seq(Seq(Sample))
      OBVIOUS
    <3> QED BY <2>1, <3>1, FlattenTypes
  <2>4. InQueue = <<>>
    BY <2>1, <2>2, <2>3, MessagesPosted
  <2>5. Spoilt = FALSE
    BY <2>1 DEF Spoilt
  <2> QED BY <2>1, <2>4, <2>5 DEF InStream!Init
<1>2. AudioInv /\ AudioInv' /\ Blocks /\ [Next]_vars => [InStream!Next]_(InStream!vars)
  BY InStep
<1> QED BY <1>1, <1>2, BlocksStart, BlocksKeep, AudioStarts, AudioKeeps, PTL
        DEF Spec, CapturedInOrder, InStream!Spec
=============================================================================
