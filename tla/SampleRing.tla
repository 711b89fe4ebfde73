----------------------------- MODULE SampleRing -----------------------------
(***************************************************************************)
(* class RingBuffer of MahJong.audio.worklet.js: which cells a read or a   *)
(* write touches and where it leaves the position.  One side of a ring     *)
(* reads, the other writes; each keeps a position of its own, and avail is *)
(* all they share.  Cells are numbered from 0.                             *)
(***************************************************************************)
EXTENDS Integers, Sequences

NewRing(size, sample, avail) ==
  [buffer |-> [c \in 0..size - 1 |-> sample], avail |-> avail, rpos |-> 0, wpos |-> 0]

DataLeft(ring) == ring.avail
SpaceLeft(ring, size) == size - DataLeft(ring)

\* read(output) for n samples: two pieces when they go past the end.  A read up
\* to the very end leaves rpos there.
ReadWraps(size, rpos, n) == rpos + n > size
ReadCells(size, rpos, n) ==
  LET high == IF ReadWraps(size, rpos, n) THEN size - rpos ELSE 0
      from == IF ReadWraps(size, rpos, n) THEN 0 ELSE rpos
  IN  [k \in 1..n |-> IF k <= high THEN rpos + k - 1 ELSE from + k - 1 - high]

\* As a fault: the position goes on from where the first piece began.
ReadPosNoWrap(size, rpos, n) ==
  IF ReadWraps(size, rpos, n) THEN n ELSE rpos + n

ReadPos(size, rpos, n) ==
  IF ReadWraps(size, rpos, n) THEN n - (size - rpos) ELSE rpos + n

\* write(p_buffer): mw samples fit before the end, the rest begins at cell 0.
WriteCells(size, wpos, n) ==
  LET mw == size - wpos
  IN  [k \in 1..n |-> IF k <= mw THEN wpos + k - 1 ELSE k - 1 - mw]

\* As a fault: a piece that ends at the end leaves the position there.
WritePosNoReset(size, wpos, n) ==
  LET mw == size - wpos
  IN  IF mw >= n THEN wpos + n ELSE n - mw

WritePos(size, wpos, n) ==
  LET mw == size - wpos
  IN  IF mw > n THEN wpos + n ELSE n - mw

Pick(buffer, cells) == [k \in DOMAIN cells |-> buffer[cells[k]]]
Fill(buffer, cells, samples) ==
  [c \in DOMAIN buffer |->
     IF \E k \in DOMAIN cells : cells[k] = c
     THEN samples[CHOOSE k \in DOMAIN cells : cells[k] = c]
     ELSE buffer[c]]

\* The n oldest samples a ring holds.
Contents(buffer, size, rpos, n) == [k \in 1..n |-> buffer[(rpos + k - 1) % size]]
=============================================================================
