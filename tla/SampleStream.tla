---------------------------- MODULE SampleStream ----------------------------
(***************************************************************************)
(* What one direction of the web client's sound path promises, whatever    *)
(* carries it: samples come out in the order they were made, each once,    *)
(* none changed and none left out, and never more than Bound of them are   *)
(* on their way.  It says when samples it hands on are spoilt; those after *)
(* them are in order again.                                                *)
(***************************************************************************)
EXTENDS Integers, Sequences

CONSTANTS
  Ids,      \* samples are numbered round from 1 to Ids
  Silence,  \* what a buffer holds before anything was written to it
  Bound     \* the most that can be on its way

VARIABLES
  queue,  \* the samples on their way, oldest first
  taken,  \* the samples that came out last
  made,   \* the number of the sample made last, 0 before the first
  spoilt, \* what came out last is not what was on its way
  closed  \* the stream was given up

vars == <<queue, taken, made, spoilt, closed>>

Init ==
  queue = <<>> /\ taken = <<>> /\ made = 0 /\ spoilt = FALSE /\ closed = FALSE

\* Nothing but silence may come before the first sample.
Begin ==
  /\ ~closed /\ queue = <<>> /\ taken = <<>> /\ made = 0
  /\ \E n \in 1..Bound : queue' = [k \in 1..n |-> Silence]
  /\ UNCHANGED <<taken, made, spoilt, closed>>

Put ==
  /\ ~closed
  /\ \E n \in 1..Bound - Len(queue) :
       /\ queue' = queue \o [k \in 1..n |-> ((made + k - 1) % Ids) + 1]
       /\ made' = (made + n) % Ids
  /\ UNCHANGED <<taken, spoilt, closed>>

Take ==
  \E n \in 1..Len(queue) :
    /\ taken' = SubSeq(queue, 1, n) /\ spoilt' = FALSE
    /\ queue' = SubSeq(queue, n + 1, Len(queue))
    /\ UNCHANGED <<made, closed>>

\* As many samples come out as are taken off, whatever they are.
Spoil ==
  \E n \in 1..Len(queue) :
    /\ Len(taken') = n /\ spoilt' = TRUE
    /\ queue' = SubSeq(queue, n + 1, Len(queue))
    /\ UNCHANGED <<made, closed>>

\* The stream is given up with what is on its way, and what is still made is lost.
Close == ~closed /\ closed' = TRUE /\ queue' = <<>> /\ UNCHANGED <<taken, made, spoilt>>
Lose == closed /\ made' \in 0..Ids - 1 /\ UNCHANGED <<queue, taken, spoilt, closed>>

Next == Begin \/ Put \/ Take \/ Spoil \/ Close \/ Lose

Spec == Init /\ [][Next]_vars
=============================================================================
