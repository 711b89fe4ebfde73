------------------------------- MODULE MCMatch -------------------------------
(* Match positions and bounds for TLC. Every position has 1000 in all and a   *)
(* round, honba and stick count that hands already played can have left.      *)
EXTENDS Match

At(s, rd, h, sticks) ==
  [score |-> [i \in Seats |-> s[i + 1]], round |-> rd, honba |-> h, riichiBa |-> sticks]

\* The start of a match; a player close to ruin; South three with a stick left
\* from a draw; South four with the dealer leading, trailing or close to 30000;
\* extra rounds, one kept by a trailing dealer; the last round there can be.
OneHandPositions ==
  { FreshPosition,
    At(<<20, 480, 250, 250>>, 2, 0, 0),
    At(<<290, 240, 230, 230>>, 6, 1, 1),
    At(<<150, 250, 290, 310>>, 7, 0, 0),
    At(<<310, 290, 200, 190>>, 7, 1, 1),
    At(<<200, 270, 240, 280>>, 7, 0, 1),
    At(<<290, 280, 260, 170>>, 8, 0, 0),
    At(<<260, 330, 220, 190>>, 8, 1, 0),
    At(<<290, 280, 230, 180>>, 11, 1, 2) }

=============================================================================
