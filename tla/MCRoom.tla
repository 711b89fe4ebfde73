--------------------------------- MODULE MCRoom ---------------------------------
(* Room on a small instance: the players are interchangeable.                  *)
EXTENDS Room, TLC

CONSTANTS ann, bob, cid

Interchangeable == Permutations(Names)
=============================================================================
