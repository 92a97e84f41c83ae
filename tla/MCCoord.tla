------------------------------ MODULE MCCoord ------------------------------
(* Small instances of the coordinator's queue. *)
EXTENDS Coord, TLC

CONSTANTS c1, c2, w1, w2

Request(c, hot, dedupe) == [content |-> c, hot |-> hot, dedupe |-> dedupe]

\* One job from the API or from a hot folder.
PlainRequests == {Request(c1, FALSE, FALSE), Request(c1, TRUE, FALSE)}

\* A hot folder only.
HotRequests == {Request(c1, TRUE, FALSE)}

\* Conversions from the API and checks from a hot folder, both with dedupe=true.
DedupeRequests == {Request(c1, FALSE, TRUE), Request(c2, TRUE, TRUE)}

Symmetry == Permutations(Workers)
=============================================================================
