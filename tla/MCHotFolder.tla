---------------------------- MODULE MCHotFolder ----------------------------
(* Small instances of the watched folders. *)
EXTENDS HotFolder

\* Files with stems of their own, or in folders of their own.
OwnStems == [f \in Files |-> f]

\* a.pdf and a.jpg in one folder: the same stem.
SharedStem == [f \in Files |-> "a"]
=============================================================================
