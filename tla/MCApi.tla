------------------------------- MODULE MCApi -------------------------------
(* Small instances of the API in front of the queue. *)
EXTENDS Api

CONSTANTS c1, c2, w1, direct, remote

Plain(k) == [content |-> k, hot |-> FALSE, dedupe |-> FALSE]

PlainWants == [c \in Clients |-> Plain(IF c = direct THEN c1 ELSE c2)]
NoRequests == {}
=============================================================================
