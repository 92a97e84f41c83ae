----------------------------- MODULE SiteEngine -----------------------------
(* What a page of the site has of the engine: createEngine of site/engine.js *)
(* with the Web Worker of site/worker.js, or of site/engine-http.js with the *)
(* server.  A request waits on the wire until its answer comes; the answer   *)
(* is applied by the page, in the continuation of its await.                 *)
EXTENDS Naturals, Sequences

CONSTANT InOrder  \* the worker answers in the order of the messages, the server does not

VARIABLES ready,  \* the page's flag of the same name
          lost,   \* the worker is gone, or the service was not there
          wire    \* the requests that have no answer yet: the pending map
site == <<ready, lost, wire>>

SiteInit == ready = FALSE /\ lost = FALSE /\ wire = <<>>

Post(q) == wire' = Append(wire, q)

\* The requests that may be answered next.
Due == IF InOrder THEN {1} \cap DOMAIN wire ELSE DOMAIN wire
Without(s, i) == [j \in 1..(Len(s) - 1) |-> IF j < i THEN s[j] ELSE s[j + 1]]
Taken(i) == Without(wire, i)

\* ready: true of the worker or of /healthz
Loaded == ~ready /\ ~lost /\ ready' = TRUE /\ lost' = FALSE

\* ready: false, or the worker's error event: nothing settles what is pending.
Breaks == ~lost /\ lost' = TRUE /\ ready' = FALSE
=============================================================================
