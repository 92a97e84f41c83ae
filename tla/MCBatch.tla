------------------------------- MODULE MCBatch -------------------------------
(* Folders of up to three documents; a document takes one tick, or more than  *)
(* any budget.                                                                 *)
EXTENDS Watch

Of(Outcomes, Ticks) == [outcome : Outcomes, takes : Ticks]
UpTo(n, S) == UNION {[1..k -> S] : k \in 0..n}
All == {"ok", "findings", "rejected", "unopenable", "clash"}
Batches(F, J) == [docs : F, jobs : J, watch : {FALSE}]

AllFolders == UpTo(3, Of(All, {1}) \cup Of({"ok"}, {9}))
\* documents that are read and whose output is not the input
ReadableFolders == UpTo(3, Of({"ok", "findings", "rejected"}, {1}) \cup Of({"ok"}, {9}))
PromptFolders == UpTo(3, Of({"ok"}, {1}))

WatchCalls == {[docs |-> <<>>, jobs |-> 1, watch |-> TRUE]}
\* Any folder with two jobs, readable ones in sequence; a single document is
\* converted in this process, whatever --jobs says.
MCCalls == Batches({f \in AllFolders : Len(f) > 1}, {2}) \cup Batches(ReadableFolders, {1, 2}) \cup WatchCalls
PromptCalls == Batches(PromptFolders, {2})
SequenceCalls == Batches(AllFolders, {1})

\* In the watched folder: one that takes its time, one refused, one converted at once.
MCContent == <<[outcome |-> "ok", takes |-> 9], [outcome |-> "rejected", takes |-> 1], [outcome |-> "ok", takes |-> 1]>>
Elsewhere == [n \in Names |-> 0]
\* Beside the input: 1.pdf becomes 2.pdf, which becomes 3.pdf.
Beside == <<2, 3, 0>>
=============================================================================
