-------------------------------- MODULE Batch --------------------------------
(* kura --batch (pdfa-engine/cli/main.cpp): a folder of documents, one after   *)
(* the other in this process, or with --jobs by threads that each run a child  *)
(* process per document; the watchdog; the JSON array; the exit status.  Watch *)
(* mode, which runs one such batch after another, is module Watch.             *)
(*                                                                             *)
(* A document is a record: what its conversion comes to, and the ticks that    *)
(* takes.  "clash" is a document whose output would be the input itself, for   *)
(* which dstFor refuses.                                                       *)
EXTENDS Integers, Sequences

CONSTANTS Calls,  \* the invocations: a folder's documents in name order, --jobs, --watch
          Budget  \* PDFA_TIMEOUT, in ticks

ASSUME BatchAssumption ==
  /\ Budget \in Nat \ {0}
  /\ \A c \in Calls : c.docs \in Seq([outcome : STRING, takes : Nat]) /\ c.jobs \in Nat \ {0} /\ c.watch \in BOOLEAN

VARIABLES docs, jobs, watch,    \* the folder, --jobs, --watch
          now, deadline,        \* the clock, the watchdog's gDeadlineMs
          next,                 \* the next index to hand out
          busy,                 \* worker -> the document it has, 0 for none
          since,                \* worker -> when that document was started
          ended,                \* the workers that have returned
          codes, outputs,       \* per document
          printed,              \* what stands on stdout: brackets, commas, objects
          exit                  \* the exit status, Running before
call == <<docs, jobs, watch>>
vars == <<call, now, deadline, next, busy, since, ended, codes, outputs, printed, exit>>

Running == 255
Sign(c) == [t |-> c, of |-> 0]
Object(d) == [t |-> "object", of |-> d]
Workers == 1..jobs
Parallel == jobs > 1 /\ Len(docs) > 1
Team == IF Parallel THEN Workers ELSE {1}

\* runOne and a child's main: the status, and whether a report is printed
CodeOf(outcome) == CASE outcome = "ok" -> 0 [] outcome = "findings" -> 1 [] OTHER -> 2
Reports(outcome) == outcome \in {"ok", "findings", "rejected"}

\* Watch mode has no folder yet, runs at least two jobs and sets no deadline.
Init ==
  /\ \E c \in Calls : docs = c.docs /\ watch = c.watch /\ jobs = IF c.watch /\ c.jobs < 2 THEN 2 ELSE c.jobs
  /\ now = 0 /\ deadline = Budget /\ next = 1
  /\ busy = [w \in Workers |-> 0] /\ since = [w \in Workers |-> 0] /\ ended = {}
  /\ codes = [d \in DOMAIN docs |-> 0] /\ outputs = [d \in DOMAIN docs |-> "none"]
  /\ printed = (IF docs = <<>> THEN <<>> ELSE <<Sign("open")>>) /\ exit = (IF watch THEN 0 ELSE Running)

NoInputs ==
  /\ exit = Running /\ docs = <<>> /\ ~watch /\ exit' = 1
  /\ UNCHANGED <<call, now, deadline, next, busy, since, ended, codes, outputs, printed>>

Free(w) == exit = Running /\ docs # <<>> /\ w \in Team \ ended /\ busy[w] = 0
Due(w) == busy[w] # 0 /\ now >= since[w] + docs[busy[w]].takes

ClaimRaced(w) ==
  /\ Free(w) /\ next <= Len(docs) /\ docs[next].outcome # "clash"
  /\ busy' = [busy EXCEPT ![w] = next] /\ since' = [since EXCEPT ![w] = now]
  /\ next' \in {next, next + 1}
  /\ deadline' = IF Parallel \/ watch THEN deadline ELSE now + Budget
  /\ UNCHANGED <<call, now, ended, codes, outputs, printed, exit>>

\* next++ and the start of the document: only runOne, in this process, arms
\* the watchdog again, and not under --watch, which has set its seconds to 0.
Claim(w) ==
  /\ Free(w) /\ next <= Len(docs) /\ docs[next].outcome # "clash"
  /\ busy' = [busy EXCEPT ![w] = next] /\ since' = [since EXCEPT ![w] = now]
  /\ next' = next + 1
  /\ deadline' = IF Parallel \/ watch THEN deadline ELSE now + Budget
  /\ UNCHANGED <<call, now, ended, codes, outputs, printed, exit>>

\* dstFor refuses: nothing runs and, in sequence, nothing is printed.
Clash(w) ==
  /\ Free(w) /\ next <= Len(docs) /\ docs[next].outcome = "clash"
  /\ codes' = [codes EXCEPT ![next] = 2] /\ next' = next + 1
  /\ UNCHANGED <<call, now, deadline, busy, since, ended, outputs, printed, exit>>

Comma(d) == IF d < Len(docs) THEN <<Sign("comma")>> ELSE <<>>

FinishHere(w) ==
  /\ exit = Running /\ ~Parallel /\ Due(w)
  /\ LET d == busy[w] o == docs[d].outcome
     IN /\ codes' = [codes EXCEPT ![d] = CodeOf(o)]
        /\ printed' = printed \o (IF Reports(o) THEN <<Object(d)>> ELSE <<>>) \o Comma(d)
  /\ busy' = [busy EXCEPT ![w] = 0]
  /\ UNCHANGED <<call, now, deadline, next, since, ended, outputs, exit>>

ChildEnds(w) ==
  /\ exit = Running /\ Parallel /\ Due(w)
  /\ LET d == busy[w] o == docs[d].outcome
     IN /\ codes' = [codes EXCEPT ![d] = CodeOf(o)]
        /\ outputs' = [outputs EXCEPT ![d] = IF Reports(o) THEN "object" ELSE "none"]
  /\ busy' = [busy EXCEPT ![w] = 0]
  /\ UNCHANGED <<call, now, deadline, next, since, ended, printed, exit>>

\* A child's own watchdog: its report and status 3.
ChildTimesOut(w) ==
  /\ exit = Running /\ Parallel /\ busy[w] # 0 /\ now >= since[w] + Budget
  /\ codes' = [codes EXCEPT ![busy[w]] = 3] /\ outputs' = [outputs EXCEPT ![busy[w]] = "object"]
  /\ busy' = [busy EXCEPT ![w] = 0]
  /\ UNCHANGED <<call, now, deadline, next, since, ended, printed, exit>>

Return(w) ==
  /\ Free(w) /\ next > Len(docs) /\ ended' = ended \cup {w}
  /\ UNCHANGED <<call, now, deadline, next, busy, since, codes, outputs, printed, exit>>

Status ==
  IF \E d \in DOMAIN docs : codes[d] \in {2, 3} THEN 2
  ELSE IF \E d \in DOMAIN docs : codes[d] = 1 THEN 1 ELSE 0

JoinedByCode ==
  LET join[d \in 0..Len(docs)] ==
        IF d = 0 THEN <<>> ELSE join[d - 1] \o (IF outputs[d] = "none" THEN Comma(d) ELSE <<Object(d)>> \o Comma(d))
  IN join[Len(docs)]

\* The objects the threads collected, one for every document.
Joined ==
  LET join[d \in 0..Len(docs)] == IF d = 0 THEN <<>> ELSE join[d - 1] \o (<<Object(d)>> \o Comma(d))
  IN join[Len(docs)]

\* The join of the threads or the end of the loop, and the end of main.
End ==
  /\ exit = Running /\ docs # <<>> /\ ended = Team
  /\ printed' = printed \o (IF Parallel THEN Joined ELSE <<>>) \o <<Sign("close")>>
  /\ exit' = Status
  /\ UNCHANGED <<call, now, deadline, next, busy, since, ended, codes, outputs>>

WatchdogKeepsWaiting == exit = Running /\ ~watch /\ now >= deadline /\ UNCHANGED vars

\* pdfa_watchdog of this process
WatchdogFires ==
  /\ exit = Running /\ ~watch /\ now >= deadline /\ exit' = 3
  /\ printed' = Append(printed, Sign("timeout"))
  /\ UNCHANGED <<call, now, deadline, next, busy, since, ended, codes, outputs>>

\* Time does not pass while something is due.
Tick ==
  /\ exit = Running /\ (watch \/ now < deadline) /\ \E w \in Team : busy[w] # 0
  /\ \A w \in Team : w \in ended \/ (busy[w] # 0 /\ ~Due(w))
  /\ now' = now + 1
  /\ UNCHANGED <<call, deadline, next, busy, since, ended, codes, outputs, printed, exit>>

Done == exit # Running /\ UNCHANGED vars

Step ==
  \/ \E w \in Workers : Claim(w) \/ Clash(w) \/ FinishHere(w) \/ ChildEnds(w) \/ ChildTimesOut(w) \/ Return(w)
  \/ NoInputs \/ End \/ WatchdogFires \/ Tick
Next == Step \/ Done

Spec == Init /\ [][Next]_vars
\* The threads run, children end or are stopped by their watchdog, time passes.
FairSpec == Spec /\ WF_vars(Step)

-----------------------------------------------------------------------------
Finished == exit \notin {Running, 3} /\ docs # <<>>

\* docs/cli.md:80: "the report becomes a JSON array with one object per file",
\* here in name order whatever order the children end in.
OneObjectPerFile ==
  Finished =>
    /\ Len(printed) = 2 * Len(docs) + 1
    /\ \A d \in DOMAIN docs : printed[2 * d] = Object(d)
    /\ \A d \in 1..(Len(docs) - 1) : printed[2 * d + 1] = Sign("comma")

\* docs/cli.md:136: "`PDFA_TIMEOUT` sets the watchdog in seconds for each
\* document".  The batch is stopped only for a document that exceeded it.
WatchdogPerDocument == exit = 3 => \E d \in DOMAIN docs : docs[d].takes >= Budget

\* Every batch ends, also with documents that would run for ever, and so does
\* every round of a watch whose documents end.
BatchEnds == exit = Running ~> exit # Running
=============================================================================
