------------------------------- MODULE Coord -------------------------------
(***************************************************************************)
(* The coordinator's job queue: server/src/coord.rs.                       *)
(*                                                                         *)
(* On disk (survives a crash): the SQLite table `jobs`, the AUTOINCREMENT  *)
(* sequence `next`, the job folders `dirs` and the out.pdf in each, `out`. *)
(* In memory (lost in a crash): every request handler or background loop   *)
(* that has let go of the database lock in the middle of its work.         *)
(*                                                                         *)
(* The clients are arbitrary: any worker may send any heartbeat or any     *)
(* result at any time, so late, repeated, lost and reordered requests are  *)
(* all behaviours of this module.  Time is abstracted to two facts about a *)
(* row: whether its lease has run out, and whether it is older than the    *)
(* result time-to-live.                                                    *)
(***************************************************************************)
EXTENDS Integers, FiniteSets

CONSTANTS
  Workers,      \* worker ids (the x-kura-worker header)
  Contents,     \* classes of (kind, args, input bytes): what hash_job tells apart
  Converts,     \* the contents whose kind is Convert: the ones with an out.pdf
  Requests,     \* what is submitted: content, from a hot folder?, with dedupe=true?
  MaxId,        \* bound: how many rows are ever inserted
  MaxAttempts,  \* KURA_MAX_ATTEMPTS
  QueueLimit,   \* KURA_QUEUE
  NoWorker,     \* SQL NULL in the worker column
  Dedupe,       \* the literal 'dedupe' in the worker column
  NoRun,        \* no result, no file
  WorkerLost,   \* RunResult::lost("worker lost n time(s)")
  Unreadable    \* RunResult::lost("job files unreadable")

Id == 1..MaxId

\* A finished engine run: who ran what, and whether api::outcome makes it a success.
Run == [job: Id, attempt: 1..MaxAttempts, worker: Workers, content: Contents, ok: BOOLEAN]

ASSUME MaxIdAssumption == MaxId \in Nat
ASSUME MaxAttemptsAssumption == MaxAttempts \in Nat \ {0}
ASSUME QueueLimitAssumption == QueueLimit \in Nat
ASSUME ContentsAssumption == Contents # {} /\ Converts \subseteq Contents
ASSUME RequestsAssumption ==
  Requests \subseteq [content: Contents, hot: BOOLEAN, dedupe: BOOLEAN]
ASSUME NullAssumption ==
  /\ NoWorker \notin Workers /\ Dedupe \notin Workers /\ NoWorker # Dedupe
  /\ \A r \in {NoRun, WorkerLost, Unreadable} : r \notin Run
  /\ NoRun # WorkerLost /\ NoRun # Unreadable /\ WorkerLost # Unreadable

VARIABLES
  jobs,        \* the table: a row per id
  next,        \* the id the next INSERT takes
  dirs,        \* ids whose folder jobs/<id> exists
  out,         \* the out.pdf in each folder, named by the run that made it
  up,          \* "up", "opening" (deliver_pending is running) or "down"
  leasing,     \* POST /internal/lease handlers between lease() and the response
  staging,     \* POST .../complete handlers between holds() and finish()
  reaping,     \* the rows reap() selected and has not handled yet
  purging,     \* the ids janitor() selected and has not handled yet
  unmarked,    \* the id whose folder janitor() removed, purged=1 not yet written
  delivering   \* the ids deliver() is working on

disk == <<jobs, next, dirs, out>>
memory == <<leasing, staging, reaping, purging, unmarked, delivering>>
vars == <<disk, up, memory>>

Terminal == {"done", "failed"}
Results == Run \cup {NoRun, WorkerLost, Unreadable}

Row == [state: {"none", "queued", "running"} \cup Terminal, content: Contents,
        hot: BOOLEAN, dedupe: BOOLEAN, attempts: 0..MaxAttempts,
        worker: Workers \cup {NoWorker, Dedupe}, lease: {"none", "live", "expired"},
        result: Results, delivered: BOOLEAN, purged: BOOLEAN, old: BOOLEAN]

\* LeaseMeta and the worker it went to.
Leases == [id: Id, attempt: 1..MaxAttempts, worker: Workers]

NewRow(c, hot, dedupe) ==
  [state |-> "queued", content |-> c, hot |-> hot, dedupe |-> dedupe, attempts |-> 0,
   worker |-> NoWorker, lease |-> "none", result |-> NoRun,
   delivered |-> FALSE, purged |-> FALSE, old |-> FALSE]

\* An id that has no row: never inserted, or deleted by the janitor.
NoRow == [NewRow(CHOOSE c \in Contents : TRUE, FALSE, FALSE) EXCEPT !.state = "none"]

Init ==
  /\ jobs = [i \in Id |-> NoRow]
  /\ next = 1
  /\ dirs = {}
  /\ out = [i \in Id |-> NoRun]
  /\ up = "up"
  /\ leasing = {} /\ staging = {} /\ reaping = {}
  /\ purging = {} /\ unmarked = {} /\ delivering = {}

-----------------------------------------------------------------------------
(* Submitting *)

QueuedApi == {i \in Id : jobs[i].state = "queued" /\ ~jobs[i].hot}

\* Mutant: one job too many.
AdmitsOneMore(hot) == hot \/ Cardinality(QueuedApi) <= QueueLimit

\* submit() answers Busy to the API at the limit; a hot folder is never refused.
Admits(hot) == hot \/ Cardinality(QueuedApi) < QueueLimit

\* Mutant: the hash leaves out the input bytes.
DedupeHitsAnyInput(c) == {i \in Id : jobs[i].state = "done" /\ jobs[i].dedupe /\ ~jobs[i].purged}

\* Mutant: a job that was not finished is reused.
DedupeHitsAnyState(c) == {i \in Id : /\ jobs[i].state # "none" /\ jobs[i].dedupe
                                     /\ jobs[i].content = c /\ ~jobs[i].purged}

\* Rows the dedupe lookup accepts, and the one it takes: the newest.
DedupeHits(c) == {i \in Id : /\ jobs[i].state = "done" /\ jobs[i].dedupe
                             /\ jobs[i].content = c /\ ~jobs[i].purged}
IsNewest(i, S) == i \in S /\ \A k \in S : k <= i

\* Linking the outputs of the previous job: only a conversion has one.
Linkable(c, p) == c \in Converts => out[p] # NoRun

CachedRow(row, p) ==
  [row EXCEPT !.state = "done", !.result = jobs[p].result, !.worker = Dedupe]

\* INSERT, rename the upload to jobs/<id>, look for an identical finished job, COMMIT.
\* rename() onto a folder that is already there (and not empty) fails the submission.
Submit(c, hot, dedupe) ==
  /\ up = "up" /\ next \in Id
  /\ Admits(hot)
  /\ next \notin dirs
  /\ dirs' = dirs \cup {next}
  /\ next' = next + 1
  /\ LET row == NewRow(c, hot, dedupe) IN
       \/ /\ \A p \in DedupeHits(c) : ~(dedupe /\ IsNewest(p, DedupeHits(c)) /\ Linkable(c, p))
          /\ jobs' = [jobs EXCEPT ![next] = row]
          /\ UNCHANGED <<out, delivering>>
       \/ \E p \in DedupeHits(c) :
            /\ dedupe /\ IsNewest(p, DedupeHits(c)) /\ Linkable(c, p)
            /\ jobs' = [jobs EXCEPT ![next] = CachedRow(row, p)]
            /\ out' = [out EXCEPT ![next] = IF c \in Converts THEN out[p] ELSE NoRun]
            /\ delivering' = IF hot THEN delivering \cup {next} ELSE delivering
  /\ UNCHANGED <<up, leasing, staging, reaping, purging, unmarked>>

\* The UPDATE that makes the new row a dedupe hit fails (a full disk, say): the
\* transaction rolls back and the renamed folder stays behind.
SubmitUpdateFails(c, hot, dedupe) ==
  /\ up = "up" /\ next \in Id /\ Admits(hot) /\ next \notin dirs
  /\ dedupe /\ \E p \in DedupeHits(c) : IsNewest(p, DedupeHits(c)) /\ Linkable(c, p)
  /\ dirs' = dirs \cup {next}
  /\ UNCHANGED <<jobs, next, out, up, memory>>

-----------------------------------------------------------------------------
(* Leases *)

Oldest(i) == \A k \in Id : jobs[k].state = "queued" => i <= k

\* Mutant: a lease is not counted as a try.
LeasedRowUncounted(row, w) ==
  [row EXCEPT !.state = "running", !.worker = w, !.lease = "live"]

LeasedRow(row, w) ==
  [row EXCEPT !.state = "running", !.attempts = row.attempts + 1, !.worker = w, !.lease = "live"]

\* POST /internal/lease: lease_wait() took the oldest queued row.
Lease(w, i) ==
  /\ up = "up"
  /\ jobs[i].state = "queued" /\ Oldest(i)
  /\ jobs' = [jobs EXCEPT ![i] = LeasedRow(jobs[i], w)]
  /\ leasing' = leasing \cup {[id |-> i, attempt |-> jobs[i].attempts + 1, worker |-> w]}
  /\ UNCHANGED <<next, dirs, out, up, staging, reaping, purging, unmarked, delivering>>

\* The files were opened; the response goes out (and may or may not arrive).
LeaseSent(h) ==
  /\ up = "up" /\ h \in leasing
  /\ leasing' = leasing \ {h}
  /\ UNCHANGED <<disk, up, staging, reaping, purging, unmarked, delivering>>

\* POST /internal/heartbeat renews the leases it names that this worker holds.
Heartbeat(w, R) ==
  /\ up = "up"
  /\ jobs' = [i \in Id |->
                IF i \in R /\ jobs[i].worker = w /\ jobs[i].state = "running"
                THEN [jobs[i] EXCEPT !.lease = "live"] ELSE jobs[i]]
  /\ UNCHANGED <<next, dirs, out, up, memory>>

\* now_ms() passes lease_until.
LeaseExpires(i) ==
  /\ jobs[i].state = "running" /\ jobs[i].lease = "live"
  /\ jobs' = [jobs EXCEPT ![i].lease = "expired"]
  /\ UNCHANGED <<next, dirs, out, up, memory>>

-----------------------------------------------------------------------------
(* Finishing *)

\* Mutant: a result is accepted while the job runs, whoever holds it by now.
HoldsAnyone(h) == jobs[h.id].state = "running"

Holds(h) ==
  /\ jobs[h.id].state = "running"
  /\ jobs[h.id].attempts = h.attempt
  /\ jobs[h.id].worker = h.worker

RunOf(h, ok) == [job |-> h.id, attempt |-> h.attempt, worker |-> h.worker,
                 content |-> jobs[h.id].content, ok |-> ok]

FinishedState(r) == IF r \in Run /\ r.ok THEN "done" ELSE "failed"

FinishedRow(row, r) ==
  [row EXCEPT !.state = FinishedState(r), !.result = r, !.lease = "none", !.old = FALSE]

\* The UPDATE of finish(), and the deliver() that follows it for a hot folder.
SetFinished(i, r) ==
  /\ jobs' = [jobs EXCEPT ![i] = FinishedRow(jobs[i], r)]
  /\ delivering' = IF jobs[i].hot THEN delivering \cup {i} ELSE delivering

\* finish() without an attempt: only a finished or missing row stops it.
FinishLost(i, r) ==
  IF jobs[i].state \in Terminal \cup {"none"}
  THEN UNCHANGED <<jobs, delivering>>
  ELSE SetFinished(i, r)

\* The lease handler could not open a job file.
LeaseUnreadable(h) ==
  /\ up = "up" /\ h \in leasing
  /\ leasing' = leasing \ {h}
  /\ FinishLost(h.id, Unreadable)
  /\ UNCHANGED <<next, dirs, out, up, staging, reaping, purging, unmarked>>

\* POST .../complete: the attempt holds the job and its staging folder was made.
CompleteStart(h) ==
  /\ up = "up" /\ Holds(h) /\ h.id \in dirs
  /\ staging' = staging \cup {h}
  /\ UNCHANGED <<disk, up, leasing, reaping, purging, unmarked, delivering>>

\* Renaming the uploaded files into the job folder.
Staged(h, ok) ==
  IF ok /\ jobs[h.id].content \in Converts
  THEN [out EXCEPT ![h.id] = RunOf(h, ok)] ELSE out

\* The upload arrived; finish() checks the attempt again inside its transaction.
CompleteFinish(h, ok) ==
  /\ up = "up" /\ h \in staging
  /\ staging' = staging \ {h}
  /\ IF Holds(h)
     THEN SetFinished(h.id, RunOf(h, ok)) /\ out' = Staged(h, ok)
     ELSE UNCHANGED <<jobs, delivering, out>>
  /\ UNCHANGED <<next, dirs, up, leasing, reaping, purging, unmarked>>

\* The files were moved into place but the UPDATE or the COMMIT failed.
CompleteNotCommitted(h, ok) ==
  /\ up = "up" /\ h \in staging /\ Holds(h)
  /\ staging' = staging \ {h}
  /\ out' = Staged(h, ok)
  /\ UNCHANGED <<jobs, next, dirs, up, leasing, reaping, purging, unmarked, delivering>>

\* The upload broke off, or a file could not be moved into place.
CompleteAbort(h) ==
  /\ up = "up" /\ h \in staging
  /\ staging' = staging \ {h}
  /\ UNCHANGED <<disk, up, leasing, reaping, purging, unmarked, delivering>>

-----------------------------------------------------------------------------
(* The reaper: select under the lock, then act on each row under a new one *)

Expired == {i \in Id : jobs[i].state = "running" /\ jobs[i].lease = "expired"}

ReapSelect ==
  /\ up = "up" /\ reaping = {} /\ Expired # {}
  /\ reaping' = {[id |-> i, attempts |-> jobs[i].attempts] : i \in Expired}
  /\ UNCHANGED <<disk, up, leasing, staging, purging, unmarked, delivering>>

RequeuedRow(row) == [row EXCEPT !.state = "queued", !.worker = NoWorker, !.lease = "none"]

Requeue(i) ==
  /\ jobs' = IF jobs[i].state = "running"
             THEN [jobs EXCEPT ![i] = RequeuedRow(jobs[i])] ELSE jobs
  /\ UNCHANGED delivering

\* Mutant: a lost worker fails the job at once.
ReapOneNoRetry(e) ==
  /\ up = "up" /\ e \in reaping
  /\ reaping' = reaping \ {e}
  /\ FinishLost(e.id, WorkerLost)
  /\ UNCHANGED <<next, dirs, out, up, leasing, staging, purging, unmarked>>

ReapOne(e) ==
  /\ up = "up" /\ e \in reaping
  /\ reaping' = reaping \ {e}
  /\ \/ e.attempts >= MaxAttempts /\ FinishLost(e.id, WorkerLost)
     \/ e.attempts < MaxAttempts /\ Requeue(e.id)
  /\ UNCHANGED <<next, dirs, out, up, leasing, staging, purging, unmarked>>

-----------------------------------------------------------------------------
(* Results: reading, releasing, purging *)

\* A finished row becomes older than KURA_RESULT_TTL_S.
Age(i) ==
  /\ jobs[i].state \in Terminal /\ ~jobs[i].old
  /\ jobs' = [jobs EXCEPT ![i].old = TRUE]
  /\ UNCHANGED <<next, dirs, out, up, memory>>

ReleasedRow(row) == [row EXCEPT !.purged = TRUE, !.delivered = TRUE]

\* release(): the API answered its client, or a front end sent /ack.  Both do so
\* only after they have read the finished result.
Release(i) ==
  /\ up = "up" /\ jobs[i].state \in Terminal /\ ~jobs[i].hot
  /\ IF jobs[i].dedupe
     THEN /\ jobs' = [jobs EXCEPT ![i].delivered = TRUE]
          /\ UNCHANGED <<dirs, out>>
     ELSE /\ jobs' = [jobs EXCEPT ![i] = ReleasedRow(jobs[i])]
          /\ dirs' = dirs \ {i}
          /\ out' = [out EXCEPT ![i] = NoRun]
  /\ UNCHANGED <<next, up, memory>>

\* Mutant: an undelivered hot-folder result is purged like any other.
PurgeableUndelivered == {i \in Id : jobs[i].state \in Terminal /\ ~jobs[i].purged /\ jobs[i].old}

Purgeable == {i \in Id : /\ jobs[i].state \in Terminal /\ ~jobs[i].purged /\ jobs[i].old
                         /\ (~jobs[i].hot \/ jobs[i].delivered)}

JanitorSelect ==
  /\ up = "up" /\ purging = {} /\ unmarked = {} /\ Purgeable # {}
  /\ purging' = Purgeable
  /\ UNCHANGED <<disk, up, leasing, staging, reaping, unmarked, delivering>>

\* remove_dir_all, without the lock.
JanitorRemove(i) ==
  /\ up = "up" /\ i \in purging /\ unmarked = {}
  /\ dirs' = dirs \ {i}
  /\ out' = [out EXCEPT ![i] = NoRun]
  /\ purging' = purging \ {i}
  /\ unmarked' = {i}
  /\ UNCHANGED <<jobs, next, up, leasing, staging, reaping, delivering>>

JanitorMark(i) ==
  /\ up = "up" /\ i \in unmarked
  /\ jobs' = [jobs EXCEPT ![i].purged = TRUE]
  /\ unmarked' = {}
  /\ UNCHANGED <<next, dirs, out, up, leasing, staging, reaping, purging, delivering>>

\* DELETE of purged rows more than a week old: which ones those are is left open.
JanitorDelete(D) ==
  /\ up = "up" /\ purging = {} /\ unmarked = {}
  /\ D # {} /\ \A i \in D : jobs[i].state # "none" /\ jobs[i].purged
  /\ jobs' = [i \in Id |-> IF i \in D THEN NoRow ELSE jobs[i]]
  /\ UNCHANGED <<next, dirs, out, up, memory>>

-----------------------------------------------------------------------------
(* Hot folders (the folders themselves are module HotFolder) *)

\* place() put the outcome, or the error, into the folder; delivered=1.
DeliverOk(i) ==
  /\ up # "down" /\ i \in delivering
  /\ jobs' = [jobs EXCEPT ![i].delivered = TRUE]
  /\ delivering' = delivering \ {i}
  /\ UNCHANGED <<next, dirs, out, up, leasing, staging, reaping, purging, unmarked>>

\* place() failed for the outcome and again for the error report.
DeliverFails(i) ==
  /\ up # "down" /\ i \in delivering
  /\ delivering' = delivering \ {i}
  /\ UNCHANGED <<disk, up, leasing, staging, reaping, purging, unmarked>>

-----------------------------------------------------------------------------
(* Crash and restart *)

Forget ==
  /\ up' = "down"
  /\ leasing' = {} /\ staging' = {} /\ reaping' = {}
  /\ purging' = {} /\ unmarked' = {} /\ delivering' = {}

Crash ==
  /\ up # "down"
  /\ Forget
  /\ UNCHANGED disk

\* The process dies between the rename of the upload and the COMMIT of submit().
CrashInSubmit(hot) ==
  /\ up = "up" /\ next \in Id /\ Admits(hot) /\ next \notin dirs
  /\ dirs' = dirs \cup {next}
  /\ Forget
  /\ UNCHANGED <<jobs, next, out>>

\* The process dies between the renames of finish() and its COMMIT.
CrashInFinish(h, ok) ==
  /\ up = "up" /\ h \in staging /\ Holds(h)
  /\ out' = Staged(h, ok)
  /\ Forget
  /\ UNCHANGED <<jobs, next, dirs>>

Undelivered == {i \in Id : jobs[i].state \in Terminal /\ jobs[i].hot /\ ~jobs[i].delivered}

\* Coord::open: deliver_pending() runs before the first request is served.
Open ==
  /\ up = "down"
  /\ up' = "opening"
  /\ delivering' = Undelivered
  /\ UNCHANGED <<disk, leasing, staging, reaping, purging, unmarked>>

Serve ==
  /\ up = "opening" /\ delivering = {}
  /\ up' = "up"
  /\ UNCHANGED <<disk, memory>>

-----------------------------------------------------------------------------
Next ==
  \/ \E q \in Requests : \/ Submit(q.content, q.hot, q.dedupe)
                        \/ SubmitUpdateFails(q.content, q.hot, q.dedupe)
                        \/ CrashInSubmit(q.hot)
  \/ \E w \in Workers, i \in Id : Lease(w, i)
  \/ \E h \in leasing : LeaseSent(h) \/ LeaseUnreadable(h)
  \/ \E w \in Workers, R \in SUBSET Id : Heartbeat(w, R)
  \/ \E i \in Id : LeaseExpires(i) \/ Age(i)
  \/ \E h \in Leases : CompleteStart(h)
  \/ \E h \in staging, ok \in BOOLEAN : \/ CompleteFinish(h, ok)
                                       \/ CompleteNotCommitted(h, ok)
                                       \/ CrashInFinish(h, ok)
  \/ \E h \in staging : CompleteAbort(h)
  \/ ReapSelect
  \/ \E e \in reaping : ReapOne(e)
  \/ \E i \in Id : Release(i)
  \/ JanitorSelect
  \/ \E i \in Id : JanitorRemove(i) \/ JanitorMark(i)
  \/ \E D \in SUBSET Id : JanitorDelete(D)
  \/ \E i \in Id : DeliverOk(i) \/ DeliverFails(i)
  \/ Crash
  \/ Open \/ Serve

Spec == Init /\ [][Next]_vars

-----------------------------------------------------------------------------
(* Properties *)

TypeOK ==
  /\ jobs \in [Id -> Row]
  /\ next \in 1..(MaxId + 1)
  /\ dirs \subseteq Id
  /\ out \in [Id -> Run \cup {NoRun}]
  /\ up \in {"up", "opening", "down"}
  /\ leasing \subseteq Leases /\ staging \subseteq Leases
  /\ reaping \subseteq [id: Id, attempts: 0..MaxAttempts]
  /\ purging \subseteq Id /\ unmarked \subseteq Id /\ delivering \subseteq Id

\* Fencing.  A recorded result that was computed for this job is the result of the
\* last lease the queue granted for it, however late an earlier holder's upload comes.
ResultFromLastLease ==
  \A i \in Id : LET r == jobs[i].result IN
    r \in Run /\ r.job = i => r.attempt = jobs[i].attempts /\ r.worker = jobs[i].worker

\* Retries.  A waiting job has a try left, and "worker lost" is only ever the verdict
\* on a job that used up all of its tries.
RetriesUsedUp ==
  \A i \in Id :
    /\ jobs[i].state = "queued" => jobs[i].attempts < MaxAttempts
    /\ jobs[i].result = WorkerLost => jobs[i].attempts = MaxAttempts

\* A job that waits or runs has its folder; a finished one keeps a complete result (a
\* conversion: the PDF of the very run whose report is recorded) until it is released
\* or has outlived the time-to-live, and a hot-folder job until it is delivered.
ResultKept ==
  \A i \in Id :
    /\ jobs[i].state \in {"queued", "running"} => i \in dirs
    /\ jobs[i].state \in Terminal /\ i \notin dirs =>
         jobs[i].purged \/ (jobs[i].old /\ (jobs[i].hot => jobs[i].delivered))
    /\ jobs[i].state = "done" /\ jobs[i].content \in Converts /\ i \in dirs =>
         out[i] = jobs[i].result

\* A result, whether computed for the job or reused by dedupe, is for the job's own
\* content.
ResultForOwnContent ==
  \A i \in Id : jobs[i].result \in Run => jobs[i].result.content = jobs[i].content

\* Back-pressure.  At most QueueLimit API jobs wait for their first lease; only jobs
\* that come back from lost workers can exceed the limit.
FreshQueueBounded ==
  Cardinality({i \in QueuedApi : jobs[i].attempts = 0}) <= QueueLimit

\* docs/self-hosting.md:164: "Watched folders are never refused."  While the coordinator
\* serves, the folder name the next submission renames its upload to is unused; if it is
\* not, rename() fails this submission and, since no id is used up, every later one.
SubmitNeverBlocked == up = "up" /\ next \in Id => next \notin dirs
-----------------------------------------------------------------------------
(* The promise this module implements *)

Phase(i) ==
  CASE jobs[i].state \in Terminal -> jobs[i].state
    [] jobs[i].state \in {"queued", "running"} -> "pending"
    [] jobs[i].state = "none" -> IF i < next THEN "forgotten" ELSE "new"

Promise == INSTANCE JobPromise WITH
  Job <- Id, Verdict <- Results \ {NoRun}, NoVerdict <- NoRun,
  phase <- [i \in Id |-> Phase(i)], verdict <- [i \in Id |-> jobs[i].result]

\* Every step of the queue, crashes, retries, late uploads and purges included, is a step
\* of the promise or changes nothing that a submitter can see.
ImplementsPromise == Promise!Spec

-----------------------------------------------------------------------------
(* The inductive invariant: what the properties above rest on *)

\* What every row satisfies on its own: ids are used in order, an unfinished job has no
\* result yet and a waiting one has a try left, a finished one has its last lease's result.
RowInv ==
  \A i \in Id : LET row == jobs[i] IN
    /\ i >= next => row.state = "none"
    /\ row.state \notin Terminal => row.result = NoRun /\ ~row.purged /\ ~row.old
    /\ row.state = "queued" => row.attempts < MaxAttempts
    /\ row.state = "running" => row.attempts >= 1 /\ row.worker \in Workers
    /\ row.state = "done" => row.result \in Run /\ row.result.ok
    /\ row.result = WorkerLost => row.attempts = MaxAttempts
    /\ row.result \in Run => row.result.job < next

\* A row the reaper is about to handle is still the lease it saw expire, or finished:
\* nobody else puts a job back into the queue.
ReapInv ==
  \A e \in reaping : /\ e.id < next /\ jobs[e.id].state # "queued"
                     /\ jobs[e.id].state = "running" => jobs[e.id].attempts = e.attempts

\* The janitor's list and the folder it has just removed: finished, old, delivered.
PurgeInv ==
  \A i \in purging \cup unmarked :
    jobs[i].state \in Terminal /\ jobs[i].old /\ (jobs[i].hot => jobs[i].delivered)

\* There is an out.pdf only inside a folder.
FolderInv == \A i \in Id : out[i] # NoRun => i \in dirs

IInv ==
  /\ TypeOK /\ RowInv /\ ReapInv /\ PurgeInv /\ FolderInv
  /\ ResultFromLastLease /\ ResultKept /\ ResultForOwnContent
=============================================================================
