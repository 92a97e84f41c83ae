---------------------------- MODULE CoordProofs ----------------------------
(***************************************************************************)
(* What holds of the coordinator's queue for every number of jobs, workers *)
(* and tries.                                                              *)
(***************************************************************************)
EXTENDS Coord, TLAPS

(* The rows that the actions write *)

\* The row that submit() inserts: queued, without attempts, result or flags.
LEMMA NewRowFields ==
  ASSUME NEW c \in Contents, NEW hot \in BOOLEAN, NEW dedupe \in BOOLEAN
  PROVE  LET n == NewRow(c, hot, dedupe) IN
         /\ n \in Row /\ n.state = "queued" /\ n.result = NoRun /\ n.attempts = 0
         /\ n.content = c /\ n.hot = hot /\ ~n.purged /\ ~n.old /\ ~n.delivered
BY MaxAttemptsAssumption DEF NewRow, Row, Results

\* An id that was never inserted, or whose row is gone, has no result.
LEMMA NoRowFields ==
  NoRow \in Row /\ NoRow.state = "none" /\ NoRow.result = NoRun /\ ~NoRow.purged /\ ~NoRow.old
BY NewRowFields, ContentsAssumption, Zenon DEF NoRow, NewRow, Row

\* What lease() writes: running, one more attempt, the new worker, nothing else.
LEMMA LeasedRowFields ==
  ASSUME NEW row \in Row, row.attempts < MaxAttempts, NEW w \in Workers
  PROVE  LET n == LeasedRow(row, w) IN
         /\ n \in Row /\ n.state = "running" /\ n.attempts = row.attempts + 1 /\ n.worker = w
         /\ n.attempts \in 1..MaxAttempts
         /\ n.result = row.result /\ n.content = row.content /\ n.hot = row.hot
         /\ n.purged = row.purged /\ n.old = row.old
<1>1. row.attempts \in 0..MaxAttempts
  BY Zenon DEF Row
<1>2. row.attempts + 1 \in 0..MaxAttempts /\ row.attempts + 1 \in 1..MaxAttempts
  BY <1>1, MaxAttemptsAssumption
<1>. QED BY <1>2, Zenon DEF LeasedRow, Row

\* What finish() writes: a terminal state, the result and a fresh `updated`;
\* done only for a run that succeeded.
LEMMA FinishedRowFields ==
  ASSUME NEW row \in Row, NEW r \in Results
  PROVE  LET n == FinishedRow(row, r) IN
         /\ n \in Row /\ n.state = FinishedState(r) /\ n.result = r /\ ~n.old
         /\ n.attempts = row.attempts /\ n.worker = row.worker
         /\ n.content = row.content /\ n.hot = row.hot /\ n.purged = row.purged
         /\ n.state \in Terminal /\ (n.state = "done" => r \in Run /\ r.ok)
BY Zenon DEF FinishedRow, FinishedState, Row, Terminal

\* What reap() writes when attempts are left: the state and nothing else.
LEMMA RequeuedRowFields ==
  ASSUME NEW row \in Row
  PROVE  LET n == RequeuedRow(row) IN
         /\ n \in Row /\ n.state = "queued" /\ n.result = row.result
         /\ n.attempts = row.attempts /\ n.content = row.content /\ n.hot = row.hot
         /\ n.purged = row.purged /\ n.old = row.old
BY Zenon DEF RequeuedRow, Row

\* What submit() writes on a dedupe hit: done, with the result of the earlier job.
LEMMA CachedRowFields ==
  ASSUME TypeOK, NEW row \in Row, NEW p \in Id
  PROVE  LET n == CachedRow(row, p) IN
         /\ n \in Row /\ n.state = "done" /\ n.result = jobs[p].result
         /\ n.attempts = row.attempts /\ n.content = row.content /\ n.hot = row.hot
         /\ n.purged = row.purged /\ n.old = row.old
BY Zenon DEF CachedRow, Row, TypeOK, Terminal

\* The result that the holder of a lease uploads names that lease and the job's content.
LEMMA RunOfFields ==
  ASSUME TypeOK, NEW h \in Leases, NEW ok \in BOOLEAN
  PROVE  LET r == RunOf(h, ok) IN
         /\ r \in Run /\ r \in Results /\ r.job = h.id /\ r.attempt = h.attempt
         /\ r.worker = h.worker /\ r.content = jobs[h.id].content /\ r.ok = ok
BY Zenon DEF TypeOK, RunOf, Run, Leases, Row, Results

-----------------------------------------------------------------------------
(* Steps that leave the table as it is *)

\* A step that leaves the rows and outputs alone, and adds folders only under ids
\* without a row, keeps the invariant.
LEMMA SameRows ==
  ASSUME IInv, TypeOK', jobs' = jobs, next' = next, out' = out, dirs \subseteq dirs',
         \A i \in dirs' \ dirs : jobs[i].state = "none",
         ReapInv', PurgeInv'
  PROVE  IInv'
<1>1. RowInv'
  BY Zenon DEF IInv, RowInv
<1>2. FolderInv' /\ ResultFromLastLease' /\ ResultForOwnContent'
  BY Zenon DEF IInv, FolderInv, ResultFromLastLease, ResultForOwnContent
<1>3. ResultKept'
  BY Zenon DEF IInv, ResultKept, Terminal
<1>. QED BY <1>1, <1>2, <1>3, Zenon DEF IInv

\* A submit() that fails after its rename leaves a folder and no row.
LEMMA SubmitUpdateFailsInv ==
  ASSUME IInv, NEW c, NEW hot, NEW dedupe, SubmitUpdateFails(c, hot, dedupe) PROVE IInv'
<1>1. /\ next \in Id /\ dirs' = dirs \cup {next}
      /\ UNCHANGED <<jobs, next, out, up, memory>>
  BY Zenon DEF SubmitUpdateFails
<1>2. TypeOK' /\ ReapInv' /\ PurgeInv'
  BY <1>1, Zenon DEF IInv, TypeOK, ReapInv, PurgeInv, memory
<1>3. jobs[next].state = "none"
  BY <1>1, MaxIdAssumption DEF IInv, RowInv, Id
<1>. QED BY <1>1, <1>2, <1>3, SameRows, Zenon

\* A crash between submit()'s rename and its COMMIT does the same.
LEMMA CrashInSubmitInv ==
  ASSUME IInv, NEW hot, CrashInSubmit(hot) PROVE IInv'
<1>1. TypeOK' /\ ReapInv' /\ PurgeInv'
  BY Zenon DEF CrashInSubmit, Forget, IInv, TypeOK, ReapInv, PurgeInv
<1>2. next \in Id /\ dirs' = dirs \cup {next} /\ jobs' = jobs /\ next' = next /\ out' = out
  BY Zenon DEF CrashInSubmit
<1>3. jobs[next].state = "none"
  BY <1>2, MaxIdAssumption DEF IInv, RowInv, Id
<1>. QED BY <1>1, <1>2, <1>3, SameRows, Zenon

\* Answering a lease, and starting or dropping an upload, touch no row.
LEMMA HandlerInv ==
  ASSUME IInv, NEW h \in Leases, LeaseSent(h) \/ CompleteStart(h) \/ CompleteAbort(h)
  PROVE  IInv'
BY SameRows, Zenon DEF IInv, LeaseSent, CompleteStart, CompleteAbort, disk, TypeOK, ReapInv, PurgeInv

\* reap()'s SELECT only remembers what it read.
LEMMA ReapSelectInv == ASSUME IInv, ReapSelect PROVE IInv'
<1>1. \A i \in Id : /\ jobs[i].attempts \in 0..MaxAttempts
                    /\ jobs[i].state = "running" => i < next
  BY MaxIdAssumption DEF IInv, TypeOK, Row, RowInv, Id
<1>2. reaping' \subseteq [id: Id, attempts: 0..MaxAttempts] /\ ReapInv'
  BY <1>1 DEF ReapSelect, Expired, ReapInv, disk
<1>. QED
  BY <1>2, SameRows, Zenon DEF IInv, ReapSelect, disk, TypeOK, PurgeInv

\* So does the janitor's.
LEMMA JanitorSelectInv == ASSUME IInv, JanitorSelect PROVE IInv'
BY SameRows, Zenon DEF IInv, JanitorSelect, Purgeable, disk, TypeOK, ReapInv, PurgeInv

\* A crash, a reopening of the database and a failed delivery touch no row.
LEMMA RestartInv ==
  ASSUME IInv, Crash \/ Open \/ Serve \/ \E i \in Id : DeliverFails(i) PROVE IInv'
<1>1. CASE Crash
  BY <1>1, SameRows, Zenon DEF IInv, Crash, Forget, disk, TypeOK, ReapInv, PurgeInv
<1>2. CASE Open
  BY <1>2, SameRows, Zenon DEF IInv, Open, Undelivered, disk, TypeOK, ReapInv, PurgeInv
<1>3. CASE Serve
  BY <1>3, SameRows, Zenon DEF IInv, Serve, disk, memory, TypeOK, ReapInv, PurgeInv
<1>4. CASE \E i \in Id : DeliverFails(i)
  BY <1>4, SameRows, Zenon DEF IInv, DeliverFails, disk, TypeOK, ReapInv, PurgeInv
<1>. QED BY <1>1, <1>2, <1>3, <1>4, Zenon

-----------------------------------------------------------------------------
(* Steps that write one row *)

\* The part of the invariant that speaks of row i alone.
Sound(i, row) ==
  /\ i >= next => row.state = "none"
  /\ row.state \notin Terminal => row.result = NoRun /\ ~row.purged /\ ~row.old
  /\ row.state = "queued" => row.attempts < MaxAttempts
  /\ row.state = "running" => row.attempts >= 1 /\ row.worker \in Workers
  /\ row.state = "done" => row.result \in Run /\ row.result.ok
  /\ row.result = WorkerLost => row.attempts = MaxAttempts
  /\ row.result \in Run => row.result.job < next /\ row.result.content = row.content
  /\ row.result \in Run /\ row.result.job = i =>
       row.result.attempt = row.attempts /\ row.result.worker = row.worker

\* The invariant makes every row sound.
LEMMA AllSound == IInv => \A i \in Id : Sound(i, jobs[i])
BY Zenon DEF IInv, RowInv, ResultFromLastLease, ResultForOwnContent, Sound

\* A step that replaces one row by a sound one keeps what the invariant says of rows.
LEMMA RowWritten ==
  ASSUME IInv, TypeOK', NEW i \in Id, NEW n \in Row, jobs' = [jobs EXCEPT ![i] = n],
         next' = next, Sound(i, n),
         ReapInv', PurgeInv', FolderInv', ResultKept'
  PROVE  IInv'
<1>1. ASSUME NEW k \in Id PROVE jobs'[k] = IF k = i THEN n ELSE jobs[k]
  BY Zenon DEF IInv, TypeOK
<1>2. ASSUME NEW k \in Id PROVE Sound(k, jobs'[k])
  BY <1>1, AllSound, Zenon
<1>3. RowInv' /\ ResultFromLastLease' /\ ResultForOwnContent'
  BY <1>2, Zenon DEF Sound, RowInv, ResultFromLastLease, ResultForOwnContent
<1>. QED BY <1>3, Zenon DEF IInv

\* lease() hands out a queued job.
LEMMA LeaseInv ==
  ASSUME IInv, NEW w \in Workers, NEW i \in Id, Lease(w, i) PROVE IInv'
<1> DEFINE n == LeasedRow(jobs[i], w)
<1>1. jobs[i] \in Row /\ jobs[i].state = "queued" /\ Sound(i, jobs[i])
  BY AllSound, Zenon DEF Lease, IInv, TypeOK
<1>2. jobs[i].attempts < MaxAttempts /\ jobs[i].attempts \in 0..MaxAttempts
  BY <1>1, Zenon DEF Sound, Row
<1>3. n \in Row /\ n.state = "running" /\ n.attempts = jobs[i].attempts + 1 /\ n.worker = w
      /\ n.attempts \in 1..MaxAttempts /\ n.result = jobs[i].result /\ n.purged = jobs[i].purged
      /\ n.old = jobs[i].old
  BY <1>1, <1>2, LeasedRowFields, Zenon
<1>4. TypeOK'
  BY <1>2, <1>3, MaxAttemptsAssumption DEF IInv, TypeOK, Lease, Leases
<1>5. Sound(i, n)
  BY <1>1, <1>3, NullAssumption DEF Sound, Terminal
<1>6. ReapInv' /\ PurgeInv'
  BY <1>1, Zenon DEF Lease, IInv, TypeOK, ReapInv, PurgeInv, Terminal
<1>7. FolderInv' /\ ResultKept'
  BY <1>1, <1>3, Zenon DEF Lease, IInv, TypeOK, FolderInv, ResultKept, Terminal
<1>. QED BY <1>3, <1>4, <1>5, <1>6, <1>7, RowWritten, Zenon DEF Lease

\* A job that waits or runs gets its final result.
LEMMA SetFinishedInv ==
  ASSUME IInv, TypeOK', NEW i \in Id, NEW r \in Results, SetFinished(i, r),
         jobs[i].state \in {"queued", "running"},
         r = WorkerLost => jobs[i].attempts = MaxAttempts,
         r \in Run => /\ r.job = i /\ r.content = jobs[i].content
                     /\ r.attempt = jobs[i].attempts /\ r.worker = jobs[i].worker,
         r # NoRun, next' = next, dirs' = dirs, UNCHANGED unmarked, purging' = purging,
         reaping' \subseteq reaping,
         out' = out \/ (out' = [out EXCEPT ![i] = r]),
         r \in Run /\ r.ok /\ jobs[i].content \in Converts => out' = [out EXCEPT ![i] = r]
  PROVE  IInv'
<1> DEFINE n == FinishedRow(jobs[i], r)
<1>1. jobs[i] \in Row /\ Sound(i, jobs[i]) /\ i < next /\ i \in dirs
  BY AllSound, MaxIdAssumption DEF IInv, TypeOK, Sound, ResultKept, Id
<1>2. /\ n \in Row /\ n.state = FinishedState(r) /\ n.result = r /\ ~n.old
      /\ n.attempts = jobs[i].attempts /\ n.worker = jobs[i].worker
      /\ n.content = jobs[i].content /\ n.hot = jobs[i].hot /\ n.purged = jobs[i].purged
      /\ n.state \in Terminal /\ (n.state = "done" => r \in Run /\ r.ok)
  BY <1>1, FinishedRowFields, Zenon
<1>3. jobs' = [jobs EXCEPT ![i] = n] /\ jobs'[i] = n
      /\ \A k \in Id : k # i => jobs'[k] = jobs[k]
  BY Zenon DEF SetFinished, IInv, TypeOK
<1>4. Sound(i, n)
  BY <1>1, <1>2, Zenon DEF Sound, Terminal
<1>5. ReapInv'
  BY <1>2, <1>3, Zenon DEF IInv, TypeOK, ReapInv, Terminal
<1>6. PurgeInv'
  BY <1>2, <1>3, Zenon DEF IInv, TypeOK, PurgeInv, Terminal
<1>8. FolderInv'
  BY <1>1, Zenon DEF IInv, TypeOK, FolderInv
<1>9. ResultKept'
  BY <1>1, <1>2, <1>3 DEF IInv, TypeOK, ResultKept, Terminal
<1>. QED BY <1>2, <1>3, <1>4, <1>5, <1>6, <1>8, <1>9, RowWritten, Zenon

\* finish() writes a well-formed row.
LEMMA FinishType ==
  ASSUME TypeOK, NEW i \in Id, NEW r \in Results, SetFinished(i, r)
  PROVE  jobs' \in [Id -> Row] /\ delivering' \subseteq Id
BY FinishedRowFields DEF TypeOK, SetFinished

\* A lease that cannot be encoded finishes its job as failed.
LEMMA LeaseUnreadableInv ==
  ASSUME IInv, NEW h \in leasing, LeaseUnreadable(h) PROVE IInv'
<1>1. h.id \in Id /\ Unreadable \in Results /\ Unreadable \notin Run /\ Unreadable # NoRun
      /\ Unreadable # WorkerLost /\ jobs[h.id].state \in {"none", "queued", "running"} \cup Terminal
  BY NullAssumption, Zenon DEF IInv, TypeOK, Leases, Results, Row
<1>2. CASE jobs[h.id].state \in Terminal \cup {"none"}
  <2>1. jobs' = jobs /\ delivering' = delivering
    BY <1>2, Zenon DEF LeaseUnreadable, FinishLost
  <2>2. TypeOK' /\ ReapInv' /\ PurgeInv'
    BY <2>1, Zenon DEF LeaseUnreadable, IInv, TypeOK, ReapInv, PurgeInv
  <2>. QED BY <2>1, <2>2, SameRows, Zenon DEF LeaseUnreadable
<1>3. CASE jobs[h.id].state \notin Terminal \cup {"none"}
  <2>1. SetFinished(h.id, Unreadable)
    BY <1>3, Zenon DEF LeaseUnreadable, FinishLost
  <2>2. TypeOK'
    BY <1>1, <2>1, FinishType, Zenon DEF LeaseUnreadable, IInv, TypeOK
  <2>. QED BY <1>1, <1>3, <2>1, <2>2, SetFinishedInv, Zenon DEF LeaseUnreadable
<1>. QED BY <1>2, <1>3, Zenon

\* An upload that still holds its lease renames its output in and finishes the job.
LEMMA CompleteFinishInv ==
  ASSUME IInv, NEW h \in staging, NEW ok \in BOOLEAN, CompleteFinish(h, ok) PROVE IInv'
<1> DEFINE r == RunOf(h, ok)
<1>1. h \in Leases /\ h.id \in Id
  BY Zenon DEF IInv, TypeOK, Leases
<1>2. /\ r \in Run /\ r \in Results /\ r.job = h.id /\ r.attempt = h.attempt
      /\ r.worker = h.worker /\ r.content = jobs[h.id].content /\ r.ok = ok
  BY <1>1, RunOfFields, Zenon DEF IInv
<1>3. CASE ~Holds(h)
  <2>1. jobs' = jobs /\ out' = out /\ dirs' = dirs /\ next' = next
    BY <1>3, Zenon DEF CompleteFinish
  <2>2. TypeOK' /\ ReapInv' /\ PurgeInv'
    BY <1>3, Zenon DEF CompleteFinish, IInv, TypeOK, ReapInv, PurgeInv
  <2>. QED BY <2>1, <2>2, SameRows, Zenon
<1>4. CASE Holds(h)
  <2>1. SetFinished(h.id, r) /\ out' = Staged(h, ok)
    BY <1>4, Zenon DEF CompleteFinish
  <2>2. out' = out \/ out' = [out EXCEPT ![h.id] = r]
    BY <2>1, Zenon DEF Staged
  <2>3. r.ok /\ jobs[h.id].content \in Converts => out' = [out EXCEPT ![h.id] = r]
    BY <1>2, <2>1, Zenon DEF Staged
  <2>4. TypeOK'
    BY <1>1, <1>2, <2>1, <2>2, FinishType DEF CompleteFinish, IInv, TypeOK
  <2>5. r # NoRun /\ r # WorkerLost
    BY <1>2, NullAssumption, Zenon
  <2>6. /\ next' = next /\ dirs' = dirs /\ unmarked' = unmarked /\ purging' = purging
        /\ reaping' = reaping
    BY Zenon DEF CompleteFinish
  <2>. HIDE DEF r
  <2>. QED BY <1>1, <1>2, <1>4, <2>1, <2>2, <2>3, <2>4, <2>5, <2>6, SetFinishedInv, Zenon DEF Holds
<1>. QED BY <1>3, <1>4, Zenon

\* out.pdf is in place but the row is not written: the job still runs.
LEMMA StagedInv ==
  ASSUME IInv, NEW h \in staging, NEW ok \in BOOLEAN,
         CompleteNotCommitted(h, ok) \/ CrashInFinish(h, ok)
  PROVE  IInv'
<1>1. h \in Leases /\ h.id \in Id /\ jobs[h.id].state = "running" /\ h.id \in dirs
  BY Zenon DEF IInv, TypeOK, Leases, CompleteNotCommitted, CrashInFinish, Holds, ResultKept
<1>2. RunOf(h, ok) \in Run
  BY <1>1, RunOfFields, Zenon DEF IInv
<1>3. /\ jobs' = jobs /\ next' = next /\ dirs' = dirs
      /\ out' = out \/ out' = [out EXCEPT ![h.id] = RunOf(h, ok)]
      /\ leasing' \subseteq leasing /\ staging' \subseteq staging /\ reaping' \subseteq reaping
      /\ purging' \subseteq purging /\ unmarked' \subseteq unmarked
      /\ delivering' \subseteq delivering /\ up' \in {up, "down"}
  BY Zenon DEF CompleteNotCommitted, CrashInFinish, Staged, Forget
<1>4. TypeOK'
  BY <1>1, <1>2, <1>3 DEF IInv, TypeOK
<1>5. RowInv' /\ ResultFromLastLease' /\ ResultForOwnContent'
  BY <1>3, Zenon DEF IInv, RowInv, ResultFromLastLease, ResultForOwnContent
<1>6. ReapInv' /\ PurgeInv'
  BY <1>3, Zenon DEF IInv, ReapInv, PurgeInv
<1>7. FolderInv' /\ ResultKept'
  BY <1>1, <1>3, Zenon DEF IInv, TypeOK, FolderInv, ResultKept, Terminal
<1>. QED BY <1>4, <1>5, <1>6, <1>7, Zenon DEF IInv

\* reap() requeues or gives up one row it selected, if the row is still as selected.
LEMMA ReapOneInv == ASSUME IInv, NEW e \in reaping, ReapOne(e) PROVE IInv'
<1>1. /\ e.id \in Id /\ jobs[e.id] \in Row /\ e.attempts \in 0..MaxAttempts
      /\ jobs[e.id].state \in {"none", "queued", "running"} \cup Terminal
      /\ jobs[e.id].state # "queued"
      /\ jobs[e.id].state = "running" => jobs[e.id].attempts = e.attempts
      /\ Sound(e.id, jobs[e.id])
  BY AllSound, Zenon DEF IInv, TypeOK, Row, ReapInv
<1>2. WorkerLost \in Results /\ WorkerLost \notin Run /\ WorkerLost # NoRun
  BY NullAssumption, Zenon DEF Results
<1>3. CASE jobs' = jobs /\ delivering' = delivering
  <2>1. TypeOK' /\ ReapInv' /\ PurgeInv'
    BY <1>3, Zenon DEF ReapOne, IInv, TypeOK, ReapInv, PurgeInv
  <2>. QED BY <1>3, <2>1, SameRows, Zenon DEF ReapOne
<1>4. CASE jobs[e.id].state = "running" /\ e.attempts >= MaxAttempts
  <2>1. SetFinished(e.id, WorkerLost) /\ e.attempts = MaxAttempts
    BY <1>1, <1>4, MaxAttemptsAssumption DEF ReapOne, FinishLost, Terminal
  <2>2. TypeOK'
    BY <1>1, <1>2, <2>1, FinishType, Zenon DEF ReapOne, IInv, TypeOK
  <2>. QED BY <1>1, <1>2, <1>4, <2>1, <2>2, SetFinishedInv, Zenon DEF ReapOne
<1>5. CASE jobs[e.id].state = "running" /\ e.attempts < MaxAttempts
  <2> DEFINE n == RequeuedRow(jobs[e.id])
  <2>1. /\ n \in Row /\ n.state = "queued" /\ n.result = jobs[e.id].result
        /\ n.attempts = jobs[e.id].attempts /\ n.purged = jobs[e.id].purged
        /\ n.old = jobs[e.id].old
    BY <1>1, RequeuedRowFields, Zenon
  <2>2. jobs' = [jobs EXCEPT ![e.id] = n] /\ delivering' = delivering
    BY <1>1, <1>5, MaxAttemptsAssumption DEF ReapOne, Requeue
  <2>3. jobs'[e.id] = n /\ \A k \in Id : k # e.id => jobs'[k] = jobs[k]
    BY <1>1, <2>2, Zenon DEF IInv, TypeOK
  <2>4. TypeOK'
    BY <1>1, <2>1, <2>2, Zenon DEF ReapOne, IInv, TypeOK
  <2>5. Sound(e.id, n)
    BY <1>1, <1>5, <2>1, NullAssumption, Zenon DEF Sound, Terminal
  <2>6. ASSUME NEW f \in reaping' PROVE f.id # e.id
    BY <1>1, <1>5 DEF ReapOne, IInv, TypeOK, ReapInv
  <2>7. ReapInv'
    BY <2>3, <2>6, Zenon DEF ReapOne, IInv, TypeOK, ReapInv
  <2>8. PurgeInv'
    BY <1>5, <2>2, <2>3, Zenon DEF ReapOne, IInv, TypeOK, PurgeInv, Terminal
  <2>9. FolderInv' /\ ResultKept'
    BY <1>5, <2>1, <2>3, Zenon DEF ReapOne, IInv, TypeOK, FolderInv, ResultKept, Terminal
  <2>10. next' = next /\ e.id \in Id /\ n \in Row
    BY <1>1, <2>1, Zenon DEF ReapOne
  <2>. HIDE DEF n
  <2>. QED BY <2>2, <2>4, <2>5, <2>7, <2>8, <2>9, <2>10, RowWritten, Zenon
<1>. QED BY <1>1, <1>3, <1>4, <1>5, MaxAttemptsAssumption, Zenon DEF ReapOne, FinishLost, Requeue, Terminal

-----------------------------------------------------------------------------
(* Steps that write a flag *)

\* n differs from row at most in lease, old, delivered and purged, and sets, never clears.
Flagged(row, n) ==
  /\ n \in Row /\ n.state = row.state /\ n.result = row.result /\ n.attempts = row.attempts
  /\ n.worker = row.worker /\ n.content = row.content /\ n.hot = row.hot
  /\ (row.old => n.old) /\ (row.delivered => n.delivered) /\ (row.purged => n.purged)
  /\ row.state \notin Terminal => n.old = row.old /\ n.purged = row.purged

\* A row left alone,
LEMMA SameFlags == ASSUME NEW row \in Row PROVE Flagged(row, row)
BY Zenon DEF Flagged

\* a heartbeat or a lapse of the lease,
LEMMA LeaseFlag ==
  ASSUME NEW row \in Row, NEW l \in {"live", "expired"} PROVE Flagged(row, [row EXCEPT !.lease = l])
BY Zenon DEF Flagged, Row

\* a delivery,
LEMMA DeliveredFlag == ASSUME NEW row \in Row PROVE Flagged(row, [row EXCEPT !.delivered = TRUE])
BY Zenon DEF Flagged, Row

\* the passing of the TTL,
LEMMA OldFlag ==
  ASSUME NEW row \in Row, row.state \in Terminal PROVE Flagged(row, [row EXCEPT !.old = TRUE])
BY Zenon DEF Flagged, Row

\* the janitor's mark
LEMMA PurgedFlag ==
  ASSUME NEW row \in Row, row.state \in Terminal
  PROVE  Flagged(row, [row EXCEPT !.purged = TRUE])
BY Zenon DEF Flagged, Row

\* and an acknowledgement by the API only write flags.
LEMMA ReleasedFlag ==
  ASSUME NEW row \in Row, row.state \in Terminal
  PROVE  Flagged(row, ReleasedRow(row)) /\ ReleasedRow(row).purged
BY Zenon DEF Flagged, Row, ReleasedRow

\* The steps that only set flags of one row.
LEMMA FlagSteps ==
  ASSUME IInv, NEW i \in Id, LeaseExpires(i) \/ Age(i) \/ Release(i) \/ JanitorMark(i) \/ DeliverOk(i)
  PROVE  /\ next' = next /\ jobs' \in [Id -> Row]
         /\ \A k \in Id : Flagged(jobs[k], jobs'[k])
<1>1. next' = next /\ jobs[i] \in Row /\ jobs \in [Id -> Row] /\ \A k \in Id : Flagged(jobs[k], jobs[k])
  BY SameFlags, Zenon DEF LeaseExpires, Age, Release, JanitorMark, DeliverOk, IInv, TypeOK
<1>2. ASSUME NEW n, jobs' = [jobs EXCEPT ![i] = n], Flagged(jobs[i], n)
      PROVE  jobs' \in [Id -> Row] /\ \A k \in Id : Flagged(jobs[k], jobs'[k])
  <2>1. n \in Row
    BY <1>2, Zenon DEF Flagged
  <2>. QED BY <1>1, <1>2, <2>1, Zenon
<1>3. CASE LeaseExpires(i)
  <2>1. jobs' = [jobs EXCEPT ![i] = [jobs[i] EXCEPT !.lease = "expired"]]
    BY <1>1, <1>3, Zenon DEF LeaseExpires
  <2>2. Flagged(jobs[i], [jobs[i] EXCEPT !.lease = "expired"])
    BY <1>1, LeaseFlag, Zenon
  <2>. QED BY <1>1, <1>2, <2>1, <2>2, Zenon
<1>4. CASE Age(i)
  <2>1. jobs' = [jobs EXCEPT ![i] = [jobs[i] EXCEPT !.old = TRUE]]
    BY <1>1, <1>4, Zenon DEF Age
  <2>2. Flagged(jobs[i], [jobs[i] EXCEPT !.old = TRUE])
    BY <1>1, <1>4, OldFlag, Zenon DEF Age
  <2>. QED BY <1>1, <1>2, <2>1, <2>2, Zenon
<1>5. CASE Release(i) /\ jobs[i].dedupe
  BY <1>1, <1>2, <1>5, DeliveredFlag, Zenon DEF Release
<1>6. CASE Release(i) /\ ~jobs[i].dedupe
  BY <1>1, <1>2, <1>6, ReleasedFlag, Zenon DEF Release
<1>7. CASE JanitorMark(i)
  <2>1. jobs[i].state \in Terminal
    BY <1>7, Zenon DEF JanitorMark, IInv, PurgeInv
  <2>2. jobs' = [jobs EXCEPT ![i] = [jobs[i] EXCEPT !.purged = TRUE]]
    BY <1>1, <1>7, Zenon DEF JanitorMark
  <2>3. Flagged(jobs[i], [jobs[i] EXCEPT !.purged = TRUE])
    BY <1>1, <2>1, PurgedFlag, Zenon
  <2>. QED BY <1>1, <1>2, <2>2, <2>3, Zenon
<1>8. CASE DeliverOk(i)
  <2>1. jobs' = [jobs EXCEPT ![i] = [jobs[i] EXCEPT !.delivered = TRUE]]
    BY <1>1, <1>8, Zenon DEF DeliverOk
  <2>2. Flagged(jobs[i], [jobs[i] EXCEPT !.delivered = TRUE])
    BY <1>1, DeliveredFlag, Zenon
  <2>. QED BY <1>1, <1>2, <2>1, <2>2, Zenon
<1>. QED BY <1>3, <1>4, <1>5, <1>6, <1>7, <1>8, Zenon

\* A step that writes flags, and removes folders only of purged or selected terminal
\* rows, keeps the invariant.
LEMMA FlagsWritten ==
  ASSUME IInv, TypeOK', \A k \in Id : Flagged(jobs[k], jobs'[k]), next' = next, dirs' \subseteq dirs,
         \A k \in dirs \ dirs' : jobs[k].state \in Terminal /\
                                 (jobs'[k].purged \/ k \in purging),
         \A k \in Id : out'[k] = IF k \in dirs \ dirs' THEN NoRun ELSE out[k],
         reaping' = reaping, purging' \cup unmarked' \subseteq purging \cup unmarked,
         delivering' \subseteq delivering
  PROVE  IInv'
<1>1. RowInv' /\ ResultFromLastLease' /\ ResultForOwnContent'
  BY DEF IInv, RowInv, ResultFromLastLease, ResultForOwnContent, Flagged
<1>2. ReapInv'
  BY DEF IInv, TypeOK, ReapInv, Flagged
<1>3. PurgeInv'
  BY Zenon DEF IInv, TypeOK, PurgeInv, Flagged
<1>4. FolderInv'
  BY Zenon DEF IInv, FolderInv
<1>5. ResultKept'
  <2>1. ASSUME NEW k \in Id
        PROVE  /\ jobs'[k].state = jobs[k].state /\ jobs'[k].result = jobs[k].result
               /\ jobs'[k].content = jobs[k].content /\ jobs'[k].hot = jobs[k].hot
               /\ (jobs[k].old => jobs'[k].old) /\ (jobs[k].delivered => jobs'[k].delivered)
               /\ (jobs[k].purged => jobs'[k].purged)
    BY Zenon DEF Flagged
  <2>2. ASSUME NEW k \in Id, jobs'[k].state \in {"queued", "running"} PROVE k \in dirs'
    BY <2>1, <2>2, Zenon DEF IInv, ResultKept, Terminal
  <2>3. ASSUME NEW k \in Id, jobs'[k].state \in Terminal, k \notin dirs'
        PROVE  jobs'[k].purged \/ (jobs'[k].old /\ (jobs'[k].hot => jobs'[k].delivered))
    <3>1. CASE k \in dirs
      BY <2>1, <2>3, <3>1, Zenon DEF IInv, PurgeInv
    <3>2. CASE k \notin dirs
      BY <2>1, <2>3, <3>2, Zenon DEF IInv, ResultKept
    <3>. QED BY <3>1, <3>2, Zenon
  <2>4. ASSUME NEW k \in Id, jobs'[k].state = "done", jobs'[k].content \in Converts, k \in dirs'
        PROVE  out'[k] = jobs'[k].result
    BY <2>1, <2>4, Zenon DEF IInv, ResultKept
  <2>. QED BY <2>2, <2>3, <2>4, Zenon DEF ResultKept
<1>. QED BY <1>1, <1>2, <1>3, <1>4, <1>5, Zenon DEF IInv

\* heartbeat() writes flags only.
LEMMA HeartbeatFlags ==
  ASSUME IInv, NEW w, NEW R, Heartbeat(w, R) PROVE \A k \in Id : Flagged(jobs[k], jobs'[k])
BY LeaseFlag, SameFlags, Zenon DEF Heartbeat, IInv, TypeOK

\* heartbeat() keeps the invariant.
LEMMA HeartbeatInv == ASSUME IInv, NEW w, NEW R, Heartbeat(w, R) PROVE IInv'
<1>1. \A k \in Id : Flagged(jobs[k], jobs'[k])
  BY HeartbeatFlags, Zenon
<1>2. TypeOK'
  BY <1>1, Zenon DEF Heartbeat, IInv, TypeOK, memory, Flagged
<1>. QED BY <1>1, <1>2, FlagsWritten, Zenon DEF Heartbeat, memory, IInv, TypeOK

\* The passing of time (a lease lapses, a row outlives its TTL) keeps the invariant.
LEMMA TimeInv == ASSUME IInv, NEW i \in Id, LeaseExpires(i) \/ Age(i) PROVE IInv'
<1>1. jobs' \in [Id -> Row] /\ \A k \in Id : Flagged(jobs[k], jobs'[k])
  BY FlagSteps, Zenon
<1>2. UNCHANGED <<next, dirs, out, up, memory>>
  BY Zenon DEF LeaseExpires, Age
<1>3. TypeOK'
  BY <1>1, <1>2, Zenon DEF IInv, TypeOK, memory
<1>. QED BY <1>1, <1>2, <1>3, FlagsWritten, Zenon DEF memory, IInv, TypeOK

\* release() purges a terminal row and removes its folder.
LEMMA ReleaseInv == ASSUME IInv, NEW i \in Id, Release(i) PROVE IInv'
<1>1. jobs' \in [Id -> Row] /\ \A k \in Id : Flagged(jobs[k], jobs'[k])
  BY FlagSteps, Zenon
<1>2. TypeOK'
  BY <1>1, Zenon DEF Release, IInv, TypeOK, memory
<1>3. ASSUME i \notin dirs', i \in dirs PROVE jobs[i].state \in Terminal /\ jobs'[i].purged
  <2>1. jobs[i].state \in Terminal /\ jobs' = [jobs EXCEPT ![i] = ReleasedRow(jobs[i])]
    BY <1>3, Zenon DEF Release
  <2>. QED BY <2>1, ReleasedFlag, Zenon DEF IInv, TypeOK
<1>4. \A k \in Id : out'[k] = IF k \in dirs \ dirs' THEN NoRun ELSE out[k]
  BY Zenon DEF Release, IInv, TypeOK, FolderInv
<1>. QED BY <1>1, <1>2, <1>3, <1>4, FlagsWritten, Zenon DEF Release, memory, IInv, TypeOK

\* The janitor removes a folder before it marks the row,
LEMMA JanitorRemoveInv == ASSUME IInv, NEW i \in Id, JanitorRemove(i) PROVE IInv'
<1>1. ASSUME NEW k \in Id PROVE Flagged(jobs[k], jobs'[k])
  BY SameFlags, Zenon DEF JanitorRemove, IInv, TypeOK
<1>2. TypeOK'
  BY Zenon DEF JanitorRemove, IInv, TypeOK
<1>3. \A k \in Id : out'[k] = IF k \in dirs \ dirs' THEN NoRun ELSE out[k]
  BY Zenon DEF JanitorRemove, IInv, TypeOK, FolderInv
<1>. QED BY <1>1, <1>2, <1>3, FlagsWritten, Zenon DEF JanitorRemove, IInv, TypeOK, PurgeInv

\* marks the row afterwards,
LEMMA JanitorMarkInv == ASSUME IInv, NEW i \in Id, JanitorMark(i) PROVE IInv'
<1>1. jobs' \in [Id -> Row] /\ \A k \in Id : Flagged(jobs[k], jobs'[k])
  BY FlagSteps, Zenon
<1>2. TypeOK'
  BY <1>1, Zenon DEF JanitorMark, IInv, TypeOK
<1>. QED BY <1>1, <1>2, FlagsWritten, Zenon DEF JanitorMark, IInv, TypeOK

\* a delivery marks its row,
LEMMA DeliverOkInv == ASSUME IInv, NEW i \in Id, DeliverOk(i) PROVE IInv'
<1>1. jobs' \in [Id -> Row] /\ \A k \in Id : Flagged(jobs[k], jobs'[k])
  BY FlagSteps, Zenon
<1>2. TypeOK'
  BY <1>1, Zenon DEF DeliverOk, IInv, TypeOK
<1>. QED BY <1>1, <1>2, FlagsWritten, Zenon DEF DeliverOk, IInv, TypeOK

\* and the janitor deletes rows that are terminal, purged and old.
LEMMA JanitorDeleteInv == ASSUME IInv, NEW D \in SUBSET Id, JanitorDelete(D) PROVE IInv'
<1>1. ASSUME NEW k \in Id PROVE jobs'[k] = IF k \in D THEN NoRow ELSE jobs[k]
  BY Zenon DEF JanitorDelete
<1>2. TypeOK'
  BY <1>1, NoRowFields, Zenon DEF JanitorDelete, IInv, TypeOK, memory
<1>3. \A k \in Id : k \in D => jobs[k].state \in Terminal
  BY Zenon DEF JanitorDelete, IInv, RowInv
<1>4. RowInv' /\ ResultFromLastLease' /\ ResultForOwnContent'
  BY <1>1, NoRowFields, NullAssumption
  DEF JanitorDelete, IInv, RowInv, ResultFromLastLease, ResultForOwnContent, Terminal
<1>5. ReapInv' /\ PurgeInv'
  BY <1>1, NoRowFields, Zenon DEF JanitorDelete, memory, IInv, TypeOK, ReapInv, PurgeInv
<1>6. FolderInv' /\ ResultKept'
  BY <1>1, NoRowFields, Zenon DEF JanitorDelete, IInv, FolderInv, ResultKept, Terminal
<1>. QED BY <1>2, <1>4, <1>5, <1>6, Zenon DEF IInv

-----------------------------------------------------------------------------
(* Submitting *)

\* submit() inserts a row under a new id, linked to an earlier output on a dedupe hit.
LEMMA SubmitInv ==
  ASSUME IInv, NEW c \in Contents, NEW hot \in BOOLEAN, NEW dedupe \in BOOLEAN, Submit(c, hot, dedupe)
  PROVE  IInv'
<1> DEFINE new == NewRow(c, hot, dedupe)
<1> USE MaxIdAssumption
<1>2. /\ new \in Row /\ new.state = "queued" /\ new.result = NoRun /\ new.attempts = 0
      /\ new.content = c /\ ~new.purged /\ ~new.old
  BY NewRowFields
<1>3. /\ next \in Id /\ next \notin dirs /\ dirs' = dirs \cup {next} /\ next' = next + 1
      /\ next \in Nat /\ jobs[next].state = "none"
      /\ leasing' = leasing /\ staging' = staging /\ reaping' = reaping /\ purging' = purging
      /\ unmarked' = unmarked /\ up' = up
  <2>1. next \in Id /\ next \in Nat
    BY DEF Submit, Id
  <2>2. jobs[next].state = "none"
    BY <2>1 DEF IInv, RowInv
  <2>. QED BY <2>1, <2>2, Zenon DEF Submit
<1>4. ASSUME NEW n \in Row, jobs' = [jobs EXCEPT ![next] = n], out' \in [Id -> Run \cup {NoRun}],
             delivering' \subseteq delivering \cup {next},
             \A k \in Id : k # next => out'[k] = out[k],
             n.result \in Run => /\ n.result.job < next /\ n.result.content = n.content,
             n.result # WorkerLost,
             \/ n.state = "queued" /\ n.attempts < MaxAttempts /\ n.result = NoRun
             \/ /\ n.state = "done" /\ n.result \in Run /\ n.result.ok
                /\ n.content \in Converts => out'[next] = n.result,
             ~n.purged, ~n.old
      PROVE  IInv'
  <2>1. jobs'[next] = n /\ \A k \in Id : k # next => jobs'[k] = jobs[k]
    BY <1>3, <1>4, Zenon DEF IInv, TypeOK
  <2>2. TypeOK'
    <3>1. next' \in 1..(MaxId + 1)
      BY <1>3 DEF Id
    <3>2. jobs' \in [Id -> Row] /\ dirs' \subseteq Id /\ delivering' \subseteq Id
      BY <1>3, <1>4, Zenon DEF IInv, TypeOK
    <3>. QED BY <1>3, <1>4, <3>1, <3>2, Zenon DEF IInv, TypeOK
  <2>3. RowInv'
    <3>1. ASSUME NEW k \in Id, k # next
          PROVE  (jobs'[k].result \in Run => jobs'[k].result.job < next')
                 /\ (k >= next' => k >= next)
      BY <1>3, <2>1, <3>1 DEF IInv, RowInv, Id, Run
    <3>2. next < next' /\ (n.result \in Run => n.result.job < next')
      BY <1>3, <1>4 DEF Id, Run
    <3>3. NoRun \notin Run /\ NoRun # WorkerLost
      BY NullAssumption, Zenon
    <3>. SUFFICES ASSUME NEW k \in Id
                  PROVE  LET row == jobs'[k] IN
                    /\ k >= next' => row.state = "none"
                    /\ row.state \notin Terminal => row.result = NoRun /\ ~row.purged /\ ~row.old
                    /\ row.state = "queued" => row.attempts < MaxAttempts
                    /\ row.state = "running" => row.attempts >= 1 /\ row.worker \in Workers
                    /\ row.state = "done" => row.result \in Run /\ row.result.ok
                    /\ row.result = WorkerLost => row.attempts = MaxAttempts
                    /\ row.result \in Run => row.result.job < next'
      BY Zenon DEF RowInv
    <3>4. CASE k = next
      BY <1>3, <1>4, <2>1, <3>2, <3>3, <3>4 DEF Terminal
    <3>5. CASE k # next
      BY <2>1, <3>1, <3>5, Zenon DEF IInv, RowInv
    <3>. QED BY <3>4, <3>5, Zenon
  <2>4. ResultFromLastLease' /\ ResultForOwnContent'
    <3>1. \A k \in Id : k # next => /\ jobs'[k].result = jobs[k].result
                                   /\ jobs'[k].attempts = jobs[k].attempts
                                   /\ jobs'[k].worker = jobs[k].worker
                                   /\ jobs'[k].content = jobs[k].content
      BY <2>1, Zenon
    <3>2. jobs'[next] = n /\ (n.result \in Run => n.result.job # next /\ n.result.content = n.content)
      <4>1. n.result \in Run => n.result.job \in Nat
        BY DEF Run, Id
      <4>2. next \in Nat
        BY <1>3, Zenon DEF Id
      <4>3. n.result \in Run => n.result.job < next /\ n.result.content = n.content
        BY <1>4, Zenon
      <4>. QED BY <2>1, <4>1, <4>2, <4>3
    <3>3. ResultFromLastLease'
      BY <3>1, <3>2, Zenon DEF IInv, ResultFromLastLease
    <3>4. ResultForOwnContent'
      BY <3>1, <3>2, Zenon DEF IInv, ResultForOwnContent
    <3>. QED BY <3>3, <3>4, Zenon
  <2>5. ReapInv' /\ PurgeInv'
    <3>1. \A e \in reaping : e.id \in Id /\ e.id # next /\ e.id < next'
      BY <1>3 DEF IInv, TypeOK, ReapInv, Id
    <3>2. \A k \in purging \cup unmarked : k \in Id /\ k # next
      BY <1>3, Zenon DEF IInv, TypeOK, PurgeInv, Terminal
    <3>3. ReapInv'
      BY <1>3, <2>1, <3>1, Zenon DEF IInv, ReapInv
    <3>4. PurgeInv'
      BY <1>3, <2>1, <3>2, Zenon DEF IInv, PurgeInv
    <3>. QED BY <3>3, <3>4, Zenon
  <2>6. FolderInv' /\ ResultKept'
    BY <1>3, <1>4, <2>1 DEF IInv, FolderInv, ResultKept, Terminal
  <2>. QED BY <2>2, <2>3, <2>4, <2>5, <2>6, Zenon DEF IInv
<1>5. CASE jobs' = [jobs EXCEPT ![next] = new] /\ out' = out /\ delivering' = delivering
  <2>. HIDE DEF new
  <2>1. new.attempts < MaxAttempts /\ new.result # WorkerLost /\ new.result \notin Run
    BY <1>2, MaxAttemptsAssumption, NullAssumption
  <2>. QED BY <1>2, <1>4, <1>5, <2>1, Zenon DEF IInv, TypeOK
<1>6. ASSUME NEW p \in DedupeHits(c), Linkable(c, p),
             jobs' = [jobs EXCEPT ![next] = CachedRow(new, p)],
             out' = [out EXCEPT ![next] = IF c \in Converts THEN out[p] ELSE NoRun],
             delivering' \subseteq delivering \cup {next}
      PROVE  IInv'
  <2>. HIDE DEF new
  <2> DEFINE n == CachedRow(new, p)
  <2>1. p \in Id /\ jobs[p].state = "done" /\ jobs[p].content = c
    BY <1>6, Zenon DEF DedupeHits
  <2>2. /\ n \in Row /\ n.state = "done" /\ n.result = jobs[p].result
        /\ n.content = c /\ ~n.purged /\ ~n.old
    BY <1>2, <2>1, CachedRowFields, Zenon DEF IInv
  <2>3. /\ jobs[p].result \in Run /\ jobs[p].result.ok /\ jobs[p].result.job < next
        /\ jobs[p].result.content = c /\ jobs[p].result # WorkerLost
    BY <2>1, NullAssumption, Zenon DEF IInv, RowInv, ResultForOwnContent
  <2>4. c \in Converts => out[p] = jobs[p].result
    BY <1>6, <2>1, Zenon DEF Linkable, IInv, FolderInv, ResultKept
  <2>5. out' \in [Id -> Run \cup {NoRun}] /\ (\A k \in Id : k # next => out'[k] = out[k])
        /\ (c \in Converts => out'[next] = jobs[p].result)
    BY <1>3, <1>6, <2>1, <2>4, Zenon DEF IInv, TypeOK
  <2>. HIDE DEF n
  <2>. QED BY <1>4, <1>6, <2>2, <2>3, <2>5, Zenon DEF n
<1>. QED BY <1>5, <1>6, Zenon DEF Submit

-----------------------------------------------------------------------------
(* The theorems *)

\* An empty database satisfies the invariant.
LEMMA InitInv == Init => IInv
<1> SUFFICES ASSUME Init PROVE IInv
  BY Zenon
<1>1. TypeOK
  BY NoRowFields, MaxIdAssumption DEF Init, TypeOK
<1>2. RowInv /\ ResultFromLastLease /\ ResultForOwnContent
  BY NoRowFields, NullAssumption, Zenon
  DEF Init, RowInv, ResultFromLastLease, ResultForOwnContent, Terminal
<1>3. ReapInv /\ PurgeInv /\ FolderInv /\ ResultKept
  BY NoRowFields, Zenon DEF Init, ReapInv, PurgeInv, FolderInv, ResultKept, Terminal
<1>. QED BY <1>1, <1>2, <1>3, Zenon DEF IInv

\* Every step of the coordinator preserves the invariant.
LEMMA NextInv == IInv /\ [Next]_vars => IInv'
<1> SUFFICES ASSUME IInv, [Next]_vars PROVE IInv'
  BY Zenon
<1>. leasing \subseteq Leases /\ staging \subseteq Leases
  BY Zenon DEF IInv, TypeOK
<1>1. CASE \E q \in Requests : \/ Submit(q.content, q.hot, q.dedupe)
                              \/ SubmitUpdateFails(q.content, q.hot, q.dedupe)
                              \/ CrashInSubmit(q.hot)
  BY <1>1, RequestsAssumption, SubmitInv, SubmitUpdateFailsInv, CrashInSubmitInv, Zenon
<1>2. CASE \E w \in Workers, i \in Id : Lease(w, i)
  BY <1>2, LeaseInv, Zenon
<1>3. CASE \E h \in leasing : LeaseSent(h) \/ LeaseUnreadable(h)
  BY <1>3, HandlerInv, LeaseUnreadableInv, Zenon
<1>4. CASE \E w \in Workers, R \in SUBSET Id : Heartbeat(w, R)
  BY <1>4, HeartbeatInv, Zenon
<1>5. CASE \E i \in Id : LeaseExpires(i) \/ Age(i)
  BY <1>5, TimeInv, Zenon
<1>6. CASE \E h \in Leases : CompleteStart(h)
  BY <1>6, HandlerInv, Zenon
<1>7. CASE \E h \in staging, ok \in BOOLEAN : \/ CompleteFinish(h, ok)
                                             \/ CompleteNotCommitted(h, ok)
                                             \/ CrashInFinish(h, ok)
  BY <1>7, CompleteFinishInv, StagedInv, Zenon
<1>8. CASE \E h \in staging : CompleteAbort(h)
  BY <1>8, HandlerInv, Zenon
<1>9. CASE ReapSelect \/ \E e \in reaping : ReapOne(e)
  BY <1>9, ReapSelectInv, ReapOneInv, Zenon
<1>10. CASE \E i \in Id : Release(i)
  BY <1>10, ReleaseInv, Zenon
<1>11. CASE JanitorSelect \/ \E i \in Id : JanitorRemove(i) \/ JanitorMark(i)
  BY <1>11, JanitorSelectInv, JanitorRemoveInv, JanitorMarkInv, Zenon
<1>12. CASE \E D \in SUBSET Id : JanitorDelete(D)
  BY <1>12, JanitorDeleteInv, Zenon
<1>13. CASE Crash \/ Open \/ Serve \/ \E i \in Id : DeliverOk(i) \/ DeliverFails(i)
  BY <1>13, RestartInv, DeliverOkInv, Zenon
<1>14. CASE UNCHANGED vars
  <2>1. TypeOK' /\ ReapInv' /\ PurgeInv'
    BY <1>14, Zenon DEF vars, disk, memory, IInv, TypeOK, ReapInv, PurgeInv
  <2>. QED BY <1>14, <2>1, SameRows, Zenon DEF vars, disk
<1>. QED
  BY <1>1, <1>2, <1>3, <1>4, <1>5, <1>6, <1>7, <1>8, <1>9, <1>10, <1>11, <1>12, <1>13, <1>14, Zenon DEF Next

\* The inductive invariant behind the theorems below: over every interleaving of
\* submit, lease, heartbeat, complete, reap, janitor, deliver and crash.
THEOREM Invariance == Spec => []IInv
<1>. QED BY InitInv, NextInv, PTL DEF Spec

\* The table, the folders and the handlers are always what their types say, for every
\* number of jobs, workers and tries.
THEOREM TypeCorrect == Spec => []TypeOK
<1>1. IInv => TypeOK
  BY Zenon DEF IInv
<1>. QED BY <1>1, Invariance, PTL

\* Fencing: no interleaving of reaper, heartbeats, leases, uploads, crashes and restarts
\* records a result of any but the last lease.
THEOREM Fencing == Spec => []ResultFromLastLease
<1>1. IInv => ResultFromLastLease
  BY Zenon DEF IInv
<1>. QED BY <1>1, Invariance, PTL

\* A job is given up as "worker lost" only after KURA_MAX_ATTEMPTS tries, and never waits
\* with none left.
THEOREM Retries == Spec => []RetriesUsedUp
<1>1. IInv => RetriesUsedUp
  BY Zenon DEF IInv, RowInv, RetriesUsedUp
<1>. QED BY <1>1, Invariance, PTL

\* Folders and results survive crashes, restarts, dedupe and the janitor until they are
\* released, delivered or expired.
THEOREM Durability == Spec => []ResultKept
<1>1. IInv => ResultKept
  BY Zenon DEF IInv
<1>. QED BY <1>1, Invariance, PTL

\* Whatever chain of dedupe hits a result went through, it is for the same content.
THEOREM DedupeSound == Spec => []ResultForOwnContent
<1>1. IInv => ResultForOwnContent
  BY Zenon DEF IInv
<1>. QED BY <1>1, Invariance, PTL

-----------------------------------------------------------------------------
(* Which steps write rows *)

\* Every step is one of those that can change a row, or changes none.
LEMMA StepKinds ==
  ASSUME [Next]_vars
  PROVE  \/ \E q \in Requests : Submit(q.content, q.hot, q.dedupe)
         \/ \E w \in Workers, i \in Id : Lease(w, i)
         \/ \E h \in leasing : LeaseUnreadable(h)
         \/ \E w \in Workers, R \in SUBSET Id : Heartbeat(w, R)
         \/ \E i \in Id : LeaseExpires(i) \/ Age(i) \/ Release(i) \/ JanitorMark(i) \/ DeliverOk(i)
         \/ \E h \in staging, ok \in BOOLEAN : CompleteFinish(h, ok)
         \/ \E e \in reaping : ReapOne(e)
         \/ \E D \in SUBSET Id : JanitorDelete(D)
         \/ jobs' = jobs /\ next' = next
BY Zenon DEF Next, vars, disk, SubmitUpdateFails, CrashInSubmit, LeaseSent, CompleteStart,
       CompleteNotCommitted, CrashInFinish, CompleteAbort, ReapSelect, JanitorSelect,
       JanitorRemove, DeliverFails, Crash, Open, Serve

-----------------------------------------------------------------------------
(* The promise to a submitter *)

\* What a submitter sees of the queue.
seen == <<[i \in Id |-> Phase(i)], [i \in Id |-> jobs[i].result]>>

\* A step that keeps every row's result, and its state up to queued or running, is invisible.
LEMMA Invisible ==
  ASSUME next' = next,
         \A i \in Id : /\ jobs'[i].result = jobs[i].result
                       /\ \/ jobs'[i].state = jobs[i].state
                          \/ {jobs'[i].state, jobs[i].state} \subseteq {"queued", "running"}
  PROVE  UNCHANGED seen
<1>1. ASSUME NEW i \in Id PROVE Phase(i)' = Phase(i)
  BY Zenon DEF Phase, Terminal
<1>. QED BY <1>1, Zenon DEF seen

\* The UPDATE of finish() settles a job that was waiting or running.
LEMMA Settles ==
  ASSUME IInv, NEW i \in Id, NEW r \in Results \ {NoRun}, SetFinished(i, r), next' = next,
         jobs[i].state \in {"queued", "running"}
  PROVE  Promise!Settle(i)
<1>1. jobs[i] \in Row /\ FinishedRow(jobs[i], r).state \in Terminal
      /\ FinishedRow(jobs[i], r).result = r
  BY FinishedRowFields DEF IInv, TypeOK
<1>2. jobs'[i] = FinishedRow(jobs[i], r) /\ \A k \in Id : k # i => jobs'[k] = jobs[k]
  BY Zenon DEF SetFinished, IInv, TypeOK
<1>3. Phase(i) = "pending" /\ Phase(i)' \in Terminal
      /\ \A k \in Id : k # i => Phase(k)' = Phase(k)
  BY <1>1, <1>2, Zenon DEF Phase, Terminal
<1>4. [k \in Id |-> Phase(k)]' = [[k \in Id |-> Phase(k)] EXCEPT ![i] = Phase(i)']
  BY <1>3, Zenon
<1>5. [k \in Id |-> jobs[k].result]' = [[k \in Id |-> jobs[k].result] EXCEPT ![i] = r]
  BY <1>1, <1>2, Zenon
<1>. QED BY <1>3, <1>4, <1>5, Zenon DEF Promise!Settle, Promise!Settled, Terminal

\* A submission is accepted, or accepted and settled at once with a known verdict.
LEMMA Accepts ==
  ASSUME IInv, NEW q \in Requests, Submit(q.content, q.hot, q.dedupe), NEW i \in Id, i = next
  PROVE  Promise!Accept(i) \/ Promise!AcceptKnown(i)
<1> DEFINE new == NewRow(q.content, q.hot, q.dedupe)
<1>1. new \in Row /\ new.state = "queued" /\ new.result = NoRun
  BY NewRowFields, RequestsAssumption
<1>2. next' = i + 1 /\ Phase(i) = "new" /\ jobs[i].result = NoRun
  BY MaxIdAssumption DEF Submit, IInv, RowInv, Phase, Terminal, Id
<1>. HIDE DEF new
<1>3. ASSUME NEW n, jobs' = [jobs EXCEPT ![i] = n], n.state \in {"queued", "done"}
      PROVE  /\ Phase(i)' = IF n.state = "done" THEN "done" ELSE "pending"
             /\ [k \in Id |-> Phase(k)]' = [[k \in Id |-> Phase(k)] EXCEPT ![i] = Phase(i)']
             /\ [k \in Id |-> jobs[k].result]'
                = [[k \in Id |-> jobs[k].result] EXCEPT ![i] = n.result]
  <2>1. jobs'[i] = n /\ \A k \in Id : k # i => jobs'[k] = jobs[k]
    BY <1>3, Zenon DEF IInv, TypeOK
  <2>2. ASSUME NEW k \in Id, k # i PROVE Phase(k)' = Phase(k)
    <3>1. k < next' <=> k < next
      BY <1>2, <2>2, MaxIdAssumption DEF Id
    <3>. QED BY <2>1, <2>2, <3>1, Zenon DEF Phase
  <2>3. Phase(i)' = IF n.state = "done" THEN "done" ELSE "pending"
    BY <1>3, <2>1, Zenon DEF Phase, Terminal
  <2>. QED BY <2>1, <2>2, <2>3, Zenon
<1>4. CASE jobs' = [jobs EXCEPT ![i] = new]
  <2>1. [k \in Id |-> jobs[k].result]' = [k \in Id |-> jobs[k].result]
    BY <1>1, <1>2, <1>3, <1>4
  <2>. QED BY <1>1, <1>2, <1>3, <1>4, <2>1, Zenon DEF Promise!Accept
<1>5. ASSUME NEW p \in DedupeHits(q.content), jobs' = [jobs EXCEPT ![i] = CachedRow(new, p)]
      PROVE  Promise!AcceptKnown(i)
  <2>1. p \in Id /\ Phase(p) = "done"
    BY Zenon DEF DedupeHits, Phase, Terminal
  <2>2. CachedRow(new, p).state = "done" /\ CachedRow(new, p).result = jobs[p].result
    BY <1>1, <2>1, CachedRowFields, Zenon DEF IInv
  <2>3. Phase(i)' = "done"
        /\ [k \in Id |-> Phase(k)]' = [[k \in Id |-> Phase(k)] EXCEPT ![i] = "done"]
        /\ [k \in Id |-> jobs[k].result]'
           = [[k \in Id |-> jobs[k].result] EXCEPT ![i] = jobs[p].result]
    BY <1>3, <1>5, <2>2, Zenon
  <2>. QED BY <1>2, <2>1, <2>3, Zenon DEF Promise!AcceptKnown
<1>. QED BY <1>4, <1>5, Zenon DEF Submit, new

\* Deleting purged rows forgets settled jobs.
LEMMA Forgets ==
  ASSUME IInv, NEW D \in SUBSET Id, JanitorDelete(D) PROVE Promise!Forget(D)
<1>1. \A k \in Id : jobs'[k] = IF k \in D THEN NoRow ELSE jobs[k]
  BY Zenon DEF JanitorDelete
<1>2. \A k \in D : k < next /\ jobs[k].state \in Terminal
  BY MaxIdAssumption DEF JanitorDelete, IInv, TypeOK, RowInv, Id
<1>3. ASSUME NEW k \in Id PROVE Phase(k)' = IF k \in D THEN "forgotten" ELSE Phase(k)
  <2>1. next' = next
    BY Zenon DEF JanitorDelete
  <2>2. CASE k \in D
    BY <1>1, <1>2, <2>1, <2>2, NoRowFields, Zenon DEF Phase, Terminal
  <2>3. CASE k \notin D
    <3>1. jobs'[k] = jobs[k]
      BY <1>1, <2>3, Zenon
    <3>2. Phase(k)' = Phase(k)
      BY <2>1, <3>1, Zenon DEF Phase, Terminal
    <3>. QED BY <2>3, <3>2, Zenon
  <2>. QED BY <2>2, <2>3, Zenon
<1>4. \A k \in D : Phase(k) \in {"done", "failed"}
  BY <1>2, Zenon DEF Phase, Terminal
<1>. QED BY <1>1, <1>3, <1>4, NoRowFields, Zenon DEF Promise!Forget, Promise!Settled

\* Giving a job up settles it in the promise.
LEMMA FinishLostSettles ==
  ASSUME IInv, NEW i \in Id, NEW r \in Results \ {NoRun}, FinishLost(i, r), next' = next
  PROVE  Promise!Settle(i) \/ UNCHANGED seen
<1>1. jobs[i].state \in {"none", "queued", "running"} \cup Terminal
  BY Zenon DEF IInv, TypeOK, Row
<1>. QED BY <1>1, Settles, Invisible, Zenon DEF FinishLost

\* The initial states map to initial states of the promise.
LEMMA InitSimulates == Init => Promise!Init
BY NoRowFields DEF Init, Promise!Init, Phase, Terminal, Id

\* Every step of the coordinator maps to a step of the promise or to a stutter.
LEMMA StepSimulates == IInv /\ [Next]_vars => [Promise!Next]_seen
<1> SUFFICES ASSUME IInv, [Next]_vars PROVE Promise!Next \/ UNCHANGED seen
  BY Zenon DEF seen
<1>. leasing \subseteq Leases /\ staging \subseteq Leases /\ (\A h \in Leases : h.id \in Id)
     /\ \A e \in reaping : e.id \in Id
  BY Zenon DEF IInv, TypeOK, Leases
<1>. {WorkerLost, Unreadable} \subseteq Results \ {NoRun}
  BY NullAssumption, Zenon DEF Results
<1>1. CASE \E q \in Requests : Submit(q.content, q.hot, q.dedupe)
  BY <1>1, Accepts, Zenon DEF Submit, Promise!Next
<1>2. CASE \E w \in Workers, i \in Id : Lease(w, i)
  <2>. PICK w \in Workers, i \in Id : Lease(w, i)
    BY <1>2, Zenon
  <2>0. jobs[i] \in Row /\ jobs[i].attempts < MaxAttempts
    BY Zenon DEF Lease, IInv, TypeOK, RowInv
  <2>1. LeasedRow(jobs[i], w).state = "running" /\ LeasedRow(jobs[i], w).result = jobs[i].result
    BY <2>0, LeasedRowFields, Zenon
  <2>. QED BY <2>1, Invisible, Zenon DEF Lease, IInv, TypeOK
<1>3. CASE \E h \in leasing : LeaseUnreadable(h)
  BY <1>3, FinishLostSettles, Zenon DEF LeaseUnreadable, Promise!Next
<1>4. CASE \E w \in Workers, R \in SUBSET Id : Heartbeat(w, R)
  <2>. PICK w \in Workers, R \in SUBSET Id : Heartbeat(w, R)
    BY <1>4, Zenon
  <2>1. ASSUME NEW k \in Id PROVE Flagged(jobs[k], jobs'[k])
    BY HeartbeatFlags, Zenon
  <2>. QED BY <2>1, Invisible, Zenon DEF Flagged, Heartbeat
<1>5. CASE \E i \in Id : LeaseExpires(i) \/ Age(i) \/ Release(i) \/ JanitorMark(i) \/ DeliverOk(i)
  BY <1>5, FlagSteps, Invisible, Zenon DEF Flagged
<1>6. CASE \E h \in staging, ok \in BOOLEAN : CompleteFinish(h, ok)
  <2>. PICK h \in staging, ok \in BOOLEAN : CompleteFinish(h, ok)
    BY <1>6, Zenon
  <2>1. CASE Holds(h)
    <3>1. RunOf(h, ok) \in Results \ {NoRun}
      BY RunOfFields, NullAssumption DEF IInv
    <3>. QED BY <2>1, <3>1, Settles, Zenon DEF CompleteFinish, Holds, Promise!Next
  <2>2. CASE ~Holds(h)
    BY <2>2, Invisible, Zenon DEF CompleteFinish
  <2>. QED BY <2>1, <2>2, Zenon
<1>7. CASE \E e \in reaping : ReapOne(e)
  <2>. PICK e \in reaping : ReapOne(e)
    BY <1>7, Zenon
  <2>1. CASE FinishLost(e.id, WorkerLost)
    BY <2>1, FinishLostSettles, Zenon DEF ReapOne, Promise!Next
  <2>2. CASE Requeue(e.id)
    <3>1. RequeuedRow(jobs[e.id]).state = "queued"
          /\ RequeuedRow(jobs[e.id]).result = jobs[e.id].result
      BY RequeuedRowFields, Zenon DEF IInv, TypeOK
    <3>. QED BY <2>2, <3>1, Invisible, Zenon DEF ReapOne, Requeue, IInv, TypeOK
  <2>. QED BY <2>1, <2>2, Zenon DEF ReapOne
<1>8. CASE \E D \in SUBSET Id : JanitorDelete(D)
  BY <1>8, Forgets, Zenon DEF Promise!Next
<1>9. CASE jobs' = jobs /\ next' = next
  BY <1>9, Invisible, Zenon
<1>. QED BY <1>1, <1>2, <1>3, <1>4, <1>5, <1>6, <1>7, <1>8, <1>9, StepKinds, Zenon

\* Whatever crashes, retries, late results and purges happen, a submitter sees each job
\* accepted once, settled at most once, and never changed afterwards.
THEOREM KeepsPromise == Spec => ImplementsPromise
<1>. QED
  BY Invariance, InitSimulates, StepSimulates, PTL DEF Spec, ImplementsPromise, Promise!Spec, seen
=============================================================================
