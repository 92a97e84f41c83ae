------------------------------ MODULE Cluster ------------------------------
(***************************************************************************)
(* The coordinator of module Coord with the workers that really talk to it *)
(* (server/src/worker.rs).  A worker process has a fixed number of slots,  *)
(* each in a loop of lease, download, run, upload, and one task that sends *)
(* a heartbeat with the ids in its set `running`.  A request or its reply  *)
(* may be lost at every step; a worker may be stopped or killed; a process *)
(* that starts again has a new id, so it is another member of Workers.     *)
(***************************************************************************)
EXTENDS Coord

CONSTANTS
  SlotNo,    \* the slots of each worker (KURA_SLOTS)
  Survivor,  \* a worker that is neither stopped nor killed: somebody must do the work
  NoLease

ASSUME SurvivorAssumption == Survivor \in Workers /\ SlotNo # {}
ASSUME NoLeaseAssumption == NoLease \notin Leases

VARIABLES
  slot,      \* what each slot is doing, with the lease it does it for
  running,   \* Worker::running: the ids the next heartbeat names
  beat,      \* the heartbeat task: "on", "stopping" (it has seen the stop) or "off"
  stopping,  \* workers that got their first signal
  alive      \* workers whose process runs

workers == <<slot, running, beat, stopping, alive>>
cvars == <<vars, workers>>

Slots == Workers \X SlotNo

\* reply: the lease request is out.  download: its answer is being read.
Busy == {"reply", "download", "run", "upload"}
SlotState == [pc: {"idle", "ended"} \cup Busy, h: Leases \cup {NoLease}, ok: BOOLEAN]
Idle == [pc |-> "idle", h |-> NoLease, ok |-> FALSE]

CTypeOK ==
  /\ slot \in [Slots -> SlotState]
  /\ running \in [Workers -> SUBSET Id]
  /\ beat \in [Workers -> {"on", "stopping", "off"}]
  /\ stopping \subseteq Workers /\ alive \subseteq Workers

CInit ==
  /\ Init
  /\ slot = [s \in Slots |-> Idle]
  /\ running = [w \in Workers |-> {}]
  /\ beat = [w \in Workers |-> "on"]
  /\ stopping = {} /\ alive = Workers

\* Slot s, of a living process, is at pc.
At(s, pc) == s[1] \in alive /\ slot[s].pc = pc

Goto(s, pc) ==
  /\ slot' = [slot EXCEPT ![s].pc = pc]
  /\ UNCHANGED <<running, beat, stopping, alive>>

\* The slot's turn of the loop is over before the job was put into `running`.
NoJob(s) ==
  /\ slot' = [slot EXCEPT ![s] = Idle]
  /\ UNCHANGED <<running, beat, stopping, alive>>

\* Mutant: the id stays in `running`.
JobOverNotRemoved(s) == NoJob(s)

\* upload() has returned, whatever became of it: running.remove(&meta.id).
JobOver(s) ==
  /\ slot' = [slot EXCEPT ![s] = Idle]
  /\ running' = [running EXCEPT ![s[1]] = @ \ {slot[s].h.id}]
  /\ UNCHANGED <<beat, stopping, alive>>

-----------------------------------------------------------------------------
(* slot() and run_one() up to the engine's exit *)

AskLease(s) ==
  /\ At(s, "idle") /\ s[1] \notin stopping
  /\ \E i \in Id :
       /\ Lease(s[1], i)
       /\ slot' = [slot EXCEPT ![s] =
            [pc |-> "reply", ok |-> FALSE,
             h |-> [id |-> i, attempt |-> jobs[i].attempts + 1, worker |-> s[1]]]]
  /\ UNCHANGED <<running, beat, stopping, alive>>

ReplyArrives(s) == At(s, "reply") /\ LeaseSent(slot[s].h) /\ Goto(s, "download")

\* The answer is lost, comes after the 40 s, or the stop drops the request.
ReplyLost(s) == At(s, "reply") /\ LeaseSent(slot[s].h) /\ NoJob(s)

\* The coordinator cannot read the job's files, fails the job and answers 204.
ReplyUnreadable(s) == At(s, "reply") /\ LeaseUnreadable(slot[s].h) /\ NoJob(s)

\* The coordinator died with the request in its hands.
ReplyBroken(s) ==
  /\ At(s, "reply") /\ slot[s].h \notin leasing
  /\ NoJob(s)
  /\ UNCHANGED vars

\* wire::decode read the bundle: only now is the job in `running`.
DownloadOk(s) ==
  /\ At(s, "download")
  /\ slot' = [slot EXCEPT ![s].pc = "run"]
  /\ running' = [running EXCEPT ![s[1]] = @ \cup {slot[s].h.id}]
  /\ UNCHANGED <<vars, beat, stopping, alive>>

\* No job directory, or a broken download: "the lease will expire".
DownloadFails(s) == At(s, "download") /\ NoJob(s) /\ UNCHANGED vars

\* run_checked(): a refused job, an exit code or a timeout; the engine always ends.
EngineEnds(s) ==
  /\ At(s, "run")
  /\ \E ok \in BOOLEAN : slot' = [slot EXCEPT ![s].pc = "upload", ![s].ok = ok]
  /\ UNCHANGED <<vars, running, beat, stopping, alive>>

-----------------------------------------------------------------------------
(* upload(): a request every second until it is answered 200, 409 or 404 *)

UploadStart(s) ==
  /\ At(s, "upload") /\ slot[s].h \notin staging
  /\ CompleteStart(slot[s].h)
  /\ UNCHANGED workers

\* 409: the attempt does not hold the job, or its folder is gone.
UploadRefused(s) ==
  /\ At(s, "upload") /\ slot[s].h \notin staging
  /\ up = "up" /\ ~(Holds(slot[s].h) /\ slot[s].h.id \in dirs)
  /\ JobOver(s)
  /\ UNCHANGED vars

\* The answer of a request the coordinator has handled: it ends the slot's job, or it
\* is lost and the slot tries again, or the process is no longer there to read it.
Answered(s) == (s[1] \in alive /\ JobOver(s)) \/ UNCHANGED workers

\* finish() returned: 200 if the result was recorded, else 409.
UploadHandled(s) ==
  /\ slot[s].pc = "upload"
  /\ CompleteFinish(slot[s].h, slot[s].ok)
  /\ Answered(s)

\* finish() could not write the row: 409 too, although the attempt holds the job.
UploadNotCommitted(s) ==
  /\ slot[s].pc = "upload"
  /\ CompleteNotCommitted(slot[s].h, slot[s].ok)
  /\ Answered(s)

\* The request broke off; a living worker tries again.
UploadBroken(s) == slot[s].pc = "upload" /\ CompleteAbort(slot[s].h) /\ UNCHANGED workers

CrashInUpload(s) ==
  /\ slot[s].pc = "upload"
  /\ CrashInFinish(slot[s].h, slot[s].ok)
  /\ UNCHANGED workers

\* Mutant: upload() retries for ever.
GiveUpNever(s) == FALSE

\* The 600 s are over, or the outputs cannot be read.
GiveUp(s) ==
  /\ At(s, "upload") /\ slot[s].h \notin staging
  /\ JobOver(s)
  /\ UNCHANGED vars

-----------------------------------------------------------------------------
(* The heartbeat task, the stop and the kill *)

Beat(w) ==
  /\ w \in alive /\ beat[w] # "off"
  /\ Heartbeat(w, running[w])
  /\ UNCHANGED workers

\* The first signal: "finishing running jobs; signal again to stop now".
Stop(w) ==
  /\ w \in alive \ (stopping \cup {Survivor})
  /\ stopping' = stopping \cup {w}
  /\ UNCHANGED <<vars, slot, running, beat, alive>>

\* stop.changed() fires once: the task ends if no job is in `running` at that moment.
BeatSeesStop(w) ==
  /\ w \in alive \cap stopping /\ beat[w] = "on"
  /\ beat' = [beat EXCEPT ![w] = IF running[w] = {} THEN "off" ELSE "stopping"]
  /\ UNCHANGED <<vars, slot, running, stopping, alive>>

SlotEnds(s) == At(s, "idle") /\ s[1] \in stopping /\ Goto(s, "ended") /\ UNCHANGED vars

\* Every slot has ended; or the second signal, a crash, a power cut.
Gone(w) ==
  /\ alive' = alive \ {w}
  /\ UNCHANGED <<vars, slot, running, beat, stopping>>

Exit(w) == w \in alive /\ (\A n \in SlotNo : slot[<<w, n>>].pc = "ended") /\ Gone(w)
Kill(w) == w \in alive \ {Survivor} /\ Gone(w)

-----------------------------------------------------------------------------
\* What the coordinator does by itself, and what its submitters do.  Jobs here ask for no
\* dedupe: a job answered from an earlier one never meets a worker.
Coordinator ==
  \/ \E q \in Requests : \/ Submit(q.content, q.hot, q.dedupe)
                        \/ CrashInSubmit(q.hot)
  \/ \E i \in Id : LeaseExpires(i) \/ Age(i) \/ Release(i)
  \/ ReapSelect
  \/ \E e \in reaping : ReapOne(e)
  \/ JanitorSelect
  \/ \E i \in Id : JanitorRemove(i) \/ JanitorMark(i)
  \/ \E D \in SUBSET Id : JanitorDelete(D)
  \/ \E i \in Id : DeliverOk(i) \/ DeliverFails(i)
  \/ Crash \/ Open \/ Serve

\* A reply on its way to a worker that is gone.
ReplyToNobody(s) ==
  /\ s[1] \notin alive /\ slot[s].pc = "reply"
  /\ LeaseSent(slot[s].h) /\ UNCHANGED workers

Slot(s) ==
  \/ AskLease(s) \/ ReplyArrives(s) \/ ReplyLost(s) \/ ReplyUnreadable(s) \/ ReplyBroken(s)
  \/ ReplyToNobody(s)
  \/ DownloadOk(s) \/ DownloadFails(s) \/ EngineEnds(s)
  \/ UploadStart(s) \/ UploadRefused(s) \/ UploadHandled(s) \/ UploadNotCommitted(s)
  \/ UploadBroken(s) \/ CrashInUpload(s) \/ GiveUp(s)
  \/ SlotEnds(s)

CNext ==
  \/ Coordinator /\ UNCHANGED workers
  \/ \E s \in Slots : Slot(s)
  \/ \E w \in Workers : Beat(w) \/ Stop(w) \/ BeatSeesStop(w) \/ Exit(w) \/ Kill(w)

CSpec == CInit /\ [][CNext]_cvars

-----------------------------------------------------------------------------
(* Fairness: what the schedulers, the clocks and the time limits guarantee *)

\* A heartbeat will renew the lease of job i.
Covered(i) == \E w \in alive : beat[w] # "off" /\ i \in running[w] /\ jobs[i].worker = w

\* Time passes: a lease nobody renews runs out.
Lapse == \E i \in Id : ~Covered(i) /\ LeaseExpires(i) /\ UNCHANGED workers

\* The reaper's loop, the restart of the coordinator, the deliveries at its start.
Upkeep ==
  /\ WF_cvars(Lapse)
  /\ WF_cvars(ReapSelect /\ UNCHANGED workers)
  /\ WF_cvars((\E e \in reaping : ReapOne(e)) /\ UNCHANGED workers)
  /\ WF_cvars((Open \/ Serve \/ \E i \in Id : DeliverOk(i)) /\ UNCHANGED workers)

\* A request ends one way or the other: it has a time limit on both sides.
ReplyEnds(s) == ReplyArrives(s) \/ ReplyLost(s) \/ ReplyBroken(s) \/ ReplyUnreadable(s)
UploadEnds(s) == UploadHandled(s) \/ UploadNotCommitted(s) \/ UploadBroken(s)

\* A slot of a living worker goes on with its loop; the deadline of upload() is tested
\* between any two requests, so it is met in the end however many of them fail.
SlotFair(s) ==
  /\ WF_cvars(AskLease(s))
  /\ WF_cvars(ReplyEnds(s))
  /\ WF_cvars(DownloadOk(s) \/ DownloadFails(s))
  /\ WF_cvars(EngineEnds(s))
  /\ WF_cvars(UploadEnds(s))
  /\ SF_cvars(GiveUp(s))

FairSpec == CSpec /\ Upkeep /\ \A s \in Slots : SlotFair(s)

-----------------------------------------------------------------------------
(* Properties *)

\* Every lease (job, attempt) is worked on by at most one slot of the whole cluster,
\* however often replies are lost, leases expire and jobs are handed over.
LeaseExclusive ==
  \A s, t \in Slots :
    s # t /\ slot[s].pc \in Busy /\ slot[t].pc \in Busy =>
      <<slot[s].h.id, slot[s].h.attempt>> # <<slot[t].h.id, slot[t].h.attempt>>

\* A heartbeat never keeps a job its worker is not working on: an id in `running` is being
\* run or uploaded by one of its slots, so a job whose download failed or whose result was
\* given up is reaped.
BeatsOnlyOwnWork ==
  \A w \in alive : \A i \in running[w] : \E n \in SlotNo :
    LET t == slot[<<w, n>>] IN t.pc \in {"run", "upload"} /\ t.h.id = i

\* docs/self-hosting.md:125-126: a waiting or running job comes to an end, whatever
\* happens to workers and to the coordinator, as long as one worker stays and the
\* coordinator is at last up for good.
Pending(i) == jobs[i].state \in {"queued", "running"}
EveryJobSettles == <>[](up = "up") => \A i \in Id : Pending(i) ~> ~Pending(i)

\* A slot of a worker that stays is free again in the end, even if the coordinator never
\* comes back: no job, lost reply or refused upload keeps it.
SlotsFreed == \A n \in SlotNo : LET s == <<Survivor, n>> IN slot[s].pc \in Busy ~> slot[s].pc = "idle"

\* docs/self-hosting.md:154: KURA_LEASE_MS is "how long a silent worker keeps its jobs": a
\* worker that is beating keeps the job it runs, so its heartbeats name that job.
BeatsNameEveryJob ==
  \A s \in Slots : At(s, "run") /\ Holds(slot[s].h) => slot[s].h.id \in running[s[1]]

\* main.rs:332: after the first signal the worker is "finishing running jobs": while a slot
\* runs a job, the task that keeps the lease alive runs too.
BeatOutlivesJobs == \A s \in Slots : At(s, "run") => beat[s[1]] # "off"

-----------------------------------------------------------------------------
(* What the proofs rest on *)

\* A busy slot works for its own process, on a lease the queue has granted: the row has
\* counted at least as many tries as the lease says, or is deleted for good.
SlotInv ==
  \A s \in Slots : slot[s].pc \in Busy =>
    LET h == slot[s].h IN
      /\ h \in Leases /\ h.worker = s[1] /\ h.id < next
      /\ jobs[h.id].state # "none" => h.attempt <= jobs[h.id].attempts

CIInv == IInv /\ CTypeOK /\ SlotInv /\ LeaseExclusive /\ BeatsOnlyOwnWork
=============================================================================
