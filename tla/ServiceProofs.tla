---------------------------- MODULE ServiceProofs ----------------------------
(***************************************************************************)
(* What holds around the queue of the coordinator, for every number of     *)
(* workers, slots, clients, jobs and tries.  The workers use the queue as  *)
(* module Coord allows, so its theorems are theorems about the cluster;    *)
(* the requests in front of it are answered from their own jobs; and the   *)
(* queue is never longer than its limit.                                   *)
(***************************************************************************)
EXTENDS Cluster, Api, CoordProofs

-----------------------------------------------------------------------------
(* The workers *)

\* A row of the table keeps its tries, and a deleted one never comes back.
LEMMA RowsGrow ==
  ASSUME IInv, [Next]_vars
  PROVE  /\ next' >= next
         /\ \A k \in Id : k < next /\ jobs'[k].state # "none" =>
              jobs[k].state # "none" /\ jobs'[k].attempts >= jobs[k].attempts
<1> DEFINE Grows == /\ next' >= next
                    /\ \A k \in Id : k < next /\ jobs'[k].state # "none" =>
                         jobs[k].state # "none" /\ jobs'[k].attempts >= jobs[k].attempts
<1> SUFFICES Grows
  BY Zenon
<1>t. next \in Int /\ Id \subseteq Int /\ \A k \in Id : jobs[k].attempts \in Int
  BY MaxIdAssumption, MaxAttemptsAssumption DEF IInv, TypeOK, Row, Id
<1>r. jobs \in [Id -> Row]
  BY Zenon DEF IInv, TypeOK
<1>h. /\ leasing \subseteq Leases /\ staging \subseteq Leases /\ \A h \in Leases : h.id \in Id
      /\ \A e \in reaping : e.id \in Id
  BY Zenon DEF IInv, TypeOK, Leases
<1>v. {WorkerLost, Unreadable} \subseteq Results
  BY Zenon DEF Results
<1>n. ASSUME next' = next PROVE next' >= next
  BY <1>n, <1>t
<1>s. ASSUME next' = next, jobs' = jobs PROVE Grows
  <2>1. ASSUME NEW k \in Id PROVE jobs'[k].attempts >= jobs[k].attempts
    BY <1>s, <1>t
  <2>. QED BY <1>s, <1>t, <2>1
\* One row is written, and has not fewer tries than before.
<1>w. ASSUME NEW i \in Id, next' = next, jobs[i].state # "none",
             jobs'[i].attempts \in Int, jobs'[i].attempts >= jobs[i].attempts,
             \A k \in Id : k # i => jobs'[k] = jobs[k]
      PROVE  Grows
  <2>1. ASSUME NEW k \in Id PROVE jobs'[k].attempts >= jobs[k].attempts
    BY <1>t, <1>w
  <2>2. \A k \in Id : jobs'[k].state # "none" => jobs[k].state # "none"
    BY <1>w, Zenon
  <2>. QED BY <1>n, <1>w, <2>1, <2>2, Zenon
<1>e. ASSUME NEW i \in Id, jobs'[i].attempts = jobs[i].attempts
      PROVE  jobs'[i].attempts \in Int /\ jobs'[i].attempts >= jobs[i].attempts
  BY <1>e, <1>t
<1>f. ASSUME NEW i \in Id, NEW r \in Results, SetFinished(i, r), next' = next,
             jobs[i].state # "none"
      PROVE  Grows
  <2>1. FinishedRow(jobs[i], r).attempts = jobs[i].attempts
    BY <1>r, FinishedRowFields, Zenon
  <2>2. jobs'[i] = FinishedRow(jobs[i], r) /\ \A k \in Id : k # i => jobs'[k] = jobs[k]
    BY <1>f, <1>r, Zenon DEF SetFinished
  <2>3. jobs'[i].attempts = jobs[i].attempts
    BY <2>1, <2>2, Zenon
  <2>4. jobs'[i].attempts \in Int /\ jobs'[i].attempts >= jobs[i].attempts
    BY <1>t, <2>3
  <2>. QED BY <1>f, <1>w, <2>2, <2>4, Zenon
<1>l. ASSUME NEW i \in Id, NEW r \in Results, FinishLost(i, r), next' = next PROVE Grows
  BY <1>f, <1>l, <1>s, Zenon DEF FinishLost
<1>1. CASE \E q \in Requests : Submit(q.content, q.hot, q.dedupe)
  <2>1. next' = next + 1 /\ \A k \in Id : k # next => jobs'[k] = jobs[k]
    BY <1>1, <1>r, Zenon DEF Submit
  <2>2. ASSUME NEW k \in Id, k < next PROVE jobs'[k] = jobs[k]
    <3>1. k # next
      BY <1>t, <2>2
    <3>. QED BY <2>1, <3>1, Zenon
  <2>3. ASSUME NEW k \in Id PROVE jobs[k].attempts >= jobs[k].attempts
    BY <1>t
  <2>4. next' >= next
    BY <1>t, <2>1
  <2>. QED BY <2>2, <2>3, <2>4, Zenon
<1>2. CASE \E w \in Workers, i \in Id : Lease(w, i)
  <2>. PICK w \in Workers, i \in Id : Lease(w, i)
    BY <1>2, Zenon
  <2>1. LeasedRow(jobs[i], w).attempts = jobs[i].attempts + 1
    BY <1>r, LeasedRowFields, Zenon DEF Lease, IInv, RowInv
  <2>2. /\ jobs'[i] = LeasedRow(jobs[i], w) /\ jobs[i].state # "none" /\ next' = next
        /\ \A k \in Id : k # i => jobs'[k] = jobs[k]
    BY <1>r, Zenon DEF Lease
  <2>3. jobs'[i].attempts = jobs[i].attempts + 1
    BY <2>1, <2>2, Zenon
  <2>4. jobs'[i].attempts \in Int /\ jobs'[i].attempts >= jobs[i].attempts
    BY <1>t, <2>3
  <2>. QED BY <1>w, <2>2, <2>4, Zenon
<1>3. CASE \E h \in leasing : LeaseUnreadable(h)
  <2>. PICK h \in leasing : LeaseUnreadable(h)
    BY <1>3, Zenon
  <2>1. h.id \in Id /\ next' = next /\ FinishLost(h.id, Unreadable)
    BY <1>h, Zenon DEF LeaseUnreadable
  <2>. QED BY <1>l, <1>v, <2>1, Zenon
<1>4. CASE \E w \in Workers, R \in SUBSET Id : Heartbeat(w, R)
  <2>. PICK w \in Workers, R \in SUBSET Id : Heartbeat(w, R)
    BY <1>4, Zenon
  <2>1. ASSUME NEW k \in Id
        PROVE  jobs'[k].state = jobs[k].state /\ jobs'[k].attempts = jobs[k].attempts
    BY HeartbeatFlags, Zenon DEF Flagged
  <2>2. next' = next
    BY Zenon DEF Heartbeat
  <2>3. ASSUME NEW k \in Id PROVE jobs'[k].attempts >= jobs[k].attempts
    BY <1>t, <2>1
  <2>. QED BY <1>n, <2>1, <2>2, <2>3, Zenon
<1>5. CASE \E i \in Id : LeaseExpires(i) \/ Age(i) \/ Release(i) \/ JanitorMark(i) \/ DeliverOk(i)
  <2>1. next' = next /\ \A k \in Id : Flagged(jobs[k], jobs'[k])
    BY <1>5, FlagSteps, Zenon
  <2>2. ASSUME NEW k \in Id
        PROVE  jobs'[k].state = jobs[k].state /\ jobs'[k].attempts = jobs[k].attempts
    BY <2>1, Zenon DEF Flagged
  <2>3. ASSUME NEW k \in Id PROVE jobs'[k].attempts >= jobs[k].attempts
    BY <1>t, <2>2
  <2>. QED BY <1>n, <2>1, <2>2, <2>3, Zenon
<1>6. CASE \E h \in staging, ok \in BOOLEAN : CompleteFinish(h, ok)
  <2>. PICK h \in staging, ok \in BOOLEAN : CompleteFinish(h, ok)
    BY <1>6, Zenon
  <2>1. CASE Holds(h)
    <3>1. RunOf(h, ok) \in Results
      BY <1>h, RunOfFields, Zenon DEF IInv
    <3>. QED BY <1>f, <1>h, <2>1, <3>1, Zenon DEF CompleteFinish, Holds
  <2>2. CASE ~Holds(h)
    BY <1>s, <2>2, Zenon DEF CompleteFinish
  <2>. QED BY <2>1, <2>2, Zenon
<1>7. CASE \E e \in reaping : ReapOne(e)
  <2>. PICK e \in reaping : ReapOne(e)
    BY <1>7, Zenon
  <2>1. e.id \in Id /\ next' = next /\ (FinishLost(e.id, WorkerLost) \/ Requeue(e.id))
    BY <1>h, Zenon DEF ReapOne
  <2>2. CASE Requeue(e.id) /\ jobs[e.id].state = "running"
    <3>1. RequeuedRow(jobs[e.id]).attempts = jobs[e.id].attempts
      BY <1>r, <2>1, RequeuedRowFields, Zenon
    <3>2. /\ jobs'[e.id] = RequeuedRow(jobs[e.id])
          /\ \A k \in Id : k # e.id => jobs'[k] = jobs[k]
      BY <1>r, <2>1, <2>2, Zenon DEF Requeue
    <3>3. jobs'[e.id].attempts = jobs[e.id].attempts /\ e.id \in Id
      BY <2>1, <3>1, <3>2, Zenon
    <3>4. jobs'[e.id].attempts \in Int /\ jobs'[e.id].attempts >= jobs[e.id].attempts
      BY <1>e, <3>3, Zenon
    <3>5. jobs[e.id].state # "none"
      BY <2>2, Zenon
    <3>. QED BY <1>w, <2>1, <3>2, <3>4, <3>5, Zenon
  <2>3. CASE Requeue(e.id) /\ jobs[e.id].state # "running"
    BY <1>s, <2>1, <2>3, Zenon DEF Requeue
  <2>. QED BY <1>l, <1>v, <2>1, <2>2, <2>3, Zenon
<1>8. CASE \E D \in SUBSET Id : JanitorDelete(D)
  <2>1. /\ next' = next
        /\ \A k \in Id : jobs'[k].state # "none" => jobs'[k] = jobs[k]
    BY <1>8, NoRowFields, Zenon DEF JanitorDelete
  <2>2. \A k \in Id : jobs[k].attempts >= jobs[k].attempts
    BY <1>t
  <2>. QED BY <1>n, <2>1, <2>2, Zenon
<1>9. CASE jobs' = jobs /\ next' = next
  BY <1>9, <1>s, Zenon
<1>. QED BY <1>1, <1>2, <1>3, <1>4, <1>5, <1>6, <1>7, <1>8, <1>9, StepKinds, Zenon

-----------------------------------------------------------------------------
(* The cluster is a user of the queue *)

\* A slot has two parts: its worker and its number.
LEMMA SlotOwner == ASSUME NEW s \in Slots PROVE s[1] \in Workers /\ s[2] \in SlotNo /\ s = <<s[1], s[2]>>
BY DEF Slots

\* Whatever a slot does, the coordinator's state changes as module Coord says, or not at all.
LEMMA SlotUsesQueue ==
  ASSUME IInv, CTypeOK, SlotInv, NEW s \in Slots, Slot(s) PROVE [Next]_vars
<1>1. s[1] \in Workers /\ slot[s].ok \in BOOLEAN /\ slot[s].pc \in {"idle", "ended"} \cup Busy
  BY SlotOwner, Zenon DEF CTypeOK, SlotState
<1>2. slot[s].pc \in Busy => slot[s].h \in Leases
  BY Zenon DEF SlotInv
<1>3. CASE AskLease(s)
  BY <1>1, <1>3, Zenon DEF AskLease, Next
<1>4. CASE ReplyArrives(s) \/ ReplyLost(s) \/ ReplyToNobody(s)
  BY <1>4, Zenon DEF ReplyArrives, ReplyLost, ReplyToNobody, LeaseSent, Next
<1>5. CASE ReplyUnreadable(s)
  BY <1>5, Zenon DEF ReplyUnreadable, LeaseUnreadable, Next
<1>6. CASE UploadStart(s)
  BY <1>2, <1>6, Zenon DEF UploadStart, At, Busy, Next
<1>7. CASE UploadHandled(s)
  BY <1>1, <1>7, Zenon DEF UploadHandled, CompleteFinish, Next
<1>8. CASE UploadNotCommitted(s)
  BY <1>1, <1>8, Zenon DEF UploadNotCommitted, CompleteNotCommitted, Next
<1>9. CASE CrashInUpload(s)
  BY <1>1, <1>9, Zenon DEF CrashInUpload, CrashInFinish, Next
<1>10. CASE UploadBroken(s)
  BY <1>10, Zenon DEF UploadBroken, CompleteAbort, Next
<1>11. CASE \/ ReplyBroken(s) \/ DownloadOk(s) \/ DownloadFails(s) \/ EngineEnds(s)
            \/ UploadRefused(s) \/ GiveUp(s) \/ SlotEnds(s)
  <2>1. UNCHANGED vars
    BY <1>11, Zenon DEF ReplyBroken, DownloadOk, DownloadFails, EngineEnds, UploadRefused, GiveUp, SlotEnds
  <2>. QED BY <2>1, Zenon
<1>. QED
  BY <1>3, <1>4, <1>5, <1>6, <1>7, <1>8, <1>9, <1>10, <1>11, Zenon DEF Slot

\* Workers act on the coordinator's state only through its handlers: each step of the
\* cluster is a step of the queue or leaves the queue alone.
LEMMA UsesQueue ==
  ASSUME IInv, CTypeOK, SlotInv, [CNext]_cvars PROVE [Next]_vars
<1>1. CASE Coordinator /\ UNCHANGED workers
  BY <1>1, Zenon DEF Coordinator, Next
<1>2. CASE \E s \in Slots : Slot(s)
  BY <1>2, SlotUsesQueue, Zenon
<1>3. CASE \E w \in Workers : Beat(w)
  <2>1. \A w \in Workers : running[w] \in SUBSET Id
    BY Zenon DEF CTypeOK
  <2>. QED BY <1>3, <2>1, Zenon DEF Beat, Next
<1>4. CASE \E w \in Workers : Stop(w) \/ BeatSeesStop(w) \/ Exit(w) \/ Kill(w)
  <2>1. UNCHANGED vars
    BY <1>4, Zenon DEF Stop, BeatSeesStop, Exit, Kill, Gone
  <2>. QED BY <2>1, Zenon
<1>5. CASE UNCHANGED cvars
  BY <1>5, Zenon DEF cvars
<1>. QED BY <1>1, <1>2, <1>3, <1>4, <1>5, Zenon DEF CNext

-----------------------------------------------------------------------------
(* What a slot may be working on *)

\* A slot starts on a lease only by asking for one.
LEMMA SlotSteps ==
  ASSUME CTypeOK, [CNext]_cvars
  PROVE  \/ \E s \in Slots : AskLease(s)
         \/ \A t \in Slots : slot'[t].pc \in Busy =>
              slot[t].pc \in Busy /\ slot'[t].h = slot[t].h
<1> DEFINE Keeps == \A t \in Slots : slot'[t].pc \in Busy =>
                      slot[t].pc \in Busy /\ slot'[t].h = slot[t].h
<1>1. slot \in [Slots -> SlotState] /\ Idle.pc \notin Busy
  BY Zenon DEF CTypeOK, Idle, Busy
<1>2. ASSUME slot' = slot PROVE Keeps
  BY <1>2, Zenon
<1>3. ASSUME NEW s \in Slots, slot' = [slot EXCEPT ![s] = Idle] PROVE Keeps
  BY <1>1, <1>3, Zenon
<1>4. ASSUME NEW s \in Slots, NEW pc, slot' = [slot EXCEPT ![s].pc = pc],
             slot[s].pc \in Busy \/ pc \notin Busy
      PROVE  Keeps
  BY <1>1, <1>4, Zenon DEF SlotState
<1>5. ASSUME NEW s \in Slots, Slot(s), ~AskLease(s) PROVE Keeps
  <2>1. CASE \/ ReplyLost(s) \/ ReplyUnreadable(s) \/ ReplyBroken(s) \/ DownloadFails(s)
             \/ UploadRefused(s) \/ GiveUp(s)
    BY <1>3, <2>1, Zenon DEF ReplyLost, ReplyUnreadable, ReplyBroken, DownloadFails, UploadRefused,
                      GiveUp, NoJob, JobOver
  <2>2. CASE ReplyArrives(s) \/ DownloadOk(s)
    BY <1>4, <2>2, Zenon DEF ReplyArrives, DownloadOk, Goto, At, Busy
  <2>3. CASE EngineEnds(s)
    BY <1>1, <2>3 DEF EngineEnds, At, Busy, SlotState
  <2>4. CASE SlotEnds(s)
    BY <1>4, <2>4, Zenon DEF SlotEnds, Goto, Busy
  <2>5. CASE ReplyToNobody(s) \/ UploadStart(s) \/ UploadBroken(s) \/ CrashInUpload(s)
    BY <1>2, <2>5, Zenon DEF ReplyToNobody, UploadStart, UploadBroken, CrashInUpload, workers
  <2>6. CASE UploadHandled(s) \/ UploadNotCommitted(s)
    BY <1>2, <1>3, <2>6, Zenon DEF UploadHandled, UploadNotCommitted, Answered, JobOver, workers
  <2>. QED BY <1>5, <2>1, <2>2, <2>3, <2>4, <2>5, <2>6, Zenon DEF Slot
<1>6. CASE \/ Coordinator /\ UNCHANGED workers
           \/ \E w \in Workers : Beat(w) \/ Stop(w) \/ BeatSeesStop(w) \/ Exit(w) \/ Kill(w)
           \/ UNCHANGED cvars
  BY <1>2, <1>6, Zenon DEF Beat, Stop, BeatSeesStop, Exit, Kill, Gone, workers, cvars
<1>. QED BY <1>5, <1>6, Zenon DEF CNext

\* The lease a slot is granted is one more try than any slot has seen of that job.
LEMMA Granted ==
  ASSUME IInv, CTypeOK, NEW s \in Slots, AskLease(s)
  PROVE  /\ slot'[s].pc = "reply" /\ slot'[s].ok = FALSE /\ slot'[s].h \in Leases
         /\ slot'[s].h.worker = s[1] /\ slot'[s].h.id < next /\ next' = next
         /\ jobs[slot'[s].h.id].state # "none"
         /\ slot'[s].h.attempt = jobs[slot'[s].h.id].attempts + 1
         /\ jobs'[slot'[s].h.id].attempts = jobs[slot'[s].h.id].attempts + 1
         /\ \A t \in Slots : t # s => slot'[t] = slot[t]
<1>. PICK i \in Id : /\ Lease(s[1], i)
                     /\ slot' = [slot EXCEPT ![s] =
                          [pc |-> "reply", ok |-> FALSE,
                           h |-> [id |-> i, attempt |-> jobs[i].attempts + 1, worker |-> s[1]]]]
  BY Zenon DEF AskLease
<1>1. jobs[i] \in Row /\ jobs[i].state = "queued" /\ jobs[i].attempts < MaxAttempts /\ s[1] \in Workers
  BY SlotOwner, Zenon DEF Lease, IInv, TypeOK, RowInv
<1>2. i < next /\ next' = next
  BY <1>1, MaxIdAssumption, SMTT(20) DEF Lease, IInv, TypeOK, RowInv, Id
<1>3. /\ LeasedRow(jobs[i], s[1]).attempts = jobs[i].attempts + 1
      /\ LeasedRow(jobs[i], s[1]).attempts \in 1..MaxAttempts
  BY <1>1, LeasedRowFields, Zenon
<1>4. jobs'[i] = LeasedRow(jobs[i], s[1])
  BY Zenon DEF Lease, IInv, TypeOK
<1>5. [id |-> i, attempt |-> jobs[i].attempts + 1, worker |-> s[1]] \in Leases
  BY <1>1, <1>3, Zenon DEF Leases
<1>6. /\ slot'[s] = [pc |-> "reply", ok |-> FALSE,
                     h |-> [id |-> i, attempt |-> jobs[i].attempts + 1, worker |-> s[1]]]
      /\ \A t \in Slots : t # s => slot'[t] = slot[t]
  BY Zenon DEF CTypeOK
<1>7. /\ slot'[s].pc = "reply" /\ slot'[s].ok = FALSE /\ slot'[s].h.id = i
      /\ slot'[s].h = [id |-> i, attempt |-> jobs[i].attempts + 1, worker |-> s[1]]
  BY <1>6
<1>. QED BY <1>1, <1>2, <1>3, <1>4, <1>5, <1>6, <1>7

\* No step gives two slots the same lease, or a slot a lease that was not handed out.
LEMMA SlotsSound ==
  ASSUME IInv, CTypeOK, SlotInv, LeaseExclusive, [CNext]_cvars PROVE SlotInv' /\ LeaseExclusive'
<1>t. next \in Int /\ next' \in Int /\ next' >= next /\ IInv'
  BY UsesQueue, NextInv, RowsGrow, MaxIdAssumption DEF IInv, TypeOK
<1>l. \A h \in Leases : h.id \in Id /\ h.attempt \in Int
  BY MaxAttemptsAssumption DEF Leases
<1>a. \A k \in Id : k \in Int /\ jobs[k].attempts \in Int /\ jobs'[k].attempts \in Int
  BY <1>t, MaxAttemptsAssumption, MaxIdAssumption DEF IInv, TypeOK, Row, Id
<1>g. \A k \in Id : k < next /\ jobs'[k].state # "none" =>
        jobs[k].state # "none" /\ jobs'[k].attempts >= jobs[k].attempts
  BY UsesQueue, RowsGrow, Zenon
\* What a slot goes on with stays a lease the queue has granted.
<1>k. ASSUME NEW h \in Leases, h.id < next,
             jobs[h.id].state # "none" => h.attempt <= jobs[h.id].attempts
      PROVE  h.id < next' /\ (jobs'[h.id].state # "none" => h.attempt <= jobs'[h.id].attempts)
  BY <1>a, <1>g, <1>k, <1>l, <1>t
<1>1. CASE \A t \in Slots : slot'[t].pc \in Busy => slot[t].pc \in Busy /\ slot'[t].h = slot[t].h
  <2>1. SlotInv'
    BY <1>1, <1>k, Zenon DEF SlotInv
  <2>2. LeaseExclusive'
    BY <1>1 DEF LeaseExclusive
  <2>. QED BY <2>1, <2>2, Zenon
<1>2. ASSUME NEW s \in Slots, AskLease(s) PROVE SlotInv' /\ LeaseExclusive'
  <2> DEFINE g == slot'[s].h
  <2>1. /\ g \in Leases /\ g.worker = s[1] /\ g.id < next /\ g.id \in Id
        /\ jobs[g.id].state # "none"
        /\ g.attempt = jobs[g.id].attempts + 1 /\ jobs'[g.id].attempts = g.attempt
        /\ \A t \in Slots : t # s => slot'[t] = slot[t]
    BY <1>2, <1>l, Granted, Zenon
  <2>. HIDE DEF g
  <2>2. g.id < next' /\ g.attempt <= jobs'[g.id].attempts
    BY <1>a, <1>l, <1>t, <2>1
  <2>3. ASSUME NEW t \in Slots, slot'[t].pc \in Busy
        PROVE  LET h == slot'[t].h IN
                 /\ h \in Leases /\ h.worker = t[1] /\ h.id < next'
                 /\ jobs'[h.id].state # "none" => h.attempt <= jobs'[h.id].attempts
    <3>1. CASE t = s
      BY <2>1, <2>2, <3>1, Zenon DEF g
    <3>2. CASE t # s
      <4>1. slot[t].pc \in Busy /\ slot'[t].h = slot[t].h
        BY <2>1, <2>3, <3>2, Zenon
      <4>2. /\ slot[t].h \in Leases /\ slot[t].h.worker = t[1] /\ slot[t].h.id < next
            /\ jobs[slot[t].h.id].state # "none" => slot[t].h.attempt <= jobs[slot[t].h.id].attempts
        BY <4>1, Zenon DEF SlotInv
      <4>. QED BY <1>k, <4>1, <4>2, Zenon
    <3>. QED BY <3>1, <3>2, Zenon
  <2>4. SlotInv'
    BY <2>3, Zenon DEF SlotInv
  <2>5. ASSUME NEW t \in Slots, t # s, slot'[t].pc \in Busy
        PROVE  <<slot'[t].h.id, slot'[t].h.attempt>> # <<g.id, g.attempt>>
    <3>1. slot[t].pc \in Busy /\ slot'[t].h = slot[t].h
      BY <2>1, <2>5, Zenon
    <3>2. slot[t].h \in Leases
          /\ (jobs[slot[t].h.id].state # "none" => slot[t].h.attempt <= jobs[slot[t].h.id].attempts)
      BY <3>1, Zenon DEF SlotInv
    <3>. QED BY <1>a, <1>l, <2>1, <3>1, <3>2
  <2>6. ASSUME NEW t \in Slots, NEW u \in Slots, t # u, t # s, u # s,
               slot'[t].pc \in Busy, slot'[u].pc \in Busy
        PROVE  <<slot'[t].h.id, slot'[t].h.attempt>> # <<slot'[u].h.id, slot'[u].h.attempt>>
    BY <2>1, <2>6 DEF LeaseExclusive
  <2>7. LeaseExclusive'
    BY <2>5, <2>6, Zenon DEF LeaseExclusive, g
  <2>. QED BY <2>4, <2>7, Zenon
<1>. QED BY <1>1, <1>2, SlotSteps, Zenon

-----------------------------------------------------------------------------
(* The workers' own state *)

\* The slots, the running sets and the stop flags keep their types.
LEMMA WorkerTypes == ASSUME IInv, CTypeOK, SlotInv, [CNext]_cvars PROVE CTypeOK'
<1>1. /\ slot \in [Slots -> SlotState] /\ Idle \in SlotState
      /\ running \in [Workers -> SUBSET Id]
      /\ beat \in [Workers -> {"on", "stopping", "off"}]
      /\ stopping \subseteq Workers /\ alive \subseteq Workers
  BY Zenon DEF CTypeOK, Idle, SlotState
<1>2. ASSUME NEW s \in Slots PROVE s[1] \in Workers
  BY SlotOwner, Zenon
<1>3. ASSUME NEW s \in Slots, Slot(s) PROVE CTypeOK'
  <2>1. CASE AskLease(s)
    <3>1. PICK h : slot' = [slot EXCEPT ![s] = [pc |-> "reply", ok |-> FALSE, h |-> h]]
      BY <2>1, Zenon DEF AskLease
    <3>2. h \in Leases
      BY <1>1, <2>1, <3>1, Granted, Zenon
    <3>3. slot' \in [Slots -> SlotState]
      BY <1>1, <3>1, <3>2, Zenon DEF SlotState, Busy
    <3>. QED BY <1>1, <2>1, <3>3, Zenon DEF AskLease, CTypeOK
  <2>2. CASE NoJob(s)
    BY <1>1, <2>2, Zenon DEF NoJob, CTypeOK
  <2>3. CASE JobOver(s)
    BY <1>1, <1>2, <2>3, Zenon DEF JobOver, CTypeOK
  <2>4. CASE UNCHANGED workers
    BY <2>4, Zenon DEF workers, CTypeOK
  <2>5. CASE ReplyArrives(s) \/ SlotEnds(s)
    BY <1>1, <2>5, SMTT(20) DEF ReplyArrives, SlotEnds, Goto, CTypeOK, SlotState, Busy
  <2>6. CASE DownloadOk(s)
    <3>1. slot[s].h \in Leases /\ slot[s].h.id \in Id
      BY <2>6, Zenon DEF DownloadOk, At, SlotInv, Busy, Leases
    <3>2. slot' \in [Slots -> SlotState]
      BY <1>1, <2>6 DEF DownloadOk, SlotState, Busy
    <3>3. running' \in [Workers -> SUBSET Id]
      BY <1>1, <1>2, <2>6, <3>1, Zenon DEF DownloadOk
    <3>. QED BY <1>1, <2>6, <3>2, <3>3, Zenon DEF DownloadOk, CTypeOK
  <2>7. CASE EngineEnds(s)
    <3>1. PICK ok \in BOOLEAN : slot' = [slot EXCEPT ![s].pc = "upload", ![s].ok = ok]
      BY <2>7, Zenon DEF EngineEnds
    <3>2. slot' = [slot EXCEPT ![s] = [slot[s] EXCEPT !.pc = "upload", !.ok = ok]]
      BY <1>1, <3>1, Zenon
    <3>3. slot' \in [Slots -> SlotState]
      BY <1>1, <3>2, Zenon DEF SlotState, Busy
    <3>. QED BY <1>1, <2>7, <3>3, Zenon DEF EngineEnds, CTypeOK
  <2>. QED
    BY <1>3, <2>1, <2>2, <2>3, <2>4, <2>5, <2>6, <2>7, Zenon
    DEF Slot, ReplyLost, ReplyUnreadable, ReplyBroken, ReplyToNobody, DownloadFails, UploadStart,
        UploadRefused, UploadHandled, UploadNotCommitted, UploadBroken, CrashInUpload, GiveUp, Answered
<1>4. CASE \E w \in Workers : Beat(w) \/ Stop(w) \/ BeatSeesStop(w) \/ Exit(w) \/ Kill(w)
  BY <1>1, <1>4, Zenon DEF Beat, Stop, BeatSeesStop, Exit, Kill, Gone, workers, CTypeOK
<1>5. CASE (Coordinator /\ UNCHANGED workers) \/ UNCHANGED cvars
  BY <1>5, Zenon DEF workers, cvars, CTypeOK
<1>. QED BY <1>3, <1>4, <1>5, Zenon DEF CNext

\* A slot that runs or uploads job i for worker w.
WorksOn(w, i, n) == slot[<<w, n>>].pc \in {"run", "upload"} /\ slot[<<w, n>>].h.id = i

\* A heartbeat keeps naming only jobs that a slot of its worker works on.
LEMMA BeatsSound ==
  ASSUME CTypeOK, CTypeOK', BeatsOnlyOwnWork, [CNext]_cvars PROVE BeatsOnlyOwnWork'
<1>1. slot \in [Slots -> SlotState] /\ running \in [Workers -> SUBSET Id] /\ alive \subseteq Workers
  BY Zenon DEF CTypeOK
<1>2. ASSUME NEW w \in alive, NEW i \in running[w] PROVE \E n \in SlotNo : WorksOn(w, i, n)
  BY Zenon DEF BeatsOnlyOwnWork, WorksOn
<1>3. ASSUME \A w \in alive' : \A i \in running'[w] : \E n \in SlotNo : WorksOn(w, i, n)'
      PROVE  BeatsOnlyOwnWork'
  BY <1>3, Zenon DEF BeatsOnlyOwnWork, WorksOn
\* A step that lets every working slot go on, and adds nothing to `running`.
<1>4. ASSUME alive' \subseteq alive, \A w \in Workers : running'[w] \subseteq running[w],
             \A w \in Workers, n \in SlotNo : \A i \in running'[w] : WorksOn(w, i, n) => WorksOn(w, i, n)'
      PROVE  BeatsOnlyOwnWork'
  BY <1>1, <1>2, <1>3, <1>4, Zenon
<1>5. ASSUME NEW s \in Slots, Slot(s) PROVE BeatsOnlyOwnWork'
  <2>0. s[1] \in Workers /\ s[2] \in SlotNo /\ s = <<s[1], s[2]>>
        /\ \A w \in Workers, n \in SlotNo : <<w, n>> \in Slots
    BY SlotOwner, Zenon DEF Slots
  <2>1. CASE slot[s].pc \notin {"run", "upload"} /\ running' = running /\ alive' = alive
             /\ \A t \in Slots : t # s => slot'[t] = slot[t]
    <3>1. ASSUME NEW w \in Workers, NEW n \in SlotNo, NEW i, WorksOn(w, i, n)
          PROVE  WorksOn(w, i, n)'
      BY <2>0, <2>1, <3>1, Zenon DEF WorksOn
    <3>. QED BY <1>4, <2>1, <3>1, Zenon
  <2>2. CASE JobOver(s)
    <3>1. /\ running' = [running EXCEPT ![s[1]] = running[s[1]] \ {slot[s].h.id}] /\ alive' = alive
          /\ \A t \in Slots : t # s => slot'[t] = slot[t]
      BY <1>1, <2>2, Zenon DEF JobOver
    <3>2. ASSUME NEW w \in Workers, NEW n \in SlotNo, NEW i \in running'[w], WorksOn(w, i, n)
          PROVE  WorksOn(w, i, n)'
      <4>1. <<w, n>> # s
        BY <1>1, <2>0, <3>1, <3>2 DEF WorksOn
      <4>. QED BY <2>0, <3>1, <3>2, <4>1, Zenon DEF WorksOn
    <3>3. \A w \in Workers : running'[w] \subseteq running[w]
      BY <1>1, <2>0, <3>1, Zenon
    <3>. QED BY <1>4, <3>1, <3>2, <3>3, Zenon
  <2>3. CASE DownloadOk(s)
    <3>1. /\ running' = [running EXCEPT ![s[1]] = running[s[1]] \cup {slot[s].h.id}] /\ alive' = alive
          /\ slot[s].pc = "download" /\ slot'[s].pc = "run" /\ slot'[s].h = slot[s].h
          /\ \A t \in Slots : t # s => slot'[t] = slot[t]
      BY <1>1, <2>3, Zenon DEF DownloadOk, At, SlotState
    <3>2. ASSUME NEW w \in Workers, NEW n \in SlotNo, NEW i, WorksOn(w, i, n)
          PROVE  WorksOn(w, i, n)'
      BY <2>0, <3>1, <3>2, Zenon DEF WorksOn
    <3>3. ASSUME NEW w \in alive', NEW i \in running'[w] PROVE \E n \in SlotNo : WorksOn(w, i, n)'
      <4>1. CASE i \in running[w]
        BY <1>1, <1>2, <3>1, <3>2, <4>1, Zenon
      <4>2. CASE i \notin running[w]
        <5>1. w = s[1] /\ i = slot[s].h.id
          BY <1>1, <2>0, <3>1, <3>3, <4>2, Zenon
        <5>2. WorksOn(w, i, s[2])'
          BY <2>0, <3>1, <5>1, Zenon DEF WorksOn
        <5>. QED BY <2>0, <5>2, Zenon
      <4>. QED BY <4>1, <4>2, Zenon
    <3>. QED BY <1>3, <3>3, Zenon
  <2>4. CASE EngineEnds(s)
    <3>1. /\ running' = running /\ alive' = alive
          /\ slot'[s].pc = "upload" /\ slot'[s].h = slot[s].h
          /\ \A t \in Slots : t # s => slot'[t] = slot[t]
      BY <1>1, <2>4 DEF EngineEnds, SlotState
    <3>2. ASSUME NEW w \in Workers, NEW n \in SlotNo, NEW i, WorksOn(w, i, n)
          PROVE  WorksOn(w, i, n)'
      BY <2>0, <3>1, <3>2, Zenon DEF WorksOn
    <3>. QED BY <1>4, <3>1, <3>2, Zenon
  <2>5. CASE UNCHANGED workers
    BY <1>4, <2>5, Zenon DEF workers, WorksOn
  <2>6. CASE \/ AskLease(s) \/ ReplyArrives(s) \/ ReplyLost(s) \/ ReplyUnreadable(s)
             \/ ReplyBroken(s) \/ DownloadFails(s) \/ SlotEnds(s)
    BY <1>1, <2>1, <2>6, Zenon DEF AskLease, ReplyArrives, ReplyLost, ReplyUnreadable, ReplyBroken,
                            DownloadFails, SlotEnds, NoJob, Goto, At
  <2>. QED
    BY <1>5, <2>2, <2>3, <2>4, <2>5, <2>6, Zenon
    DEF Slot, ReplyToNobody, UploadStart, UploadRefused, UploadHandled, UploadNotCommitted,
        UploadBroken, CrashInUpload, GiveUp, Answered
<1>6. CASE \/ Coordinator /\ UNCHANGED workers
           \/ \E w \in Workers : Beat(w) \/ Stop(w) \/ BeatSeesStop(w) \/ Exit(w) \/ Kill(w)
           \/ UNCHANGED cvars
  <2>1. slot' = slot /\ running' = running /\ alive' \subseteq alive
    BY <1>6, Zenon DEF Beat, Stop, BeatSeesStop, Exit, Kill, Gone, workers, cvars
  <2>. QED BY <1>4, <2>1, Zenon DEF WorksOn
<1>. QED BY <1>5, <1>6, Zenon DEF CNext

-----------------------------------------------------------------------------
(* The theorems *)

\* The cluster starts with idle workers and an empty queue.
LEMMA CInitInv == CInit => CIInv
<1> SUFFICES ASSUME CInit PROVE CIInv
  BY Zenon
<1>1. IInv
  BY InitInv, Zenon DEF CInit
<1>2. CTypeOK
  BY Zenon DEF CInit, CTypeOK, Idle, SlotState
<1>3. SlotInv /\ LeaseExclusive /\ BeatsOnlyOwnWork
  BY Zenon DEF CInit, SlotInv, LeaseExclusive, BeatsOnlyOwnWork, Idle, Busy
<1>. QED BY <1>1, <1>2, <1>3, Zenon DEF CIInv

\* Every step of the cluster preserves the invariant.
LEMMA CNextInv == CIInv /\ [CNext]_cvars => CIInv' /\ [Next]_vars
<1> SUFFICES ASSUME CIInv, [CNext]_cvars PROVE CIInv' /\ [Next]_vars
  BY Zenon
<1>1. [Next]_vars
  BY UsesQueue, Zenon DEF CIInv
<1>2. IInv'
  BY <1>1, NextInv, Zenon DEF CIInv
<1>3. CTypeOK' /\ SlotInv' /\ LeaseExclusive'
  BY WorkerTypes, SlotsSound, Zenon DEF CIInv
<1>4. BeatsOnlyOwnWork'
  BY <1>3, BeatsSound, Zenon DEF CIInv
<1>. QED BY <1>1, <1>2, <1>3, <1>4, Zenon DEF CIInv

\* The invariant of the cluster.
THEOREM CInvariance == CSpec => []CIInv
<1>. QED BY CInitInv, CNextInv, PTL DEF CSpec

\* Real workers, with lost replies, stops and kills, drive the queue only through steps of
\* module Coord: what is proved of the queue alone (fencing, retries, durability, the
\* promise to submitters) holds in the cluster.
THEOREM ClusterIsQueue == CSpec => Spec
<1>1. CInit => Init
  BY Zenon DEF CInit
<1>. QED BY <1>1, CInitInv, CNextInv, PTL DEF CSpec, Spec

\* No lease is ever worked on in two slots, for any number of workers and slots and any
\* pattern of lost replies, expiries and hand-overs.
THEOREM OneSlotPerLease == CSpec => []LeaseExclusive
<1>1. CIInv => LeaseExclusive
  BY Zenon DEF CIInv
<1>. QED BY <1>1, CInvariance, PTL

\* Heartbeats never keep alive a job that no slot of the worker runs or uploads.
THEOREM BeatsForWork == CSpec => []BeatsOnlyOwnWork
<1>1. CIInv => BeatsOnlyOwnWork
  BY Zenon DEF CIInv
<1>. QED BY <1>1, CInvariance, PTL

-----------------------------------------------------------------------------
(* The API requests *)

(* What a step of the queue may do to a row that a client waits for *)

\* A row keeps its content until it is deleted, a finished one stays finished, and its
\* output is not replaced any more.
Kept(i) ==
  /\ jobs'[i].state # "none" =>
       jobs[i].state # "none" /\ jobs'[i].content = jobs[i].content /\ jobs'[i].hot = jobs[i].hot
  /\ jobs[i].state \in Terminal \cup {"none"} =>
       jobs'[i].state \in Terminal \cup {"none"} /\ out'[i] \in {out[i], NoRun}

\* A row that is not old is not purged behind a reader's back.
Spares(i) == (jobs[i].purged => jobs[i].old) => (jobs'[i].purged => jobs'[i].old)

\* The rows below `next`, all of them kept and, except for those in R, spared.
Steady(R) ==
  /\ OkIsDone' /\ next' >= next
  /\ \A i \in Id : i < next => Kept(i) /\ (i \notin R => Spares(i))

\* Steps that leave the table alone and at most remove an output.
LEMMA SameTable ==
  ASSUME IInv, OkIsDone, jobs' = jobs, next' = next, \A i \in Id : out'[i] \in {out[i], NoRun}
  PROVE  Steady({})
BY DEF Steady, Kept, Spares, OkIsDone, IInv, TypeOK

\* A step that writes one row.
LEMMA OneRow ==
  ASSUME IInv, OkIsDone, NEW i \in Id, NEW n, jobs' = [jobs EXCEPT ![i] = n], next' = next,
         \A k \in Id : k # i => out'[k] = out[k],
         n.result \in Run /\ n.result.ok => n.state = "done",
         NEW R, Kept(i), i \in R \/ Spares(i)
  PROVE  Steady(R)
<1>1. jobs'[i] = n /\ \A k \in Id : k # i => jobs'[k] = jobs[k]
  BY Zenon DEF IInv, TypeOK
<1>2. OkIsDone' /\ \A k \in Id : Kept(k) /\ (k \notin R => Spares(k))
  BY <1>1 DEF OkIsDone, Kept, Spares
<1>. QED BY <1>2 DEF Steady, IInv, TypeOK

\* finish() writes a successful run only as done.
LEMMA FinishSteady ==
  ASSUME IInv, OkIsDone, NEW i \in Id, NEW r \in Results, SetFinished(i, r), next' = next,
         jobs[i].state \in {"queued", "running"}, \A k \in Id : k # i => out'[k] = out[k]
  PROVE  Steady({})
<1> DEFINE n == FinishedRow(jobs[i], r)
<1>1. jobs[i] \in Row /\ n.state = FinishedState(r) /\ n.state \in Terminal /\ n.result = r
      /\ n.content = jobs[i].content /\ n.hot = jobs[i].hot /\ n.purged = jobs[i].purged
  BY FinishedRowFields DEF IInv, TypeOK
<1>2. jobs' = [jobs EXCEPT ![i] = n] /\ jobs'[i] = n
  BY Zenon DEF SetFinished, IInv, TypeOK
<1>3. ~jobs[i].purged
  BY Zenon DEF IInv, RowInv, Terminal
<1>4. n.result \in Run /\ n.result.ok => n.state = "done"
  BY <1>1, Zenon DEF FinishedState
<1>. HIDE DEF n
<1>5. Kept(i) /\ Spares(i)
  BY <1>1, <1>2, <1>3, Zenon DEF Kept, Spares, Terminal
<1>. QED BY <1>2, <1>4, <1>5, OneRow, Zenon

\* finish() of a job that was given up does so too, or changes nothing.
LEMMA FinishLostSteady ==
  ASSUME IInv, OkIsDone, NEW i \in Id, NEW r \in Results, FinishLost(i, r), next' = next, out' = out
  PROVE  Steady({})
<1>1. jobs[i].state \in {"none", "queued", "running"} \cup Terminal
  BY Zenon DEF IInv, TypeOK, Row
<1>. QED BY <1>1, FinishSteady, SameTable, Zenon DEF FinishLost

\* The workers and the coordinator's own loops keep every row, and spare every reader.
LEMMA WorkSteady == ASSUME IInv, OkIsDone, Work PROVE Steady({})
<1>. leasing \subseteq Leases /\ staging \subseteq Leases /\ (\A h \in Leases : h.id \in Id)
     /\ (\A e \in reaping : e.id \in Id) /\ \A i \in Id : jobs[i] \in Row
  BY Zenon DEF IInv, TypeOK, Leases
<1>1. ASSUME NEW w \in Workers, NEW i \in Id, Lease(w, i) PROVE Steady({})
  <2> DEFINE n == LeasedRow(jobs[i], w)
  <2>1. jobs[i].state = "queued" /\ jobs[i].attempts < MaxAttempts /\ jobs[i].result = NoRun /\ ~jobs[i].purged
    BY <1>1, Zenon DEF Lease, IInv, RowInv, Terminal
  <2>2. n.state = "running" /\ n.result = NoRun /\ n.content = jobs[i].content /\ n.hot = jobs[i].hot
        /\ ~n.purged
    BY <2>1, LeasedRowFields
  <2>3. jobs' = [jobs EXCEPT ![i] = n] /\ jobs'[i] = n /\ next' = next /\ out' = out
    BY <1>1, Zenon DEF Lease, IInv, TypeOK
  <2>. HIDE DEF n
  <2>4. Kept(i) /\ Spares(i)
    BY <2>1, <2>2, <2>3, Zenon DEF Kept, Spares, Terminal
  <2>. QED BY <2>2, <2>3, <2>4, OneRow, NullAssumption, Zenon
<1>2. CASE \/ \E h \in leasing : LeaseSent(h)
           \/ \E h \in Leases : CompleteStart(h)
           \/ \E h \in staging : CompleteAbort(h)
           \/ ReapSelect \/ JanitorSelect \/ Open \/ Serve
  <2>1. UNCHANGED <<jobs, next, out>>
    BY <1>2, Zenon DEF LeaseSent, CompleteStart, CompleteAbort, ReapSelect, JanitorSelect, Open, Serve, disk
  <2>. QED BY <2>1, SameTable, Zenon
<1>3. ASSUME NEW h \in leasing, LeaseUnreadable(h) PROVE Steady({})
  BY <1>3, FinishLostSteady, Zenon DEF LeaseUnreadable, Results
<1>4. ASSUME NEW i \in Id, LeaseExpires(i) \/ Age(i) \/ JanitorMark(i) PROVE Steady({})
  <2>1. \E n \in {[jobs[i] EXCEPT !.lease = "expired"], [jobs[i] EXCEPT !.old = TRUE],
                  [jobs[i] EXCEPT !.purged = TRUE]} :
          jobs' = [jobs EXCEPT ![i] = n] /\ (n.purged => n.old \/ jobs[i].purged) /\ (jobs[i].old => n.old)
    <3>1. CASE LeaseExpires(i)
      <4>1. jobs' = [jobs EXCEPT ![i] = [jobs[i] EXCEPT !.lease = "expired"]]
        BY <3>1, Zenon DEF LeaseExpires, IInv, TypeOK
      <4>. QED BY <4>1, Zenon DEF Row
    <3>2. CASE Age(i)
      <4>1. jobs' = [jobs EXCEPT ![i] = [jobs[i] EXCEPT !.old = TRUE]]
        BY <3>2, Zenon DEF Age, IInv, TypeOK
      <4>. QED BY <4>1, Zenon DEF Row
    <3>3. CASE JanitorMark(i)
      <4>1. jobs' = [jobs EXCEPT ![i] = [jobs[i] EXCEPT !.purged = TRUE]] /\ jobs[i].old
        BY <3>3, Zenon DEF JanitorMark, IInv, TypeOK, PurgeInv
      <4>. QED BY <4>1, Zenon DEF Row
    <3>. QED BY <1>4, <3>1, <3>2, <3>3, Zenon
  <2>. PICK n \in {[jobs[i] EXCEPT !.lease = "expired"], [jobs[i] EXCEPT !.old = TRUE],
                   [jobs[i] EXCEPT !.purged = TRUE]} :
          jobs' = [jobs EXCEPT ![i] = n] /\ (n.purged => n.old \/ jobs[i].purged) /\ (jobs[i].old => n.old)
    BY <2>1, Zenon
  <2>2. n.state = jobs[i].state /\ n.result = jobs[i].result /\ n.content = jobs[i].content
        /\ n.hot = jobs[i].hot
    BY Zenon DEF Row
  <2>3. jobs'[i] = n /\ next' = next /\ out' = out
    BY <1>4, Zenon DEF LeaseExpires, Age, JanitorMark, IInv, TypeOK
  <2>4. Kept(i) /\ Spares(i)
    BY <2>2, <2>3, Zenon DEF Kept, Spares
  <2>. QED BY <2>2, <2>3, <2>4, OneRow, Zenon DEF OkIsDone
<1>5. ASSUME NEW h \in staging, NEW ok \in BOOLEAN, CompleteFinish(h, ok) PROVE Steady({})
  <2>1. CASE Holds(h)
    <3>1. RunOf(h, ok) \in Results /\ RunOf(h, ok) \in Run
      BY RunOfFields, Zenon DEF IInv
    <3>2. \A k \in Id : k # h.id => out'[k] = out[k]
      BY <1>5, <2>1, Zenon DEF CompleteFinish, Staged, IInv, TypeOK
    <3>. QED BY <1>5, <2>1, <3>1, <3>2, FinishSteady, Zenon DEF CompleteFinish, Holds
  <2>2. CASE ~Holds(h)
    BY <1>5, <2>2, SameTable, Zenon DEF CompleteFinish
  <2>. QED BY <2>1, <2>2, Zenon
<1>6. ASSUME NEW e \in reaping, ReapOne(e) PROVE Steady({})
  <2>1. CASE FinishLost(e.id, WorkerLost)
    BY <1>6, <2>1, FinishLostSteady, Zenon DEF ReapOne, Results
  <2>2. CASE Requeue(e.id) /\ jobs[e.id].state = "running"
    <3> DEFINE n == RequeuedRow(jobs[e.id])
    <3>1. n.state = "queued" /\ n.result = jobs[e.id].result /\ n.content = jobs[e.id].content
          /\ n.hot = jobs[e.id].hot /\ n.purged = jobs[e.id].purged /\ jobs[e.id].result = NoRun
          /\ ~jobs[e.id].purged
      BY <2>2, RequeuedRowFields, Zenon DEF IInv, RowInv, Terminal
    <3>2. jobs' = [jobs EXCEPT ![e.id] = n] /\ jobs'[e.id] = n /\ next' = next /\ out' = out
      BY <1>6, <2>2, Zenon DEF ReapOne, Requeue, IInv, TypeOK
    <3>. HIDE DEF n
    <3>3. Kept(e.id) /\ Spares(e.id)
      BY <2>2, <3>1, <3>2, Zenon DEF Kept, Spares, Terminal
    <3>. QED BY <3>1, <3>2, <3>3, OneRow, NullAssumption, Zenon
  <2>3. CASE Requeue(e.id) /\ jobs[e.id].state # "running"
    BY <1>6, <2>3, SameTable, Zenon DEF ReapOne, Requeue
  <2>. QED BY <1>6, <2>1, <2>2, <2>3, Zenon DEF ReapOne
<1>7. ASSUME NEW i \in Id, JanitorRemove(i) PROVE Steady({})
  BY <1>7, SameTable, Zenon DEF JanitorRemove, IInv, TypeOK
<1>8. ASSUME NEW D \in SUBSET Id, JanitorDelete(D) PROVE Steady({})
  <2>1. \A k \in Id : jobs'[k] = IF k \in D THEN NoRow ELSE jobs[k]
    BY <1>8, Zenon DEF JanitorDelete
  <2>2. next' = next /\ out' = out
    BY <1>8, Zenon DEF JanitorDelete
  <2>. QED BY <2>1, <2>2, NoRowFields, NullAssumption DEF Steady, Kept, Spares, OkIsDone, IInv, TypeOK
<1>. QED BY <1>1, <1>2, <1>3, <1>4, <1>5, <1>6, <1>7, <1>8, Zenon DEF Work

\* A submission leaves the earlier rows alone; its own row has the request's content.
LEMMA SubmitSteady ==
  ASSUME IInv, OkIsDone, NEW c \in Contents, NEW dedupe \in BOOLEAN, Submit(c, FALSE, dedupe)
  PROVE  /\ Steady({}) /\ next \in Id /\ next' = next + 1
         /\ jobs'[next].content = c /\ ~jobs'[next].hot /\ ~jobs'[next].purged
<1> DEFINE new == NewRow(c, FALSE, dedupe)
<1>1. new \in Row /\ new.state = "queued" /\ new.result = NoRun /\ new.content = c /\ ~new.hot /\ ~new.purged
  BY NewRowFields, Zenon
<1>2. next \in Id /\ next \in Int /\ next' = next + 1 /\ jobs \in [Id -> Row] /\ out \in [Id -> Run \cup {NoRun}]
  BY MaxIdAssumption DEF Submit, Id, IInv, TypeOK
<1>. HIDE DEF new
<1>3. ASSUME NEW n, jobs' = [jobs EXCEPT ![next] = n], \A k \in Id : k # next => out'[k] = out[k],
             n.result \in Run /\ n.result.ok => n.state = "done",
             n.content = c, ~n.hot, ~n.purged
      PROVE  Steady({}) /\ jobs'[next].content = c /\ ~jobs'[next].hot /\ ~jobs'[next].purged
  <2>1. jobs'[next] = n /\ \A k \in Id : k # next => jobs'[k] = jobs[k]
    BY <1>2, <1>3, Zenon
  <2>2. OkIsDone' /\ \A k \in Id : k # next => Kept(k) /\ Spares(k)
    BY <1>3, <2>1, Zenon DEF OkIsDone, Kept, Spares
  <2>3. \A k \in Id : k < next => k # next
    BY <1>2 DEF Id
  <2>. QED BY <1>2, <1>3, <2>1, <2>2, <2>3 DEF Steady
<1>4. CASE jobs' = [jobs EXCEPT ![next] = new] /\ out' = out
  BY <1>1, <1>2, <1>3, <1>4, NullAssumption, Zenon
<1>5. ASSUME NEW p \in DedupeHits(c), jobs' = [jobs EXCEPT ![next] = CachedRow(new, p)],
             out' = [out EXCEPT ![next] = IF c \in Converts THEN out[p] ELSE NoRun]
      PROVE  Steady({}) /\ jobs'[next].content = c /\ ~jobs'[next].hot /\ ~jobs'[next].purged
  <2>1. p \in Id
    BY Zenon DEF DedupeHits
  <2>2. LET n == CachedRow(new, p) IN n.state = "done" /\ n.content = c /\ ~n.hot /\ ~n.purged
    BY <1>1, <2>1, CachedRowFields DEF IInv
  <2>. QED BY <1>2, <1>3, <1>5, <2>2, Zenon
<1>. QED BY <1>2, <1>4, <1>5, Zenon DEF Submit, new

\* release() writes the row it is for, and no other.
LEMMA ReleaseSteady ==
  ASSUME IInv, OkIsDone, NEW i \in Id, Release(i) PROVE Steady({i})
<1>1. jobs[i] \in Row /\ jobs[i].state \in Terminal /\ next' = next /\ jobs \in [Id -> Row]
      /\ \A k \in Id : k # i => out'[k] = out[k]
  BY Zenon DEF Release, IInv, TypeOK
<1>2. \E n \in {[jobs[i] EXCEPT !.delivered = TRUE], ReleasedRow(jobs[i])} : jobs' = [jobs EXCEPT ![i] = n]
  BY <1>1, Zenon DEF Release
<1>. PICK n \in {[jobs[i] EXCEPT !.delivered = TRUE], ReleasedRow(jobs[i])} : jobs' = [jobs EXCEPT ![i] = n]
  BY <1>2, Zenon
<1>3. n.state = jobs[i].state /\ n.result = jobs[i].result /\ n.content = jobs[i].content /\ n.hot = jobs[i].hot
  BY <1>1, Zenon DEF ReleasedRow, Row
<1>4. jobs'[i] = n /\ out'[i] \in {out[i], NoRun}
  BY <1>1, Zenon DEF Release, IInv, TypeOK
<1>5. Kept(i)
  BY <1>1, <1>3, <1>4, Zenon DEF Kept
<1>. QED BY <1>1, <1>3, <1>5, OneRow, Zenon DEF OkIsDone

\* Every step of the queue that the requests share keeps the queue's invariant.
LEMMA QueueInv ==
  ASSUME IInv, \/ Work \/ Crash \/ CrashInSubmit(FALSE) \/ (\E i \in Id : Release(i)) \/ UNCHANGED vars
               \/ \E c \in Contents, dedupe \in BOOLEAN : Submit(c, FALSE, dedupe)
  PROVE  IInv'
<1>1. Work => Next
  BY Zenon DEF Work, Next
<1>2. Crash \/ (\E i \in Id : Release(i)) => Next
  BY Zenon DEF Next
<1>. QED BY <1>1, <1>2, NextInv, SubmitInv, CrashInSubmitInv, Zenon

-----------------------------------------------------------------------------
(* The requests *)

\* A request that takes no step itself keeps what holds of it.
LEMMA ClientKept ==
  ASSUME AInv, IInv', NEW R, Steady(R), NEW c \in Clients, client'[c] = client[c],
         client[c].pc \in Reading => client[c].id \notin R
  PROVE  ClientInv(c)'
<1> DEFINE i == client[c].id
<1>1. ClientInv(c) /\ i \in Id \cup {NoTicket} /\ next \in Int /\ next' >= next /\ next' \in Int
  BY MaxIdAssumption DEF AInv, IInv, TypeOK, ClientsOK, Steady
<1>2. NeedsPdf(c)' <=> NeedsPdf(c)
  BY Zenon DEF NeedsPdf
<1>3. ASSUME i # NoTicket
      PROVE  /\ i < next' /\ Kept(i) /\ (client[c].pc \in Reading => Spares(i))
             /\ jobs'[i].state # "none" => jobs'[i].content = Wants[c].content /\ ~jobs'[i].hot
             /\ client[c].pc \in Reading /\ jobs'[i].purged => jobs'[i].old
  <2>1. i \in Id /\ i < next /\ i < next'
    BY <1>1, <1>3, MaxIdAssumption DEF ClientInv, Id
  <2>2. Kept(i) /\ (client[c].pc \in Reading => Spares(i))
    BY <2>1, Zenon DEF Steady
  <2>. QED BY <1>1, <1>3, <2>1, <2>2, Zenon DEF ClientInv, Job, Kept, Spares
<1>4. client[c].pc = "respond" =>
        /\ jobs'[i].state \in Terminal \cup {"none"}
        /\ NeedsPdf(c) => out'[i] \in {NoRun, client[c].got}
  BY <1>1, <1>3, Zenon DEF ClientInv, Job, Kept, Reading
<1>. QED BY <1>1, <1>2, <1>3, <1>4, Zenon DEF ClientInv, Job

\* When one request takes a step, the others keep theirs.
LEMMA OneClient ==
  ASSUME AInv, IInv', ClientsOK', NEW R, Steady(R), NEW c \in Clients, \A i \in R : i = client[c].id,
         \A d \in Clients : d # c => client'[d] = client[d],
         client'[c].id = client[c].id \/ client'[c].id = next,
         ClientInv(c)'
  PROVE  AInv'
<1>2. ASSUME NEW d \in Clients, d # c PROVE ClientInv(d)'
  <2>1. client[d].pc \in Reading => client[d].id # NoTicket
    BY Zenon DEF AInv, ClientInv
  <2>2. client[d].pc \in Reading => client[d].id \notin R
    BY <1>2, <2>1, Zenon DEF AInv
  <2>. QED BY <1>2, <2>2, ClientKept, Zenon
<1>3. \A d \in Clients : client[d].id # NoTicket => client[d].id # next
  BY MaxIdAssumption DEF AInv, ClientInv, ClientsOK, Id, NoTicket
<1>4. ASSUME NEW d \in Clients, NEW e \in Clients, client'[d].id # NoTicket, client'[d].id = client'[e].id
      PROVE  d = e
  BY <1>3, <1>4 DEF AInv
<1>. QED BY <1>2, <1>4, Zenon DEF AInv, Steady

\* A request moves on by itself: what its new place asks for is what it had to have.
LEMMA GotoInv ==
  ASSUME AInv, NEW c \in Clients, NEW pc, ClientTo(c, pc), UNCHANGED vars,
         pc \in {"poll", "download", "ack", "answer"} \cup Final,
         pc \in {"poll", "download", "ack"} => client[c].id # NoTicket,
         pc \in Reading => client[c].pc \in Reading,
         pc \in Fetched => client[c].pc \in Fetched,
         pc = "answered" => client[c].pc \in Fetched /\ Outcome(c) = "answered"
  PROVE  AInv'
<1> DEFINE new == [client[c] EXCEPT !.pc = pc]
<1>1. client[c] \in [pc: {"new"} \cup Reading \cup Fetched \cup Final, id: Id \cup {NoTicket},
                     got: Results, pdf: Run \cup {NoRun}]
      /\ ClientInv(c)
  BY Zenon DEF AInv, ClientsOK
<1>2. /\ new \in [pc: {"new"} \cup Reading \cup Fetched \cup Final, id: Id \cup {NoTicket},
                  got: Results, pdf: Run \cup {NoRun}]
      /\ new.pc = pc /\ new.id = client[c].id /\ new.got = client[c].got /\ new.pdf = client[c].pdf
  BY <1>1, Zenon DEF Reading, Fetched
<1>3. client'[c] = new /\ (\A d \in Clients : d # c => client'[d] = client[d]) /\ ClientsOK'
  BY <1>2, Zenon DEF ClientTo, AInv, ClientsOK
<1>. HIDE DEF new
<1>4. UNCHANGED <<jobs, next, out>> /\ IInv' /\ Steady({})
  BY QueueInv, SameTable, Zenon DEF AInv, vars, disk
<1>5. NeedsPdf(c)' <=> NeedsPdf(c)
  BY <1>2, <1>3, Zenon DEF NeedsPdf
<1>6. pc = "answered" /\ NeedsPdf(c) => client[c].pdf = client[c].got
  BY <1>1, Zenon DEF Outcome, ClientInv
<1>7. ClientInv(c)'
  BY <1>1, <1>2, <1>3, <1>4, <1>5, <1>6 DEF ClientInv, Job, Reading, Fetched, Final
<1>8. \A i \in {} : i = client[c].id
  BY Zenon
<1>. QED BY <1>2, <1>3, <1>4, <1>7, <1>8, OneClient

\* A request that reads the result of a finished job reads that of its own content.
LEMMA ReadResult ==
  ASSUME AInv, NEW c \in Clients, client[c].pc \in Reading, Finished(c) \/ Job(c).state = "none"
  PROVE  /\ client[c].id \in Id /\ Job(c).result \in Results /\ out[client[c].id] \in Run \cup {NoRun}
         /\ Job(c).result \in Run => Job(c).result.content = Wants[c].content
         /\ Job(c).result \in Run /\ Job(c).result.ok /\ Wants[c].content \in Converts =>
              out[client[c].id] \in {NoRun, Job(c).result}
<1> DEFINE i == client[c].id
<1>1. i \in Id /\ ClientInv(c) /\ jobs[i] \in Row
  BY DEF AInv, IInv, TypeOK, ClientsOK, ClientInv
<1>2. jobs[i].result \in Run => jobs[i].state # "none" /\ jobs[i].result.content = jobs[i].content
  BY <1>1, NullAssumption, Zenon DEF AInv, IInv, RowInv, ResultForOwnContent, Terminal
<1>3. jobs[i].state # "none" => jobs[i].content = Wants[c].content
  BY <1>1, Zenon DEF AInv, ClientInv, Job, ClientsOK, NoTicket, Reading
<1>4. jobs[i].result \in Run /\ jobs[i].result.ok => jobs[i].state = "done"
  BY <1>1, Zenon DEF AInv, OkIsDone
<1>5. out[i] \in Run \cup {NoRun} /\ (out[i] # NoRun => i \in dirs)
      /\ (jobs[i].state = "done" /\ jobs[i].content \in Converts /\ i \in dirs => out[i] = jobs[i].result)
  BY <1>1, Zenon DEF AInv, IInv, TypeOK, FolderInv, ResultKept
<1>6. jobs[i].result \in Results
  BY <1>1, Zenon DEF Row
<1>. QED BY <1>1, <1>2, <1>3, <1>4, <1>5, <1>6, Zenon DEF Job

\* The handler of a direct request gets the result, or learns that the job vanished; a front
\* end gets it with the files that are there.
LEMMA FetchInv ==
  ASSUME AInv, NEW c \in Clients, Waited(c) \/ Polled(c) \/ Respond(c) PROVE AInv'
<1> DEFINE i == client[c].id
<1>1. client[c] \in [pc: {"new"} \cup Reading \cup Fetched \cup Final, id: Id \cup {NoTicket},
                     got: Results, pdf: Run \cup {NoRun}]
      /\ ClientInv(c) /\ client[c].pc \in Reading /\ i # NoTicket
  BY Zenon DEF AInv, ClientsOK, Waited, Polled, Respond, ClientAt, Reading, ClientInv
<1>2. UNCHANGED <<jobs, next, out>> /\ IInv' /\ Steady({})
  BY QueueInv, SameTable, Zenon DEF AInv, vars, disk, Waited, Polled, Respond
<1>3. ASSUME NEW new \in [pc: {"new"} \cup Reading \cup Fetched \cup Final, id: Id \cup {NoTicket},
                          got: Results, pdf: Run \cup {NoRun}],
             client' = [client EXCEPT ![c] = new], new.id = i,
             new.pc \in {"respond", "release", "encode"},
             new.got \in Run => new.got.content = Wants[c].content,
             new.pc = "respond" =>
               /\ jobs[i].state \in Terminal \cup {"none"}
               /\ new.got \in Run /\ new.got.ok /\ Wants[c].content \in Converts => out[i] \in {NoRun, new.got},
             new.pc # "respond" =>
               (new.got \in Run /\ new.got.ok /\ Wants[c].content \in Converts => new.pdf \in {NoRun, new.got})
      PROVE  AInv'
  <2>1. client'[c] = new /\ (\A d \in Clients : d # c => client'[d] = client[d]) /\ ClientsOK'
    BY <1>3, Zenon DEF AInv, ClientsOK
  <2>2. NeedsPdf(c)' <=> new.got \in Run /\ new.got.ok /\ Wants[c].content \in Converts
    BY <2>1, Zenon DEF NeedsPdf
  <2>3. ClientInv(c)'
    BY <1>1, <1>2, <1>3, <2>1, <2>2, Zenon DEF ClientInv, Job, Reading, Fetched
  <2>4. \A k \in {} : k = client[c].id
    BY Zenon
  <2>. QED BY <1>2, <1>3, <2>1, <2>3, <2>4, OneClient
<1>4. CASE Waited(c)
  <2> DEFINE new == [client[c] EXCEPT !.pc = "respond", !.got = Job(c).result]
  <2>1. new \in [pc: {"new"} \cup Reading \cup Fetched \cup Final, id: Id \cup {NoTicket},
                 got: Results, pdf: Run \cup {NoRun}]
        /\ new.pc = "respond" /\ new.id = i /\ new.got = Job(c).result
    BY <1>1, <1>4, ReadResult, Zenon DEF Waited, Reading
  <2>2. client' = [client EXCEPT ![c] = new]
    BY <1>4, Zenon DEF Waited, AInv, ClientsOK
  <2>. HIDE DEF new
  <2>. QED BY <1>1, <1>3, <1>4, <2>1, <2>2, ReadResult, Zenon DEF Waited, Finished, Job
<1>5. CASE Polled(c)
  <2> DEFINE new == [client[c] EXCEPT !.pc = "encode", !.got = Job(c).result, !.pdf = out[i]]
  <2>1. new \in [pc: {"new"} \cup Reading \cup Fetched \cup Final, id: Id \cup {NoTicket},
                 got: Results, pdf: Run \cup {NoRun}]
        /\ new.pc = "encode" /\ new.id = i /\ new.got = Job(c).result /\ new.pdf = out[i]
    BY <1>1, <1>5, ReadResult, Zenon DEF Polled, Reading
  <2>2. client' = [client EXCEPT ![c] = new]
    BY <1>5, Zenon DEF Polled, AInv, ClientsOK
  <2>. HIDE DEF new
  <2>. QED BY <1>1, <1>3, <1>5, <2>1, <2>2, ReadResult, Zenon DEF Polled
<1>6. CASE Respond(c)
  <2> DEFINE new == [client[c] EXCEPT !.pc = "release", !.pdf = IF NeedsPdf(c) THEN out[i] ELSE NoRun]
  <2>0. out[i] \in Run \cup {NoRun}
    BY <1>1, Zenon DEF AInv, IInv, TypeOK
  <2>1. new \in [pc: {"new"} \cup Reading \cup Fetched \cup Final, id: Id \cup {NoTicket},
                 got: Results, pdf: Run \cup {NoRun}]
        /\ new.pc = "release" /\ new.id = i /\ new.got = client[c].got
        /\ new.pdf = IF NeedsPdf(c) THEN out[i] ELSE NoRun
    BY <1>1, <2>0, Zenon DEF Fetched
  <2>2. client' = [client EXCEPT ![c] = new]
    BY <1>6, Zenon DEF Respond, AInv, ClientsOK
  <2>3. client[c].pc = "respond"
    BY <1>6, Zenon DEF Respond, ClientAt
  <2>. HIDE DEF new
  <2>. QED BY <1>1, <1>3, <2>1, <2>2, <2>3, Zenon DEF ClientInv, NeedsPdf
<1>. QED BY <1>4, <1>5, <1>6, Zenon

\* A submission that is answered, or whose answer is lost, has a job of its own.
LEMMA SubmittedInv ==
  ASSUME AInv, NEW c \in Clients, Submitted(c) \/ SubmitReplyLost(c) PROVE AInv'
<1> DEFINE k == Wants[c].content
<1>1. k \in Contents /\ Wants[c].dedupe \in BOOLEAN /\ Submit(k, FALSE, Wants[c].dedupe)
      /\ client[c] \in [pc: {"new"} \cup Reading \cup Fetched \cup Final, id: Id \cup {NoTicket},
                        got: Results, pdf: Run \cup {NoRun}]
      /\ ClientInv(c)
  BY ClientsAssumption, Zenon DEF Submitted, SubmitReplyLost, SubmitFor, AInv, ClientsOK
<1>2. IInv' /\ Steady({}) /\ next \in Id /\ next' = next + 1
      /\ jobs'[next].content = k /\ ~jobs'[next].hot /\ ~jobs'[next].purged
  BY <1>1, QueueInv, SubmitSteady, Zenon DEF AInv
<1>3. /\ client'[c].id = next /\ client'[c].pc \in {"wait", "poll", "error"}
      /\ client'[c].got \in Run => client'[c].got.content = k
      /\ ClientsOK' /\ \A d \in Clients : d # c => client'[d] = client[d]
  <2>1. CASE Submitted(c)
    <3> DEFINE new == [New EXCEPT !.pc = IF c \in Direct THEN "wait" ELSE "poll", !.id = next]
    <3>1. new \in [pc: {"new"} \cup Reading \cup Fetched \cup Final, id: Id \cup {NoTicket},
                   got: Results, pdf: Run \cup {NoRun}]
          /\ new.id = next /\ new.pc \in {"wait", "poll"} /\ new.got = NoRun
      BY <1>2, Zenon DEF New, Reading, Results
    <3>2. client' = [client EXCEPT ![c] = new]
      BY <2>1, Zenon DEF Submitted
    <3>. HIDE DEF new
    <3>. QED BY <3>1, <3>2, NullAssumption, Zenon DEF AInv, ClientsOK
  <2>2. CASE SubmitReplyLost(c)
    <3> DEFINE new == [client[c] EXCEPT !.pc = "error", !.id = next]
    <3>1. new \in [pc: {"new"} \cup Reading \cup Fetched \cup Final, id: Id \cup {NoTicket},
                   got: Results, pdf: Run \cup {NoRun}]
          /\ new.id = next /\ new.pc = "error" /\ new.got = client[c].got
      BY <1>1, <1>2, Zenon DEF Final
    <3>2. client' = [client EXCEPT ![c] = new]
      BY <2>2, Zenon DEF SubmitReplyLost, AInv, ClientsOK
    <3>. HIDE DEF new
    <3>. QED BY <1>1, <3>1, <3>2, Zenon DEF AInv, ClientsOK, ClientInv
  <2>. QED BY <2>1, <2>2, Zenon
<1>4. next \in Int /\ next < next' /\ next # NoTicket
  BY <1>2, MaxIdAssumption DEF Id, NoTicket
<1>5. ClientInv(c)'
  BY <1>2, <1>3, <1>4, Zenon DEF ClientInv, Job, Fetched
<1>6. IInv' /\ Steady({}) /\ \A i \in {} : i = client[c].id
  BY <1>2, Zenon
<1>7. client'[c].id = next /\ ClientsOK' /\ \A d \in Clients : d # c => client'[d] = client[d]
  BY <1>3, Zenon
<1>. HIDE DEF k
<1>. QED BY <1>5, <1>6, <1>7, OneClient

\* release() and the acknowledgement take away the result of the one request that has read it.
LEMMA ReleasedInv ==
  ASSUME AInv, NEW c \in Clients, Released(c) \/ Acked(c) PROVE AInv'
<1> DEFINE i == client[c].id
<1>1. client[c] \in [pc: {"new"} \cup Reading \cup Fetched \cup Final, id: Id \cup {NoTicket},
                     got: Results, pdf: Run \cup {NoRun}]
      /\ ClientInv(c) /\ client[c].pc \in {"release", "ack"} /\ i \in Id /\ i # NoTicket
  BY DEF AInv, ClientsOK, ClientInv, Released, Acked, ClientAt
<1>2. IInv' /\ Steady({i})
  <2>1. CASE UNCHANGED vars
    <3>1. IInv' /\ Steady({})
      BY <2>1, QueueInv, SameTable, Zenon DEF AInv, vars, disk
    <3>. QED BY <3>1, Zenon DEF Steady
  <2>2. CASE Release(i)
    BY <1>1, <2>2, QueueInv, ReleaseSteady, Zenon DEF AInv
  <2>. QED BY <2>1, <2>2, Zenon DEF Released, Acked, ReleaseIfThere
<1>3. \E pc \in {"answer", Outcome(c)} : ClientTo(c, pc)
  BY Zenon DEF Released, Acked
<1>. PICK pc \in {"answer", Outcome(c)} : ClientTo(c, pc)
  BY <1>3, Zenon
<1> DEFINE new == [client[c] EXCEPT !.pc = pc]
<1>4. /\ pc \in {"answer", "answered", "error"}
      /\ new \in [pc: {"new"} \cup Reading \cup Fetched \cup Final, id: Id \cup {NoTicket},
                  got: Results, pdf: Run \cup {NoRun}]
      /\ new.pc = pc /\ new.id = i /\ new.got = client[c].got /\ new.pdf = client[c].pdf
  BY <1>1, Zenon DEF Fetched, Final, Outcome
<1>5. client'[c] = new /\ (\A d \in Clients : d # c => client'[d] = client[d]) /\ ClientsOK'
  BY <1>4, Zenon DEF ClientTo, AInv, ClientsOK
<1>. HIDE DEF new
<1>6. NeedsPdf(c)' <=> NeedsPdf(c)
  BY <1>4, <1>5, Zenon DEF NeedsPdf
<1>7. /\ NeedsPdf(c) => client[c].pdf \in {NoRun, client[c].got}
      /\ pc = "answered" /\ NeedsPdf(c) => client[c].pdf # NoRun
  BY <1>1, Zenon DEF ClientInv, Fetched, Outcome
<1>8. Kept(i) /\ next' >= next /\ next \in Int /\ next' \in Int /\ i < next /\ i \in Int
  <2>1. i < next
    BY <1>1, Zenon DEF ClientInv
  <2>2. next \in Int /\ next' \in Int /\ i \in Int
    BY <1>1, <1>2, MaxIdAssumption DEF AInv, IInv, TypeOK, Id
  <2>3. Kept(i) /\ next' >= next
    BY <1>1, <1>2, <2>1, Zenon DEF Steady
  <2>. QED BY <2>1, <2>2, <2>3, Zenon
<1>9. ClientInv(c)'
  <2>1. i < next' /\ (jobs'[i].state # "none" => jobs'[i].content = Wants[c].content /\ ~jobs'[i].hot)
    <3>1. jobs[i].state # "none" => jobs[i].content = Wants[c].content /\ ~jobs[i].hot
      BY <1>1, Zenon DEF ClientInv, Job
    <3>2. jobs'[i].state # "none" => jobs[i].state # "none" /\ jobs'[i].content = jobs[i].content /\ jobs'[i].hot = jobs[i].hot
      BY <1>8, Zenon DEF Kept
    <3>3. i < next'
      <4>. HIDE DEF i
      <4>. QED BY <1>8
    <3>. QED BY <3>1, <3>2, <3>3, Zenon
  <2>. QED BY <1>1, <1>4, <1>5, <1>6, <1>7, <2>1, Zenon DEF ClientInv, Job, Reading, Fetched
<1>10. \A k \in {i} : k = client[c].id
  BY Zenon
<1>. QED BY <1>2, <1>4, <1>5, <1>9, <1>10, OneClient

\* A crash cuts off the direct requests and leaves the front ends' where they are.
LEMMA CutInv ==
  ASSUME AInv, Crash \/ CrashInSubmit(FALSE), Cut PROVE AInv'
<1>1. IInv' /\ Steady({})
  BY QueueInv, SameTable, Zenon DEF AInv, Crash, CrashInSubmit, disk, IInv, TypeOK
<1>2. ASSUME NEW c \in Clients
      PROVE  \/ client'[c] = client[c]
             \/ client'[c] = [client[c] EXCEPT !.pc = "gone"]
  BY Zenon DEF Cut
<1>3. ClientsOK'
  BY DEF Cut, AInv, ClientsOK, Final
<1>4. ASSUME NEW c \in Clients PROVE ClientInv(c)' /\ client'[c].id = client[c].id
  <2>1. CASE client'[c] = client[c]
    BY <1>1, <2>1, ClientKept
  <2>2. CASE client'[c] = [client[c] EXCEPT !.pc = "gone"]
    <3>1. client'[c].pc = "gone" /\ client'[c].id = client[c].id /\ client'[c].got = client[c].got
      BY <2>2 DEF AInv, ClientsOK
    <3>2. jobs' = jobs /\ next' = next
      BY Zenon DEF Crash, CrashInSubmit, disk
    <3>3. ClientInv(c)
      BY Zenon DEF AInv
    <3>. QED BY <3>1, <3>2, <3>3, Zenon DEF ClientInv, Job, Reading, Fetched
  <2>. QED BY <1>2, <2>1, <2>2, Zenon
<1>. QED BY <1>1, <1>3, <1>4, Zenon DEF AInv, Steady

\* Every step of the requests and of the queue behind them keeps the invariant.
LEMMA ANextInv == AInv /\ [ANext]_avars => AInv'
<1> SUFFICES ASSUME AInv, [ANext]_avars PROVE AInv'
  BY Zenon
<1>1. ASSUME NEW c \in Clients, ClientStep(c) PROVE AInv'
  <2>0. client[c].pc \in Reading \cup {"release", "ack"} => client[c].id # NoTicket
    BY Zenon DEF AInv, ClientInv
  <2>1. CASE Submitted(c) \/ SubmitReplyLost(c)
    BY <2>1, SubmittedInv, Zenon
  <2>2. CASE Waited(c) \/ Polled(c) \/ Respond(c)
    BY <2>2, FetchInv, Zenon
  <2>3. CASE Released(c) \/ Acked(c)
    BY <2>3, ReleasedInv, Zenon
  <2>4. CASE TooBusy(c) \/ Blocked(c) \/ HangUp(c) \/ SubmitUnreachable(c) \/ PollNotFound(c) \/ Deadline(c)
    <3>1. \E pc \in {"busy", "error", "gone"} : ClientTo(c, pc) /\ UNCHANGED vars
      BY <2>4, Zenon DEF TooBusy, Blocked, HangUp, SubmitUnreachable, PollNotFound, Deadline
    <3>. QED BY <3>1, GotoInv, Zenon DEF Reading, Fetched, Final
  <2>5. CASE Encoded(c)
    <3>1. client[c].pc = "encode" /\ \E pc \in {"download", "error"} : ClientTo(c, pc) /\ UNCHANGED vars
      BY <2>5, Zenon DEF Encoded, ClientAt
    <3>. QED BY <2>0, <3>1, GotoInv, Zenon DEF Reading, Fetched, Final
  <2>6. CASE Download(c) \/ PollBroken(c)
    <3>1. client[c].pc \in {"encode", "download"}
          /\ \E pc \in {"ack", "poll"} : ClientTo(c, pc) /\ UNCHANGED vars
      BY <2>6, Zenon DEF Download, PollBroken, ClientAt
    <3>. QED BY <2>0, <3>1, GotoInv, Zenon DEF Reading, Fetched, Final
  <2>7. CASE AckLost(c)
    <3>1. client[c].pc = "ack" /\ ClientTo(c, "answer") /\ UNCHANGED vars
      BY <2>7, Zenon DEF AckLost, ClientAt
    <3>. QED BY <3>1, GotoInv, Zenon DEF Reading, Fetched, Final
  <2>8. CASE Answer(c)
    <3>1. client[c].pc = "answer" /\ ClientTo(c, Outcome(c)) /\ UNCHANGED vars /\ Outcome(c) \in {"answered", "error"}
      BY <2>8, Zenon DEF Answer, ClientAt, Outcome
    <3>. QED BY <3>1, GotoInv, Zenon DEF Reading, Fetched, Final
  <2>. QED BY <1>1, <2>1, <2>2, <2>3, <2>4, <2>5, <2>6, <2>7, <2>8, Zenon DEF ClientStep
<1>2. CASE (Work \/ UNCHANGED vars) /\ UNCHANGED client
  <2>1. IInv' /\ Steady({})
    BY <1>2, QueueInv, WorkSteady, SameTable, Zenon DEF AInv, vars, disk
  <2>2. \A c \in Clients : ClientInv(c)'
    BY <1>2, <2>1, ClientKept
  <2>. QED BY <1>2, <2>1, <2>2, Zenon DEF AInv, ClientsOK, Steady
<1>3. CASE (Crash \/ CrashInSubmit(FALSE)) /\ Cut
  BY <1>3, CutInv, Zenon
<1>. QED BY <1>1, <1>2, <1>3, Zenon DEF ANext, avars

\* The invariant behind the theorems below, over every interleaving of requests, front ends,
\* workers, the coordinator's loops, crashes and restarts.
THEOREM ApiInvariance == ASpec => []AInv
<1>1. AInit => AInv
  <2> SUFFICES ASSUME AInit PROVE AInv
    BY Zenon
  <2>1. IInv /\ OkIsDone
    BY InitInv, NoRowFields, NullAssumption, Zenon DEF AInit, Init, OkIsDone
  <2>2. \A c \in Clients : client[c] = New
    BY Zenon DEF AInit
  <2>3. ClientsOK
    BY Zenon DEF AInit, ClientsOK, New, Results
  <2>. QED BY <2>1, <2>2, <2>3, NullAssumption DEF AInv, ClientInv, New, Reading, Fetched
<1>. QED BY <1>1, ANextInv, PTL DEF ASpec

\* Whatever was retried, reused by dedupe or purged, a client that is answered has the result
\* of its own content, and a PDF of the very run its report is about (api.rs respond,
\* remote_run).
THEOREM AnswersOwn == ASpec => []OwnAnswer
<1>1. AInv => OwnAnswer
  BY Zenon DEF AInv, ClientInv, OwnAnswer, ClientAt
<1>. QED BY <1>1, ApiInvariance, PTL

\* The result of a job stays on disk for the request that has still to read it, until it has
\* outlived its time-to-live: no other request, retry or restart takes it away.
THEOREM ResultAwaits == ASpec => []KeptForReader
<1>1. AInv => KeptForReader
  <2> SUFFICES ASSUME AInv, NEW c \in Clients, client[c].pc \in Reading, Finished(c), ~Job(c).old
               PROVE  client[c].id \in dirs
    BY Zenon DEF KeptForReader, Reading
  <2>1. client[c].id \in Id /\ Job(c).state \in Terminal /\ ~Job(c).hot /\ ~Job(c).purged
    BY DEF AInv, ClientsOK, ClientInv, Finished, Job, Terminal
  <2>. QED BY <2>1, Zenon DEF AInv, IInv, ResultKept, Job
<1>. QED BY <1>1, ApiInvariance, PTL

-----------------------------------------------------------------------------
(* Back-pressure: the queue limit *)

INSTANCE FiniteSetTheorems

\* The API jobs that wait for their first lease.
Fresh == {i \in QueuedApi : jobs[i].attempts = 0}

\* Only submit() makes a fresh job: a job that comes back has been leased before.
LEMMA FreshShrinks ==
  ASSUME IInv, [Next]_vars, ~\E q \in Requests : Submit(q.content, q.hot, q.dedupe)
  PROVE  Fresh' \subseteq Fresh
<1>. SUFFICES ASSUME NEW k \in Id, jobs'[k].state = "queued", ~jobs'[k].hot, jobs'[k].attempts = 0
              PROVE  jobs[k].state = "queued" /\ ~jobs[k].hot /\ jobs[k].attempts = 0
  BY Zenon DEF Fresh, QueuedApi
<1>0. jobs \in [Id -> Row] /\ \A i \in Id : jobs[i] \in Row
  BY Zenon DEF IInv, TypeOK
<1>1. CASE \E w \in Workers, i \in Id : Lease(w, i)
  BY <1>0, <1>1, LeasedRowFields DEF Lease, IInv, RowInv
<1>2. ASSUME NEW i \in Id, NEW r \in Results, FinishLost(i, r)
      PROVE  jobs[k].state = "queued" /\ ~jobs[k].hot /\ jobs[k].attempts = 0
  BY <1>0, <1>2, FinishedRowFields, SMTT(20) DEF FinishLost, SetFinished, Terminal
<1>3. CASE \E h \in leasing : LeaseUnreadable(h)
  BY <1>2, <1>3, Zenon DEF LeaseUnreadable, IInv, TypeOK, Leases, Results
<1>4. CASE \E w \in Workers, R \in SUBSET Id : Heartbeat(w, R)
  BY <1>4, HeartbeatFlags, Zenon DEF Flagged
<1>5. CASE \E i \in Id : LeaseExpires(i) \/ Age(i) \/ Release(i) \/ JanitorMark(i) \/ DeliverOk(i)
  BY <1>5, FlagSteps, Zenon DEF Flagged
<1>6. CASE \E h \in staging, ok \in BOOLEAN : CompleteFinish(h, ok)
  <2>. PICK h \in staging, ok \in BOOLEAN : CompleteFinish(h, ok)
    BY <1>6, Zenon
  <2>1. h.id \in Id /\ RunOf(h, ok) \in Results
    BY RunOfFields, Zenon DEF IInv, TypeOK, Leases
  <2>2. Holds(h) => FinishLost(h.id, RunOf(h, ok))
    BY Zenon DEF CompleteFinish, Holds, FinishLost, Terminal
  <2>. QED BY <1>2, <2>1, <2>2, Zenon DEF CompleteFinish
<1>7. CASE \E e \in reaping : ReapOne(e)
  <2>. PICK e \in reaping : ReapOne(e)
    BY <1>7, Zenon
  <2>1. e.id \in Id /\ WorkerLost \in Results
    BY Zenon DEF IInv, TypeOK, Results
  <2>2. CASE Requeue(e.id)
    <3>1. jobs[e.id].state = "running" => jobs[e.id].attempts >= 1
      BY <2>1, Zenon DEF IInv, RowInv
    <3>2. RequeuedRow(jobs[e.id]).attempts = jobs[e.id].attempts
      BY <1>0, <2>1, RequeuedRowFields, Zenon
    <3>. QED BY <1>0, <2>1, <2>2, <3>1, <3>2 DEF Requeue
  <2>. QED BY <1>2, <2>1, <2>2, Zenon DEF ReapOne
<1>8. CASE \E D \in SUBSET Id : JanitorDelete(D)
  BY <1>8, NoRowFields, Zenon DEF JanitorDelete
<1>9. CASE jobs' = jobs
  BY <1>9, Zenon
<1>. QED BY <1>1, <1>3, <1>4, <1>5, <1>6, <1>7, <1>8, <1>9, StepKinds, Zenon

\* The waiting API jobs, and those without an attempt among them, are finitely many.
LEMMA QueueFinite ==
  IsFiniteSet(QueuedApi) /\ Fresh \subseteq QueuedApi /\ IsFiniteSet(Fresh)
  /\ Cardinality(QueuedApi) \in Nat /\ Cardinality(Fresh) \in Nat
<1>1. IsFiniteSet(Id)
  BY FS_Interval, MaxIdAssumption DEF Id
<1>2. QueuedApi \in SUBSET Id /\ Fresh \in SUBSET QueuedApi
  BY Zenon DEF QueuedApi, Fresh
<1>3. IsFiniteSet(QueuedApi)
  BY <1>1, <1>2, FS_Subset, Zenon
<1>4. IsFiniteSet(Fresh)
  BY <1>2, <1>3, FS_Subset, Zenon
<1>. QED BY <1>2, <1>3, <1>4, FS_CardinalityType, Zenon

\* A submission that the limit admits keeps the first attempts within the limit.
LEMMA SubmitFresh ==
  ASSUME IInv, FreshQueueBounded, NEW q \in Requests, Submit(q.content, q.hot, q.dedupe)
  PROVE  FreshQueueBounded'
<1>1. \E n : jobs' = [jobs EXCEPT ![next] = n] /\ n.hot = q.hot
  <2>1. NewRow(q.content, q.hot, q.dedupe) \in Row /\ NewRow(q.content, q.hot, q.dedupe).hot = q.hot
    BY NewRowFields, RequestsAssumption
  <2>2. ASSUME NEW p \in DedupeHits(q.content)
        PROVE  CachedRow(NewRow(q.content, q.hot, q.dedupe), p).hot = q.hot
    BY <2>1, CachedRowFields, Zenon DEF IInv, DedupeHits
  <2>. QED BY <2>1, <2>2, Zenon DEF Submit
<1>2. Fresh' \subseteq Fresh \cup (IF q.hot THEN {} ELSE {next})
  BY <1>1, Zenon DEF Fresh, QueuedApi, Submit, IInv, TypeOK
<1>3. CASE q.hot
  <2>1. Fresh' \in SUBSET Fresh
    BY <1>2, <1>3, Zenon
  <2>2. Cardinality(Fresh') <= Cardinality(Fresh) /\ Cardinality(Fresh') \in Nat
    BY <2>1, QueueFinite, FS_Subset, FS_CardinalityType, Zenon
  <2>3. Cardinality(Fresh) <= QueueLimit /\ Cardinality(Fresh) \in Nat
    BY QueueFinite, Zenon DEF FreshQueueBounded, Fresh
  <2>4. Cardinality(Fresh') <= QueueLimit
    BY <2>2, <2>3, QueueLimitAssumption
  <2>. QED BY <2>4, Zenon DEF FreshQueueBounded, Fresh
<1>4. CASE ~q.hot
  <2>1. Cardinality(QueuedApi) < QueueLimit
    BY <1>4, Zenon DEF Submit, Admits
  <2>2. Cardinality(Fresh) <= Cardinality(QueuedApi)
    BY QueueFinite, FS_Subset, Zenon
  <2>3. IsFiniteSet(Fresh \cup {next}) /\ Cardinality(Fresh \cup {next}) <= Cardinality(Fresh) + 1
    <3>1. IsFiniteSet(Fresh)
      BY QueueFinite, Zenon
    <3>2. /\ IsFiniteSet(Fresh \cup {next})
          /\ Cardinality(Fresh \cup {next})
               = IF next \in Fresh THEN Cardinality(Fresh) ELSE Cardinality(Fresh) + 1
      BY <3>1, FS_AddElement, Zenon
    <3>. QED BY <3>2, QueueFinite
  <2>4. Fresh' \in SUBSET (Fresh \cup {next})
    BY <1>2, <1>4, Zenon
  <2>5. Cardinality(Fresh') <= Cardinality(Fresh \cup {next})
        /\ Cardinality(Fresh') \in Nat /\ Cardinality(Fresh \cup {next}) \in Nat
    BY <2>3, <2>4, FS_Subset, FS_CardinalityType, Zenon
  <2>. QED BY <2>1, <2>2, <2>3, <2>5, QueueFinite, QueueLimitAssumption DEF FreshQueueBounded, Fresh
<1>. QED BY <1>3, <1>4, Zenon

\* The queue limit holds for the jobs that wait for their first lease, whatever the
\* interleaving of submissions, leases, retries and restarts.
THEOREM BackPressure == Spec => []FreshQueueBounded
<1>1. Init => FreshQueueBounded
  <2>1. Init => Fresh = {}
    BY NoRowFields, Zenon DEF Init, Fresh, QueuedApi
  <2>. QED BY <2>1, FS_EmptySet, QueueLimitAssumption DEF FreshQueueBounded, Fresh
<1>2. IInv /\ FreshQueueBounded /\ [Next]_vars => FreshQueueBounded'
  <2>. SUFFICES ASSUME IInv, FreshQueueBounded, [Next]_vars PROVE FreshQueueBounded'
    BY Zenon
  <2>1. CASE \E q \in Requests : Submit(q.content, q.hot, q.dedupe)
    BY <2>1, SubmitFresh, Zenon
  <2>2. CASE ~\E q \in Requests : Submit(q.content, q.hot, q.dedupe)
    <3>1. Fresh' \in SUBSET Fresh
      BY <2>2, FreshShrinks, Zenon
    <3>2. Cardinality(Fresh') <= Cardinality(Fresh) /\ Cardinality(Fresh') \in Nat
      BY <3>1, QueueFinite, FS_Subset, FS_CardinalityType, Zenon
    <3>. QED BY <3>2, QueueFinite, QueueLimitAssumption DEF FreshQueueBounded, Fresh
  <2>. QED BY <2>1, <2>2, Zenon
<1>. QED BY <1>1, <1>2, Invariance, PTL DEF Spec
=============================================================================
