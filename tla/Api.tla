-------------------------------- MODULE Api --------------------------------
(***************************************************************************)
(* Requests to /api/convert and /api/check on their way through the queue  *)
(* of module Coord (server/src/api.rs: App::run, remote_run, job, respond; *)
(* coord.rs: wait, and the handlers of submit, result and ack).  A client  *)
(* either talks to the coordinator itself, whose handler waits for the job *)
(* in the same process, or to a front end (`serve --coordinator`) that     *)
(* submits the job, polls for its result, downloads and acknowledges it.   *)
(***************************************************************************)
EXTENDS Coord

CONSTANTS
  Direct,  \* clients of the coordinator
  Remote,  \* clients of a front end
  Wants    \* what each asks for: content, hot = FALSE, dedupe

Clients == Direct \cup Remote

ASSUME ClientsAssumption ==
  /\ Direct \cap Remote = {}
  /\ Wants \in [Clients -> [content: Contents, hot: {FALSE}, dedupe: BOOLEAN]]

VARIABLE client  \* where each request is: pc, the job's id, the result and the PDF it got

avars == <<vars, client>>

Final == {"answered", "error", "busy", "gone"}
NoTicket == 0
New == [pc |-> "new", id |-> NoTicket, got |-> NoRun, pdf |-> NoRun]

AInit == Init /\ client = [c \in Clients |-> New]

ClientAt(c, pc) == client[c].pc = pc
Job(c) == jobs[client[c].id]
ClientTo(c, pc) == client' = [client EXCEPT ![c].pc = pc]
Finished(c) == Job(c).state \in Terminal

\* api::outcome makes a PDF response of a successful conversion, which must then be there.
NeedsPdf(c) == client[c].got \in Run /\ client[c].got.ok /\ Wants[c].content \in Converts

-----------------------------------------------------------------------------
(* Submitting, for both *)

SubmitFor(c) == Submit(Wants[c].content, FALSE, Wants[c].dedupe)

\* The client's handler, or the front end, learns the id.
Submitted(c) ==
  /\ ClientAt(c, "new") /\ SubmitFor(c)
  /\ client' = [client EXCEPT ![c] = [New EXCEPT !.pc = IF c \in Direct THEN "wait" ELSE "poll",
                                                 !.id = next]]

\* 429: the queue is full.
TooBusy(c) ==
  /\ ClientAt(c, "new") /\ up = "up" /\ ~Admits(FALSE)
  /\ ClientTo(c, "busy")
  /\ UNCHANGED vars

\* The rename onto jobs/<id> fails: 500.
Blocked(c) ==
  /\ ClientAt(c, "new") /\ up = "up" /\ Admits(FALSE) /\ next \in dirs
  /\ ClientTo(c, "error")
  /\ UNCHANGED vars

-----------------------------------------------------------------------------
(* Direct: App::run on the queue, respond, release *)

\* wait(): the result, or "job vanished".
Waited(c) ==
  /\ ClientAt(c, "wait") /\ up = "up" /\ (Finished(c) \/ Job(c).state = "none")
  /\ client' = [client EXCEPT ![c].pc = "respond", ![c].got = Job(c).result]
  /\ UNCHANGED vars

\* respond(): the PDF is opened (or read) now and keeps its content once it is removed.
Respond(c) ==
  /\ ClientAt(c, "respond") /\ up = "up"
  /\ client' = [client EXCEPT ![c].pc = "release",
                              ![c].pdf = IF NeedsPdf(c) THEN out[client[c].id] ELSE NoRun]
  /\ UNCHANGED vars

\* Mutant: the report says it worked, so it is a success.
OutcomeOfReport(c) == "answered"

Outcome(c) == IF NeedsPdf(c) /\ client[c].pdf = NoRun THEN "error" ELSE "answered"

\* release() of a row that is gone changes nothing.
ReleaseIfThere(i) == IF jobs[i].state = "none" THEN UNCHANGED vars ELSE Release(i)

Released(c) ==
  /\ ClientAt(c, "release") /\ up = "up"
  /\ ReleaseIfThere(client[c].id)
  /\ ClientTo(c, Outcome(c))

\* The client hangs up: the handler is dropped where it waits, and releases nothing.
HangUp(c) ==
  /\ c \in Direct /\ client[c].pc \in {"wait", "respond"}
  /\ ClientTo(c, "gone")
  /\ UNCHANGED vars

-----------------------------------------------------------------------------
(* Remote: remote_run *)

\* No connection: remote_run does not try again, and the request fails with 500.
SubmitUnreachable(c) ==
  /\ c \in Remote /\ ClientAt(c, "new") /\ up # "up"
  /\ ClientTo(c, "error")
  /\ UNCHANGED vars

\* The job is queued but the answer is lost: 500, and nobody waits for the job.
SubmitReplyLost(c) ==
  /\ c \in Remote /\ ClientAt(c, "new") /\ SubmitFor(c)
  /\ client' = [client EXCEPT ![c].pc = "error", ![c].id = next]

\* GET .../result: wait_for() returned; the files that exist are listed.
Polled(c) ==
  /\ ClientAt(c, "poll") /\ up = "up" /\ Finished(c)
  /\ client' = [client EXCEPT ![c].pc = "encode", ![c].got = Job(c).result,
                              ![c].pdf = out[client[c].id]]
  /\ UNCHANGED vars

\* 404: no such row.
PollNotFound(c) ==
  /\ ClientAt(c, "poll") /\ up = "up" /\ Job(c).state = "none"
  /\ ClientTo(c, "error")
  /\ UNCHANGED vars

\* The listed files are opened and the folder is still there: 200.  Else 404, "expired".
Encoded(c) ==
  /\ ClientAt(c, "encode") /\ up = "up"
  /\ ClientTo(c, IF client[c].id \in dirs /\ client[c].pdf = out[client[c].id]
             THEN "download" ELSE "error")
  /\ UNCHANGED vars

\* Mutant: the acknowledgement goes out with the download still to be read.
DownloadAcked(c) ==
  /\ ClientAt(c, "download") /\ up = "up"
  /\ \/ ReleaseIfThere(client[c].id) /\ ClientTo(c, "answer")
     \/ ReleaseIfThere(client[c].id) /\ ClientTo(c, "poll")

\* wire::decode read the result, or failed: then the front end asks again.
Download(c) ==
  /\ ClientAt(c, "download")
  /\ ClientTo(c, "ack") \/ ClientTo(c, "poll")
  /\ UNCHANGED vars

\* The coordinator died while it answered.
PollBroken(c) ==
  /\ client[c].pc \in {"encode", "download"} /\ up = "down"
  /\ ClientTo(c, "poll")
  /\ UNCHANGED vars

Acked(c) ==
  /\ ClientAt(c, "ack") /\ up = "up"
  /\ ReleaseIfThere(client[c].id)
  /\ ClientTo(c, "answer")

AckLost(c) == ClientAt(c, "ack") /\ ClientTo(c, "answer") /\ UNCHANGED vars

Answer(c) == ClientAt(c, "answer") /\ ClientTo(c, Outcome(c)) /\ UNCHANGED vars

\* Four times the job's time limit and ten minutes have passed.
Deadline(c) == ClientAt(c, "poll") /\ ClientTo(c, "error") /\ UNCHANGED vars

-----------------------------------------------------------------------------
\* The requests the coordinator's process was serving die with it.
Cut == client' = [c \in Clients |->
         IF client[c].pc \in {"wait", "respond", "release"}
         THEN [client[c] EXCEPT !.pc = "gone"] ELSE client[c]]

\* The workers (any requests in any order) and the coordinator's own loops.
Work ==
  \/ \E w \in Workers, i \in Id : Lease(w, i)
  \/ \E h \in leasing : LeaseSent(h) \/ LeaseUnreadable(h)
  \/ \E i \in Id : LeaseExpires(i) \/ Age(i)
  \/ \E h \in Leases : CompleteStart(h)
  \/ \E h \in staging, ok \in BOOLEAN : CompleteFinish(h, ok)
  \/ \E h \in staging : CompleteAbort(h)
  \/ ReapSelect
  \/ \E e \in reaping : ReapOne(e)
  \/ JanitorSelect
  \/ \E i \in Id : JanitorRemove(i) \/ JanitorMark(i)
  \/ \E D \in SUBSET Id : JanitorDelete(D)
  \/ Open \/ Serve

ClientStep(c) ==
  \/ Submitted(c) \/ TooBusy(c) \/ Blocked(c)
  \/ Waited(c) \/ Respond(c) \/ Released(c) \/ HangUp(c)
  \/ SubmitUnreachable(c) \/ SubmitReplyLost(c) \/ Polled(c) \/ PollNotFound(c) \/ Encoded(c)
  \/ Download(c) \/ PollBroken(c) \/ Acked(c) \/ AckLost(c) \/ Answer(c) \/ Deadline(c)

ANext ==
  \/ \E c \in Clients : ClientStep(c)
  \/ Work /\ UNCHANGED client
  \/ (Crash \/ CrashInSubmit(FALSE)) /\ Cut

ASpec == AInit /\ [][ANext]_avars

-----------------------------------------------------------------------------
(* Properties *)

\* A client that is answered got the result of its own request's content, and a PDF comes
\* from the very run whose report goes with it, whatever was retried, reused or purged.
OwnAnswer ==
  \A c \in Clients : ClientAt(c, "answered") /\ client[c].got \in Run =>
    /\ client[c].got.content = Wants[c].content
    /\ NeedsPdf(c) => client[c].pdf = client[c].got

\* A finished result stays on disk for the one who waits for it, through failed downloads
\* and restarts, until it has outlived the time-to-live.
KeptForReader ==
  \A c \in Clients :
    client[c].pc \in {"wait", "respond", "poll", "encode", "download"} /\ Finished(c) /\ ~Job(c).old =>
      client[c].id \in dirs

\* docs/self-hosting.md:168: the front end "survives coordinator restarts without failing the
\* request".  A request of a front end fails only after its job was queued: its answer was
\* lost, it expired, or the deadline passed.
RestartsSurvived == \A c \in Remote : ClientAt(c, "error") => client[c].id # NoTicket

-----------------------------------------------------------------------------
(* The inductive invariant behind OwnAnswer and KeptForReader, besides the queue's own *)

Reading == {"wait", "respond", "poll", "encode", "download"}
Fetched == {"release", "encode", "download", "ack", "answer"}

ClientsOK ==
  client \in [Clients -> [pc: {"new"} \cup Reading \cup Fetched \cup Final, id: Id \cup {NoTicket},
                          got: Results, pdf: Run \cup {NoRun}]]

\* Only a job that is done has a successful run for its result.
OkIsDone == \A i \in Id : jobs[i].result \in Run /\ jobs[i].result.ok => jobs[i].state = "done"

\* A request's job was submitted for it alone; while the request still has to read the
\* result, only the janitor purges it, when it is old; and a PDF that it has read, or is
\* about to read, is the one of the run in its report, or gone.
ClientInv(c) ==
  /\ client[c].pc \in Reading \cup {"release", "ack"} => client[c].id # NoTicket
  /\ client[c].id # NoTicket =>
       /\ client[c].id < next
       /\ Job(c).state # "none" => Job(c).content = Wants[c].content /\ ~Job(c).hot
       /\ client[c].pc \in Reading /\ Job(c).purged => Job(c).old
  /\ client[c].got \in Run => client[c].got.content = Wants[c].content
  /\ client[c].pc = "respond" =>
       /\ Job(c).state \in Terminal \cup {"none"}
       /\ NeedsPdf(c) => out[client[c].id] \in {NoRun, client[c].got}
  /\ client[c].pc \in Fetched /\ NeedsPdf(c) => client[c].pdf \in {NoRun, client[c].got}
  /\ client[c].pc = "answered" /\ NeedsPdf(c) => client[c].pdf = client[c].got

AInv ==
  /\ IInv /\ ClientsOK /\ OkIsDone
  /\ \A c \in Clients : ClientInv(c)
  /\ \A c, d \in Clients : client[c].id # NoTicket /\ client[c].id = client[d].id => c = d
=============================================================================
