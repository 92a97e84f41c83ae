----------------------------- MODULE HotFolder -----------------------------
(***************************************************************************)
(* The watched folders of the coordinator (server/src/coord.rs: scan,      *)
(* enqueue_hot, in_flight, deliver, place, deliver_pending): a user writes *)
(* files into input/, one scanner thread queues the files of all folders,  *)
(* and deliver(), on the thread that finished the job, moves the outcome   *)
(* into done/ or failed/.  What happens to a job in between is module      *)
(* Coord's; here it is its promise: a queued job is settled once.          *)
(*                                                                         *)
(* The content of a file is the number of the write that made it, so a     *)
(* file that is still growing, or is replaced, has one version after the   *)
(* other; (length, mtime) tells versions apart.                            *)
(***************************************************************************)
EXTENDS Integers, FiniteSets

CONSTANTS
  Files,      \* names in the input/ of a folder
  Stem,       \* a function: the folder and Path::file_stem of each
  Checks,     \* those in folders with mode=check: a report and no PDF
  MaxVersion, \* bound: writes of each file
  MaxJobs,    \* bound: writes of all files, and so the rows for them
  Careful,    \* the user writes a file only while no job for that name is unfinished
  DiskFails,  \* those in folders where copying, writing or moving a file may fail
  None        \* no file, no signature

ASSUME StemAssumption == DOMAIN Stem = Files
ASSUME BoundAssumption == MaxVersion \in Nat /\ MaxJobs \in Nat
ASSUME NoneAssumption == None \notin Nat /\ None \notin Files
ASSUME FolderAssumption == Checks \subseteq Files /\ DiskFails \subseteq Files /\ Careful \in BOOLEAN

Version == 1..MaxVersion
Job == 1..MaxJobs
Stems == {Stem[f] : f \in Files}
TurnedAway == 0

VARIABLES
  last,     \* how many times the user has written each file
  input,    \* the version in input/, or None
  done,     \* done/<stem>.pdf and done/<stem>.json: the job they come from
  failed,   \* failed/<stem>.json: the job, or TurnedAway for a file that was never queued
  moved,    \* the version of the original moved into done/ or failed/
  jobs,     \* the rows with this folder
  n,        \* how many there are
  up,       \* "up", "opening" (deliver_pending) or "down"
  seen,     \* the scanner's map from path to signature
  pass,     \* a scan of the folders is under way
  todo,     \* the names it has not come to
  at,       \* where the scanner is with one of them
  placing   \* jobs being delivered: the outcome, and the step of place()

vars == <<last, input, done, failed, moved, jobs, n, up, seen, pass, todo, at, placing>>
folder == <<input, done, failed, moved>>
scanner == <<seen, pass, todo, at>>

Resting == [pc |-> "rest", file |-> None, ver |-> None]
NotPlacing == [step |-> "no", as |-> None, again |-> FALSE]
JobRow == [file: Files, ver: Version, state: {"pending", "done", "failed"}, delivered: BOOLEAN]
NoJob == [file |-> None, ver |-> None, state |-> "none", delivered |-> FALSE]

TypeOK ==
  /\ last \in [Files -> 0..MaxVersion]
  /\ input \in [Files -> Version \cup {None}]
  /\ done \in [Stems -> [pdf: Job \cup {None}, json: Job \cup {None}]]
  /\ failed \in [Stems -> Job \cup {TurnedAway, None}]
  /\ moved \in [{"done", "failed"} -> [Files -> Version \cup {None}]]
  /\ jobs \in [Job -> JobRow \cup {NoJob}]
  /\ n \in 0..MaxJobs /\ up \in {"up", "opening", "down"}
  /\ seen \in [Files -> Version \cup {None}] /\ todo \subseteq Files /\ pass \in BOOLEAN
  /\ at \in [pc: {"rest", "checked", "copy", "submit", "report", "turnaway"},
             file: Files \cup {None}, ver: Version \cup {None}]
  /\ placing \in [Job -> [step: {"no", "pdf", "json", "input", "mark"},
                          as: {"pdf", "report", "error", None}, again: BOOLEAN]]

Init ==
  /\ last = [f \in Files |-> 0]
  /\ input = [f \in Files |-> None]
  /\ done = [s \in Stems |-> [pdf |-> None, json |-> None]]
  /\ failed = [s \in Stems |-> None]
  /\ moved = [d \in {"done", "failed"} |-> [f \in Files |-> None]]
  /\ jobs = [j \in Job |-> NoJob]
  /\ n = 0 /\ up = "up"
  /\ seen = [f \in Files |-> None] /\ pass = FALSE /\ todo = {} /\ at = Resting
  /\ placing = [j \in Job |-> NotPlacing]

Undelivered(f) == {j \in 1..n : jobs[j].file = f /\ ~jobs[j].delivered}

-----------------------------------------------------------------------------
(* The user *)

Written == {w \in Files \X Version : w[2] <= last[w[1]]}

Write(f) ==
  /\ last[f] < MaxVersion /\ Cardinality(Written) < MaxJobs
  /\ Careful => input[f] = None /\ Undelivered(f) = {}
  /\ last' = [last EXCEPT ![f] = @ + 1]
  /\ input' = [input EXCEPT ![f] = last[f] + 1]
  /\ UNCHANGED <<done, failed, moved, jobs, n, up, scanner, placing>>

-----------------------------------------------------------------------------
(* The scanner: a pass over the folders every second *)

Rest(f) == at' = Resting /\ todo' = todo \ {f}

\* A pass finds the names that are there when it comes to them (read_dir, folder by folder).
ScanStart ==
  /\ up = "up" /\ ~pass
  /\ pass' = TRUE
  /\ todo' = Files
  /\ UNCHANGED <<last, folder, jobs, n, up, seen, at, placing>>

\* seen.insert(path, sig) != Some(sig): the file is new or still changing.
ScanSig(f) ==
  /\ up = "up" /\ at = Resting /\ f \in todo
  /\ seen' = [seen EXCEPT ![f] = IF input[f] = None THEN @ ELSE input[f]]
  /\ IF input[f] # None /\ seen[f] = input[f]
     THEN at' = [pc |-> "checked", file |-> f, ver |-> None] /\ UNCHANGED todo
     ELSE Rest(f)
  /\ UNCHANGED <<last, folder, jobs, n, up, pass, placing>>

\* Mutant: a name is done with for good.
InFlightEver(f) == \E j \in 1..n : jobs[j].file = f

InFlight(f) == Undelivered(f) # {}

ScanInFlight ==
  /\ up = "up" /\ at.pc = "checked"
  /\ IF InFlight(at.file)
     THEN Rest(at.file) /\ UNCHANGED seen
     ELSE /\ at' = [at EXCEPT !.pc = "copy"]
          /\ seen' = [seen EXCEPT ![at.file] = None]
          /\ UNCHANGED todo
  /\ UNCHANGED <<last, folder, jobs, n, up, pass, placing>>

\* enqueue_hot copies what is there now, and looks at the copy: a PDF or a JPEG is
\* submitted, anything else is turned away.  A file that is gone is an error in the log.
ScanCopy ==
  /\ up = "up" /\ at.pc = "copy"
  /\ IF input[at.file] = None
     THEN Rest(at.file)
     ELSE \E pc \in {"submit", "report"} :
            at' = [at EXCEPT !.pc = pc, !.ver = input[at.file]] /\ UNCHANGED todo
  /\ UNCHANGED <<last, folder, jobs, n, up, seen, pass, placing>>

ScanSubmit ==
  /\ up = "up" /\ at.pc = "submit" /\ n < MaxJobs
  /\ n' = n + 1
  /\ jobs' = [jobs EXCEPT ![n + 1] =
       [file |-> at.file, ver |-> at.ver, state |-> "pending", delivered |-> FALSE]]
  /\ Rest(at.file)
  /\ UNCHANGED <<last, folder, up, seen, pass, placing>>

\* place() with NOT_A_PDF or BAD_REQUEST: the report first, then the file itself.
ScanReport ==
  /\ up = "up" /\ at.pc = "report"
  /\ failed' = [failed EXCEPT ![Stem[at.file]] = TurnedAway]
  /\ at' = [at EXCEPT !.pc = "turnaway"]
  /\ UNCHANGED <<last, input, done, moved, jobs, n, up, seen, pass, todo, placing>>

\* Mutant: the file is removed, not moved.
ScanTurnAwayDeletes ==
  /\ up = "up" /\ at.pc = "turnaway"
  /\ input' = [input EXCEPT ![at.file] = None]
  /\ Rest(at.file)
  /\ UNCHANGED <<last, done, failed, moved, jobs, n, up, seen, pass, placing>>

ScanTurnAway ==
  /\ up = "up" /\ at.pc = "turnaway"
  /\ input' = [input EXCEPT ![at.file] = None]
  /\ moved' = [moved EXCEPT !["failed"][at.file] = IF input[at.file] = None THEN @ ELSE input[at.file]]
  /\ Rest(at.file)
  /\ UNCHANGED <<last, done, failed, jobs, n, up, seen, pass, placing>>

\* The copy, submit() or place() failed: the file stays and is seen anew.
ScanFails ==
  /\ up = "up" /\ at.file \in DiskFails /\ at.pc \in {"copy", "submit", "report", "turnaway"}
  /\ Rest(at.file)
  /\ UNCHANGED <<last, folder, jobs, n, up, seen, pass, placing>>

\* seen.retain(exists), at the end of a pass.
ScanEnd ==
  /\ up = "up" /\ pass /\ todo = {}
  /\ pass' = FALSE
  /\ seen' = [f \in Files |-> IF input[f] = None THEN None ELSE seen[f]]
  /\ UNCHANGED <<last, folder, jobs, n, up, todo, at, placing>>

-----------------------------------------------------------------------------
(* The queue's promise, and delivery *)

OutcomeOf(f, state) == IF state = "failed" THEN "error" ELSE IF f \in Checks THEN "report" ELSE "pdf"

\* deliver(): api::outcome, then place().
Deliver(f, state) ==
  [step |-> IF OutcomeOf(f, state) = "pdf" THEN "pdf" ELSE "json",
   as |-> OutcomeOf(f, state), again |-> FALSE]

\* finish(): the job has its result, and its thread goes on to deliver it.
Settle(j, state) ==
  /\ up = "up" /\ j <= n /\ jobs[j].state = "pending"
  /\ jobs' = [jobs EXCEPT ![j].state = state]
  /\ placing' = [placing EXCEPT ![j] = Deliver(jobs[j].file, state)]
  /\ UNCHANGED <<last, folder, n, up, scanner>>

Where(j) == IF placing[j].as = "error" THEN "failed" ELSE "done"
ThenStep(j, step) == placing' = [placing EXCEPT ![j].step = step]

\* atomic_write of done/<stem>.pdf
PlacePdf(j) ==
  /\ up # "down" /\ placing[j].step = "pdf"
  /\ done' = [done EXCEPT ![Stem[jobs[j].file]].pdf = j]
  /\ ThenStep(j, "json")
  /\ UNCHANGED <<last, input, failed, moved, jobs, n, up, scanner>>

\* Mutant: the job counts as delivered once its report is written.
PlaceJsonDelivered(j) ==
  /\ up # "down" /\ placing[j].step = "json"
  /\ LET s == Stem[jobs[j].file] IN
       IF Where(j) = "failed"
       THEN failed' = [failed EXCEPT ![s] = j] /\ UNCHANGED done
       ELSE done' = [done EXCEPT ![s].json = j] /\ UNCHANGED failed
  /\ ThenStep(j, "input")
  /\ jobs' = [jobs EXCEPT ![j].delivered = TRUE]
  /\ UNCHANGED <<last, input, moved, n, up, scanner>>

\* atomic_write of <stem>.json
PlaceJson(j) ==
  /\ up # "down" /\ placing[j].step = "json"
  /\ LET s == Stem[jobs[j].file] IN
       IF Where(j) = "failed"
       THEN failed' = [failed EXCEPT ![s] = j] /\ UNCHANGED done
       ELSE done' = [done EXCEPT ![s].json = j] /\ UNCHANGED failed
  /\ ThenStep(j, "input")
  /\ UNCHANGED <<last, input, moved, jobs, n, up, scanner>>

\* remove_file of the input, or its rename into done/ or failed/; no file is no error.
PlaceInput(j) ==
  /\ up # "down" /\ placing[j].step = "input"
  /\ LET f == jobs[j].file IN
       /\ input' = [input EXCEPT ![f] = None]
       /\ moved' = IF placing[j].as = "pdf" \/ input[f] = None THEN moved
                   ELSE [moved EXCEPT ![Where(j)][f] = input[f]]
  /\ ThenStep(j, "mark")
  /\ UNCHANGED <<last, done, failed, jobs, n, up, scanner>>

\* UPDATE jobs SET delivered=1
Mark(j) ==
  /\ up # "down" /\ placing[j].step = "mark"
  /\ jobs' = [jobs EXCEPT ![j].delivered = TRUE]
  /\ placing' = [placing EXCEPT ![j] = NotPlacing]
  /\ UNCHANGED <<last, folder, n, up, scanner>>

\* A step of place() fails: the error is placed instead, once; then it is left.
PlaceFails(j) ==
  /\ up # "down" /\ placing[j].step \in {"pdf", "json", "input"} /\ jobs[j].file \in DiskFails
  /\ placing' = [placing EXCEPT ![j] =
       IF placing[j].again THEN NotPlacing
       ELSE [step |-> "json", as |-> "error", again |-> TRUE]]
  /\ UNCHANGED <<last, folder, jobs, n, up, scanner>>

-----------------------------------------------------------------------------
(* Crash and restart *)

Crash ==
  /\ up # "down"
  /\ up' = "down"
  /\ seen' = [f \in Files |-> None] /\ pass' = FALSE /\ todo' = {} /\ at' = Resting
  /\ placing' = [j \in Job |-> NotPlacing]
  /\ UNCHANGED <<last, folder, jobs, n>>

\* deliver_pending(): place() again for every finished job not marked as delivered.
Open ==
  /\ up = "down" /\ up' = "opening"
  /\ placing' = [j \in Job |-> IF j <= n /\ jobs[j].state # "pending" /\ ~jobs[j].delivered
                               THEN Deliver(jobs[j].file, jobs[j].state) ELSE NotPlacing]
  /\ UNCHANGED <<last, folder, jobs, n, scanner>>

Serve ==
  /\ up = "opening" /\ \A j \in Job : placing[j] = NotPlacing
  /\ up' = "up"
  /\ UNCHANGED <<last, folder, jobs, n, scanner, placing>>

-----------------------------------------------------------------------------
Scan ==
  \/ ScanStart \/ ScanInFlight \/ ScanCopy \/ ScanSubmit \/ ScanReport \/ ScanTurnAway \/ ScanEnd
  \/ \E f \in Files : ScanSig(f)

Place(j) == PlacePdf(j) \/ PlaceJson(j) \/ PlaceInput(j) \/ Mark(j)

Next ==
  \/ \E f \in Files : Write(f)
  \/ Scan \/ ScanFails
  \/ \E j \in Job : \/ Place(j) \/ PlaceFails(j)
                    \/ \E state \in {"done", "failed"} : Settle(j, state)
  \/ Crash \/ Open \/ Serve

Spec == Init /\ [][Next]_vars

\* The threads run; the queue settles its jobs (Cluster: EveryJobSettles).
Fairness ==
  /\ WF_vars(Open \/ Serve)
  /\ \A f \in Files : WF_vars(ScanSig(f))
  /\ WF_vars(ScanStart \/ ScanEnd) /\ WF_vars(ScanInFlight) /\ WF_vars(ScanCopy)
  /\ WF_vars(ScanSubmit) /\ WF_vars(ScanReport) /\ WF_vars(ScanTurnAway)
  /\ \A j \in Job : WF_vars(Place(j)) /\ WF_vars(\E state \in {"done", "failed"} : Settle(j, state))

FairSpec == Spec /\ Fairness

-----------------------------------------------------------------------------
(* Properties *)

JobsOf(f) == {j \in 1..n : jobs[j].file = f}

\* docs/self-hosting.md:144: "Drop files into input/; once a file has stopped growing it is
\* queued."  What the user wrote last is never thrown away unconverted: it is in input/, or
\* it was queued, or it lies in failed/ as a file that was turned away.
NothingLost ==
  \A f \in Files :
    last[f] = 0 \/ input[f] = last[f] \/ moved["failed"][f] = last[f]
    \/ \E j \in JobsOf(f) : jobs[j].ver = last[f]

\* in_flight(): a name has at most one job that is not delivered, so that no two deliveries
\* write the same outputs.
OneInFlight == \A f \in Files : \A j, k \in Undelivered(f) : j = k

\* A version is converted once: place() takes the input away before delivered=1 lets the
\* scanner look at the name again, in whatever order crashes and restarts cut them.
ConvertedOnce ==
  \A j, k \in 1..n : j # k /\ jobs[j].file = jobs[k].file => jobs[j].ver # jobs[k].ver

\* What the user finds in done/ or failed/ of a job.
Found(j, as) ==
  LET f == jobs[j].file IN
  CASE as = "pdf" -> done[Stem[f]] = [pdf |-> j, json |-> j]
    [] as = "report" -> done[Stem[f]].json = j /\ moved["done"][f] = jobs[j].ver
    [] as = "error" -> moved["failed"][f] \in jobs[j].ver..last[f] /\ failed[Stem[f]] \in {j, TurnedAway}

\* docs/self-hosting.md:144: a converted file "lands in done/ under the same name with .pdf,
\* with its report next to it as .json", a rejected one "moves to failed/ with a .json that
\* says why", a checked one leaves "the report [in] done/ with the untouched original".
\* This is so for the last job of a file from the moment it counts as delivered; where the
\* disk failed, deliver() has put an error into failed/ in its stead.
OutcomeInPlace ==
  \A f \in Files : \A j \in JobsOf(f) :
    (jobs[j].delivered /\ \A k \in JobsOf(f) : k <= j) =>
      Found(j, OutcomeOf(f, jobs[j].state)) \/ (f \in DiskFails /\ Found(j, "error"))

\* A file a careful user drops is taken out of input/ in the end, by a delivery or because
\* it was turned away, if the coordinator is at last up for good and its disk works; the
\* failures of another folder do not hold it up.
FilesHandled == <>[](up = "up") => \A f \in Files \ DiskFails : input[f] # None ~> input[f] = None

-----------------------------------------------------------------------------
(* The inductive invariant behind OneInFlight and ConvertedOnce *)

\* Rows are numbered in order, and only a row is ever delivered.
RowsInv ==
  /\ \A j \in Job : (j <= n => jobs[j] \in JobRow) /\ (placing[j].step # "no" => j <= n)
  /\ \A j \in 1..n : jobs[j].ver <= last[jobs[j].file]

\* A delivered job has taken its input away: whatever lies there now was written later.
TakenInv ==
  /\ \A f \in Files : input[f] = None \/ input[f] <= last[f]
  /\ \A j \in 1..n : jobs[j].delivered \/ placing[j].step = "mark" =>
       input[jobs[j].file] = None \/ jobs[j].ver < input[jobs[j].file]

\* Past in_flight() every job of the name is delivered, and what was copied is newer.
ScanInv ==
  /\ at.pc # "rest" => at.file \in Files
  /\ at.pc \notin {"rest", "checked"} =>
       \A j \in 1..n : jobs[j].file = at.file => jobs[j].delivered
  /\ at.pc \notin {"rest", "checked", "copy"} =>
       /\ at.ver \in Version /\ at.ver <= last[at.file]
       /\ \A j \in 1..n : jobs[j].file = at.file => jobs[j].ver < at.ver

HInv == TypeOK /\ RowsInv /\ TakenInv /\ ScanInv /\ OneInFlight /\ ConvertedOnce

-----------------------------------------------------------------------------
(* What NothingLost and OutcomeInPlace need besides: a careful user, and for the latter *)
(* files with stems of their own                                                        *)

OwnStem == \A f, g \in Files : Stem[f] = Stem[g] => f = g

\* A job is delivered after it is settled, as what it came to or, where the disk failed, as
\* an error.
DeliveryInv ==
  /\ \A j \in 1..n : jobs[j].state = "pending" => ~jobs[j].delivered
  /\ \A j \in Job : placing[j].step # "no" =>
       /\ jobs[j].state # "pending" /\ ~jobs[j].delivered
       /\ \/ placing[j].as = OutcomeOf(jobs[j].file, jobs[j].state)
          \/ jobs[j].file \in DiskFails /\ placing[j].as = "error"

\* A file is not written anew while a job for it is under way: what lies in input/, what the
\* scanner has copied and what a job is about are the last version, and that job is the
\* name's last.
CarefulInv ==
  /\ \A f \in Files : input[f] \in {last[f], None}
  /\ at.pc \in {"submit", "report", "turnaway"} => input[at.file] = at.ver
  /\ \A j \in 1..n : ~jobs[j].delivered =>
       jobs[j].ver = last[jobs[j].file] /\ \A k \in JobsOf(jobs[j].file) : k <= j
  /\ NothingLost

InPlace(j) ==
  \/ Found(j, OutcomeOf(jobs[j].file, jobs[j].state))
  \/ jobs[j].file \in DiskFails /\ Found(j, "error")

\* What place() has written before it takes the input away.
Outputs(j) ==
  LET s == Stem[jobs[j].file] IN
  CASE placing[j].as = "pdf" -> done[s] = [pdf |-> j, json |-> j]
    [] placing[j].as = "report" -> done[s].json = j
    [] placing[j].as = "error" -> failed[s] = j

\* The original of a job lies in input/ until an outcome is in place for it: place() writes
\* the outputs first, and a crash or a failed step leaves one of the two.
PlacedInv ==
  /\ \A j \in 1..n : ~jobs[j].delivered =>
       input[jobs[j].file] = jobs[j].ver \/ (jobs[j].state # "pending" /\ InPlace(j))
  /\ \A j \in Job : /\ placing[j].step = "json" /\ placing[j].as = "pdf" => done[Stem[jobs[j].file]].pdf = j
                    /\ placing[j].step = "input" => Outputs(j)
  /\ OutcomeInPlace
=============================================================================
