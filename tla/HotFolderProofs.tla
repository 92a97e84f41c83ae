-------------------------- MODULE HotFolderProofs --------------------------
(***************************************************************************)
(* What holds of the watched folders for any set of files and every number *)
(* of versions and jobs, failing disks included: the first theorems with   *)
(* careless users too, NeverLost and OutcomeStays with careful ones.       *)
(***************************************************************************)
EXTENDS HotFolder, TLAPS

\* The folder, the versions and the rows are what the steps below leave alone.
LEMMA Numbers ==
  ASSUME HInv
  PROVE  /\ n \in Int /\ n >= 0 /\ n <= MaxJobs /\ 1..n \subseteq Job
         /\ \A f \in Files : last[f] \in Int /\ (input[f] = None \/ input[f] \in Version)
         /\ \A j \in 1..n : /\ jobs[j] \in JobRow /\ jobs[j].file \in Files
                            /\ jobs[j].ver \in Int
         /\ \A j \in Job : j \in Int /\ (j <= n => j \in 1..n)
  BY BoundAssumption DEF HInv, TypeOK, RowsInv, Job, Version, JobRow

\* Steps that touch neither rows nor versions, and take nothing but inputs away.
LEMMA SameJobs ==
  ASSUME HInv, TypeOK', jobs' = jobs, n' = n, last' = last, ScanInv',
         \A f \in Files : input'[f] \in {input[f], None},
         \A j \in Job : placing'[j].step # "no" => j <= n,
         \A j \in 1..n : placing'[j].step = "mark" =>
           placing[j].step = "mark" \/ input'[jobs[j].file] = None
  PROVE  HInv'
<1>1. RowsInv'
  BY Zenon DEF HInv, RowsInv
<1>2. TakenInv'
  <2>1. \A f \in Files : input'[f] = None \/ input'[f] <= last'[f]
    BY Zenon DEF HInv, TakenInv
  <2>2. ASSUME NEW j \in 1..n, jobs[j].delivered \/ placing'[j].step = "mark"
        PROVE  input'[jobs[j].file] = None \/ jobs[j].ver < input'[jobs[j].file]
    <3>1. input'[jobs[j].file] \in {input[jobs[j].file], None}
      BY Numbers, Zenon
    <3>. QED BY <2>2, <3>1, Zenon DEF HInv, TakenInv
  <2>. QED BY <2>1, <2>2, Zenon DEF TakenInv
<1>3. OneInFlight' /\ ConvertedOnce'
  BY DEF HInv, OneInFlight, ConvertedOnce, Undelivered
<1>. QED BY <1>1, <1>2, <1>3, Zenon DEF HInv

-----------------------------------------------------------------------------
(* The user and the scanner *)

\* A producer that writes a file into the watched folder keeps the invariant.
LEMMA WriteInv == ASSUME HInv, NEW f \in Files, Write(f) PROVE HInv'
<1>1. /\ last' = [last EXCEPT ![f] = last[f] + 1] /\ input' = [input EXCEPT ![f] = last[f] + 1]
      /\ last[f] + 1 \in Version /\ last[f] + 1 \in 0..MaxVersion
      /\ UNCHANGED <<done, failed, moved, jobs, n, up, scanner, placing>>
  BY BoundAssumption DEF Write, HInv, TypeOK, Version
<1>2. TypeOK'
  BY <1>1, Zenon DEF HInv, TypeOK, scanner
<1>3. \A g \in Files : /\ last[g] \in Int /\ last'[g] = IF g = f THEN last[g] + 1 ELSE last[g]
                       /\ last[g] <= last'[g]
                       /\ input'[g] = IF g = f THEN last[g] + 1 ELSE input[g]
  BY <1>1, Numbers DEF HInv, TypeOK
<1>4. RowsInv'
  <2>1. \A j \in 1..n : jobs[j].ver <= last'[jobs[j].file]
    BY <1>3, Numbers DEF HInv, RowsInv
  <2>. QED BY <1>1, <2>1, Zenon DEF HInv, RowsInv
<1>5. TakenInv'
  <2>1. ASSUME NEW g \in Files PROVE input'[g] = None \/ input'[g] <= last'[g]
    BY <1>3, Numbers DEF HInv, TakenInv
  <2>2. ASSUME NEW j \in 1..n, jobs[j].delivered \/ placing[j].step = "mark"
        PROVE  input'[jobs[j].file] = None \/ jobs[j].ver < input'[jobs[j].file]
    <3>1. jobs[j].ver < last[jobs[j].file] + 1
      BY Numbers DEF HInv, RowsInv
    <3>. QED BY <1>3, <2>2, <3>1, Numbers, Zenon DEF HInv, TakenInv
  <2>. QED BY <1>1, <2>1, <2>2, Zenon DEF TakenInv
<1>6. ScanInv'
  <2>1. at.pc \notin {"rest", "checked", "copy"} => at.ver <= last'[at.file]
    BY <1>3, BoundAssumption DEF HInv, ScanInv, Version
  <2>. QED BY <1>1, <2>1, Zenon DEF HInv, ScanInv, scanner
<1>7. OneInFlight' /\ ConvertedOnce'
  BY <1>1 DEF HInv, OneInFlight, ConvertedOnce, Undelivered
<1>. QED BY <1>2, <1>4, <1>5, <1>6, <1>7, Zenon DEF HInv

\* The scanner steps that end with an entry, or go on to look at one.
LEMMA ScanStepsInv ==
  ASSUME HInv, ScanStart \/ ScanEnd \/ ScanFails \/ \E f \in Files : ScanSig(f) PROVE HInv'
<1>1. Resting \in [pc: {"rest", "checked", "copy", "submit", "report", "turnaway"},
                   file: Files \cup {None}, ver: Version \cup {None}]
  BY Zenon DEF Resting
<1>2. CASE ScanStart \/ ScanEnd
  <2>1. TypeOK'
    BY <1>2, Zenon DEF HInv, TypeOK, ScanStart, ScanEnd, folder
  <2>2. ScanInv'
    BY <1>2, Zenon DEF HInv, ScanInv, ScanStart, ScanEnd
  <2>. QED BY <1>2, <2>1, <2>2, SameJobs, Zenon DEF ScanStart, ScanEnd, folder, HInv, RowsInv
<1>3. CASE ScanFails
  <2>1. TypeOK'
    BY <1>1, <1>3, Zenon DEF HInv, TypeOK, ScanFails, Rest, folder
  <2>2. ScanInv'
    BY <1>3, Zenon DEF ScanInv, ScanFails, Rest, Resting
  <2>. QED BY <1>3, <2>1, <2>2, SameJobs, Zenon DEF ScanFails, folder, HInv, RowsInv
<1>4. ASSUME NEW f \in Files, ScanSig(f) PROVE HInv'
  <2>1. at' \in [pc: {"rest", "checked", "copy", "submit", "report", "turnaway"},
                 file: Files \cup {None}, ver: Version \cup {None}]
        /\ (at' = Resting \/ at' = [pc |-> "checked", file |-> f, ver |-> None])
    BY <1>1, <1>4 DEF ScanSig, Rest
  <2>2. TypeOK'
    BY <1>4, <2>1 DEF HInv, TypeOK, ScanSig, Rest, folder
  <2>3. ScanInv'
    BY <2>1 DEF ScanInv, Resting
  <2>. QED BY <1>4, <2>2, <2>3, SameJobs, Zenon DEF ScanSig, folder, HInv, RowsInv
<1>. QED BY <1>2, <1>3, <1>4, Zenon

\* scan()'s read of the rows in flight keeps the invariant.
LEMMA ScanInFlightInv == ASSUME HInv, ScanInFlight PROVE HInv'
<1>1. at.file \in Files
  BY Zenon DEF ScanInFlight, HInv, ScanInv
<1>2. TypeOK' /\ ScanInv'
  <2>1. CASE InFlight(at.file)
    BY <2>1 DEF ScanInFlight, Rest, Resting, HInv, TypeOK, ScanInv, folder
  <2>2. CASE ~InFlight(at.file)
    <3>1. /\ at' = [at EXCEPT !.pc = "copy"] /\ at'.pc = "copy" /\ at'.file = at.file
          /\ UNCHANGED <<last, folder, jobs, n, up, pass, todo, placing>>
          /\ seen' = [seen EXCEPT ![at.file] = None]
      BY <2>2, Zenon DEF ScanInFlight, HInv, TypeOK
    <3>2. \A j \in 1..n : jobs[j].file = at.file => jobs[j].delivered
      BY <2>2, Zenon DEF InFlight, Undelivered
    <3>3. TypeOK'
      BY <1>1, <3>1, Zenon DEF HInv, TypeOK, folder
    <3>. QED BY <1>1, <3>1, <3>2, <3>3, Zenon DEF ScanInv
  <2>. QED BY <2>1, <2>2, Zenon
<1>. QED BY <1>2, SameJobs, Zenon DEF ScanInFlight, folder, HInv, RowsInv

\* The copy is newer than every job of the name: all are delivered, so their input is gone.
LEMMA ScanCopyInv == ASSUME HInv, ScanCopy PROVE HInv'
<1>1. at.file \in Files /\ at.pc = "copy"
  BY Zenon DEF ScanCopy, HInv, ScanInv
<1>2. TypeOK' /\ ScanInv'
  <2>1. CASE input[at.file] = None
    BY <2>1 DEF ScanCopy, Rest, Resting, HInv, TypeOK, ScanInv, folder
  <2>2. CASE input[at.file] # None
    <3>1. /\ at'.pc \in {"submit", "report"} /\ at'.file = at.file /\ at'.ver = input[at.file]
          /\ UNCHANGED <<last, folder, jobs, n, up, pass, todo, seen, placing>>
      BY <2>2, Zenon DEF ScanCopy, HInv, TypeOK
    <3>2. input[at.file] \in Version /\ input[at.file] <= last[at.file]
      BY <1>1, <2>2, Numbers, Zenon DEF HInv, TakenInv
    <3>3. ASSUME NEW j \in 1..n, jobs[j].file = at.file
          PROVE  jobs[j].delivered /\ jobs[j].ver < input[at.file]
      BY <1>1, <2>2, <3>3, Zenon DEF HInv, ScanInv, TakenInv
    <3>4. TypeOK'
      <4>1. todo' \subseteq Files /\ at' \in [pc: {"rest", "checked", "copy", "submit", "report", "turnaway"},
                                            file: Files \cup {None}, ver: Version \cup {None}]
        BY <2>2, <3>2, Zenon DEF ScanCopy, HInv, TypeOK
      <4>. QED BY <3>1, <4>1, Zenon DEF HInv, TypeOK, folder
    <3>5. ScanInv'
      BY <1>1, <3>1, <3>2, <3>3, Zenon DEF ScanInv, folder
    <3>. QED BY <3>4, <3>5, Zenon
  <2>. QED BY <2>1, <2>2, Zenon
<1>. QED BY <1>2, SameJobs, Zenon DEF ScanCopy, folder, HInv, RowsInv

\* scan()'s submission of a settled file keeps the invariant.
LEMMA ScanSubmitInv == ASSUME HInv, ScanSubmit PROVE HInv'
<1> DEFINE row == [file |-> at.file, ver |-> at.ver, state |-> "pending", delivered |-> FALSE]
<1>1. /\ at.file \in Files /\ at.ver \in Version /\ at.ver <= last[at.file]
      /\ \A j \in 1..n : jobs[j].file = at.file => jobs[j].delivered /\ jobs[j].ver < at.ver
  BY Zenon DEF ScanSubmit, HInv, ScanInv
<1>2. row \in JobRow /\ row.file = at.file /\ row.ver = at.ver /\ ~row.delivered
  BY <1>1, Zenon DEF JobRow
<1>3. /\ n' = n + 1 /\ n + 1 \in Job /\ jobs' = [jobs EXCEPT ![n + 1] = row]
      /\ at' = Resting /\ todo' \subseteq Files
      /\ UNCHANGED <<last, folder, up, seen, pass, placing>>
  BY Numbers, BoundAssumption DEF ScanSubmit, Rest, Job, HInv, TypeOK
<1>. HIDE DEF row
<1>4. /\ jobs'[n + 1] = row /\ (\A j \in 1..n : jobs'[j] = jobs[j])
      /\ 1..n' = 1..n \cup {n + 1} /\ n + 1 \notin 1..n
  <2>1. 1..n' = 1..n \cup {n + 1} /\ n + 1 \notin 1..n /\ 1..n \subseteq Job
    BY <1>3, Numbers
  <2>2. jobs \in [Job -> JobRow \cup {NoJob}]
    BY Zenon DEF HInv, TypeOK
  <2>. QED BY <1>3, <2>1, <2>2, Zenon
<1>5. TypeOK'
  <2>1. n + 1 \in 0..MaxJobs
    BY <1>3, BoundAssumption DEF Job
  <2>2. jobs' \in [Job -> JobRow \cup {NoJob}]
    BY <1>2, <1>3, Zenon DEF HInv, TypeOK
  <2>3. at' \in [pc: {"rest", "checked", "copy", "submit", "report", "turnaway"},
                file: Files \cup {None}, ver: Version \cup {None}]
    BY <1>3, Zenon DEF Resting
  <2>. QED BY <1>3, <2>1, <2>2, <2>3, Zenon DEF HInv, TypeOK, folder
<1>6. RowsInv'
  <2>1. \A j \in Job : j <= n + 1 => j \in 1..n \/ j = n + 1
    BY Numbers
  <2>2. \A j \in Job : placing[j].step # "no" => j <= n + 1
    BY Numbers DEF HInv, RowsInv
  <2>. QED BY <1>1, <1>2, <1>3, <1>4, <2>1, <2>2, Numbers DEF HInv, RowsInv
<1>7. TakenInv'
  <2>1. placing[n + 1].step = "no"
    BY <1>3, Numbers DEF HInv, RowsInv
  <2>2. ASSUME NEW j \in 1..n', jobs'[j].delivered \/ placing[j].step = "mark"
        PROVE  input[jobs'[j].file] = None \/ jobs'[j].ver < input[jobs'[j].file]
    BY <1>2, <1>4, <2>1, <2>2, Zenon DEF HInv, TakenInv
  <2>. QED BY <1>3, <2>2, Zenon DEF HInv, TakenInv, folder
<1>8. ScanInv'
  BY <1>3, Zenon DEF ScanInv, Resting
<1>9. OneInFlight'
  <2>1. ASSUME NEW f \in Files, NEW j \in 1..n', NEW k \in 1..n', jobs'[j].file = f,
               jobs'[k].file = f, ~jobs'[j].delivered, ~jobs'[k].delivered
        PROVE  j = k
    <3>1. CASE j \in 1..n /\ k \in 1..n
      BY <1>4, <2>1, <3>1 DEF HInv, OneInFlight, Undelivered
    <3>. QED BY <1>1, <1>2, <1>4, <2>1, <3>1, Zenon
  <2>. QED BY <2>1, Zenon DEF OneInFlight, Undelivered
<1>10. ConvertedOnce'
  <2>1. ASSUME NEW j \in 1..n', NEW k \in 1..n', j # k, jobs'[j].file = jobs'[k].file
        PROVE  jobs'[j].ver # jobs'[k].ver
    <3>1. CASE j \in 1..n /\ k \in 1..n
      BY <1>4, <2>1, <3>1, Zenon DEF HInv, ConvertedOnce
    <3>2. ASSUME NEW m \in 1..n, jobs[m].file = at.file PROVE jobs[m].ver # at.ver
      BY <1>1, <3>2, Numbers DEF Version
    <3>. QED BY <1>2, <1>4, <2>1, <3>1, <3>2, Zenon
  <2>. QED BY <2>1, Zenon DEF ConvertedOnce
<1>. QED BY <1>5, <1>6, <1>7, <1>8, <1>9, <1>10, Zenon DEF HInv

\* A file that is turned away: its report, then the file itself.
LEMMA TurnAwayInv == ASSUME HInv, ScanReport \/ ScanTurnAway PROVE HInv'
<1>1. at.file \in Files /\ Stem[at.file] \in Stems
  BY Zenon DEF ScanReport, ScanTurnAway, HInv, ScanInv, Stems
<1>2. CASE ScanReport
  <2>1. TypeOK'
    BY <1>1, <1>2, Zenon DEF ScanReport, HInv, TypeOK
  <2>2. at'.pc = "turnaway" /\ at'.file = at.file /\ at'.ver = at.ver /\ at.pc = "report"
    BY <1>2, Zenon DEF ScanReport, HInv, TypeOK
  <2>3. ScanInv'
    BY <1>2, <2>2, Zenon DEF ScanReport, HInv, ScanInv
  <2>. QED BY <1>2, <2>1, <2>3, SameJobs, Zenon DEF ScanReport, HInv, RowsInv
<1>3. CASE ScanTurnAway
  <2>1. moved["failed"] \in [Files -> Version \cup {None}]
    BY Zenon DEF HInv, TypeOK
  <2>2. moved' \in [{"done", "failed"} -> [Files -> Version \cup {None}]]
    BY <1>1, <1>3, <2>1, Zenon DEF ScanTurnAway, HInv, TypeOK
  <2>3. input' = [input EXCEPT ![at.file] = None] /\ at' = Resting
    BY <1>3, Zenon DEF ScanTurnAway, Rest
  <2>4. input' \in [Files -> Version \cup {None}] /\ todo' \subseteq Files
    BY <1>3, <2>3, Zenon DEF ScanTurnAway, Rest, HInv, TypeOK
  <2>5. TypeOK'
    BY <1>3, <2>2, <2>3, <2>4, Zenon DEF ScanTurnAway, HInv, TypeOK, Resting
  <2>6. ScanInv'
    BY <2>3, Zenon DEF ScanInv, Resting
  <2>. QED BY <1>3, <2>3, <2>5, <2>6, SameJobs, Zenon DEF ScanTurnAway, HInv, TypeOK, RowsInv
<1>. QED BY <1>2, <1>3, Zenon

-----------------------------------------------------------------------------
(* Delivery *)

\* deliver() begins with the PDF or with the report.
LEMMA DeliverFields ==
  ASSUME NEW f, NEW state
  PROVE  /\ Deliver(f, state).step \in {"pdf", "json"}
         /\ Deliver(f, state) \in [step: {"no", "pdf", "json", "input", "mark"},
                                   as: {"pdf", "report", "error", None}, again: BOOLEAN]
BY Zenon DEF Deliver, OutcomeOf

\* place() is at work on job j.
LEMMA AtWork ==
  ASSUME HInv, NEW j \in Job, placing[j].step # "no"
  PROVE  j \in 1..n /\ jobs[j] \in JobRow /\ jobs[j].file \in Files /\ Stem[jobs[j].file] \in Stems
BY Numbers, Zenon DEF HInv, RowsInv, Stems

\* Each step of place(), and its failure, keeps the invariant.
LEMMA PlaceStepsInv ==
  ASSUME HInv, NEW j \in Job, PlacePdf(j) \/ PlaceJson(j) \/ PlaceInput(j) \/ PlaceFails(j)
  PROVE  HInv'
<1>1. /\ placing[j].step # "no" /\ j \in 1..n /\ j <= n
      /\ jobs[j].file \in Files /\ Stem[jobs[j].file] \in Stems
  BY AtWork, Numbers DEF PlacePdf, PlaceJson, PlaceInput, PlaceFails
<1>2. ScanInv'
  BY Zenon DEF HInv, ScanInv, PlacePdf, PlaceJson, PlaceInput, PlaceFails, scanner
<1>3. \A k \in Job : k # j => placing'[k] = placing[k]
  BY Zenon DEF PlacePdf, PlaceJson, PlaceInput, PlaceFails, ThenStep, HInv, TypeOK
<1>4. \A k \in Job : placing'[k].step # "no" => k <= n
  BY <1>1, <1>3, Zenon DEF HInv, RowsInv
<1>5. ASSUME NEW step \in {"json", "input", "mark"}, ThenStep(j, step)
      PROVE  /\ placing' \in [Job -> [step: {"no", "pdf", "json", "input", "mark"},
                                      as: {"pdf", "report", "error", None}, again: BOOLEAN]]
             /\ placing'[j].step = step
  BY <1>5 DEF ThenStep, HInv, TypeOK
<1>6. CASE PlacePdf(j)
  <2>1. done[Stem[jobs[j].file]] \in [pdf: Job \cup {None}, json: Job \cup {None}]
    BY <1>1, Zenon DEF HInv, TypeOK
  <2>2. done' = [done EXCEPT ![Stem[jobs[j].file]] = [done[Stem[jobs[j].file]] EXCEPT !.pdf = j]]
    BY <1>6, Zenon DEF PlacePdf
  <2>3. done' \in [Stems -> [pdf: Job \cup {None}, json: Job \cup {None}]]
    BY <2>1, <2>2, Zenon DEF HInv, TypeOK
  <2>4. TypeOK' /\ placing'[j].step = "json"
    BY <1>5, <1>6, <2>3, Zenon DEF PlacePdf, HInv, TypeOK, scanner
  <2>. QED BY <1>2, <1>3, <1>4, <1>6, <2>4, SameJobs, Numbers, Zenon DEF PlacePdf
<1>7. CASE PlaceJson(j)
  <2>1. done[Stem[jobs[j].file]] \in [pdf: Job \cup {None}, json: Job \cup {None}]
    BY <1>1, Zenon DEF HInv, TypeOK
  <2>2. \/ done' = done
        \/ done' = [done EXCEPT ![Stem[jobs[j].file]] = [done[Stem[jobs[j].file]] EXCEPT !.json = j]]
    BY <1>7, Zenon DEF PlaceJson
  <2>3. done' \in [Stems -> [pdf: Job \cup {None}, json: Job \cup {None}]]
    <3>1. [done[Stem[jobs[j].file]] EXCEPT !.json = j] \in [pdf: Job \cup {None}, json: Job \cup {None}]
      BY <2>1, Zenon
    <3> QED BY <2>2, <3>1, Zenon DEF HInv, TypeOK
  <2>4. failed' \in [Stems -> Job \cup {TurnedAway, None}]
    BY <1>7, Zenon DEF PlaceJson, HInv, TypeOK
  <2>5. TypeOK' /\ placing'[j].step = "input"
    BY <1>5, <1>7, <2>3, <2>4, Zenon DEF PlaceJson, HInv, TypeOK, scanner
  <2>. QED BY <1>2, <1>3, <1>4, <1>7, <2>5, SameJobs, Numbers, Zenon DEF PlaceJson
<1>8. CASE PlaceInput(j)
  <2>1. input' = [input EXCEPT ![jobs[j].file] = None]
        /\ input' \in [Files -> Version \cup {None}] /\ input'[jobs[j].file] = None
    BY <1>1, <1>8, Zenon DEF PlaceInput, HInv, TypeOK
  <2>2. moved' \in [{"done", "failed"} -> [Files -> Version \cup {None}]]
    <3>1. Where(j) \in {"done", "failed"} /\ moved[Where(j)] \in [Files -> Version \cup {None}]
      BY Zenon DEF Where, HInv, TypeOK
    <3>2. input[jobs[j].file] \in Version \cup {None}
      BY <1>1, Zenon DEF HInv, TypeOK
    <3>3. \/ moved' = moved
          \/ moved' = [moved EXCEPT ![Where(j)] = [moved[Where(j)] EXCEPT ![jobs[j].file] = input[jobs[j].file]]]
      BY <1>8, Zenon DEF PlaceInput
    <3>4. [moved[Where(j)] EXCEPT ![jobs[j].file] = input[jobs[j].file]] \in [Files -> Version \cup {None}]
      BY <3>1, <3>2, Zenon
    <3>5. moved \in [{"done", "failed"} -> [Files -> Version \cup {None}]]
      BY Zenon DEF HInv, TypeOK
    <3>. QED BY <3>1, <3>3, <3>4, <3>5, Zenon
  <2>3. TypeOK' /\ placing'[j].step = "mark"
    BY <1>5, <1>8, <2>1, <2>2, Zenon DEF PlaceInput, HInv, TypeOK, scanner
  <2>4. \A f \in Files : input'[f] \in {input[f], None}
    BY <2>1, Zenon DEF HInv, TypeOK
  <2>5. \A k \in 1..n : placing'[k].step = "mark" =>
          placing[k].step = "mark" \/ input'[jobs[k].file] = None
    BY <1>3, <2>1, Numbers, Zenon
  <2>. QED BY <1>2, <1>4, <1>8, <2>3, <2>4, <2>5, SameJobs, Zenon DEF PlaceInput
<1>9. CASE PlaceFails(j)
  <2>1. placing' \in [Job -> [step: {"no", "pdf", "json", "input", "mark"},
                              as: {"pdf", "report", "error", None}, again: BOOLEAN]]
        /\ placing'[j].step \in {"no", "json"}
    BY <1>9, Zenon DEF PlaceFails, NotPlacing, HInv, TypeOK
  <2>2. TypeOK'
    BY <1>9, <2>1, Zenon DEF PlaceFails, HInv, TypeOK, scanner, folder
  <2>. QED BY <1>2, <1>3, <1>4, <1>9, <2>1, <2>2, SameJobs, Numbers, Zenon DEF PlaceFails, folder
<1>. QED BY <1>6, <1>7, <1>8, <1>9, Zenon

\* The result of job j is recorded, and its delivery begins.
LEMMA SettleInv ==
  ASSUME HInv, NEW j \in Job, NEW state \in {"done", "failed"}, Settle(j, state) PROVE HInv'
<1> DEFINE row == [jobs[j] EXCEPT !.state = state]
<1>1. j \in 1..n /\ j <= n /\ jobs[j] \in JobRow
  BY Numbers, Zenon DEF Settle
<1>2. row \in JobRow /\ row.file = jobs[j].file /\ row.ver = jobs[j].ver
      /\ row.delivered = jobs[j].delivered
  BY <1>1, Zenon DEF JobRow
<1>3. jobs' = [jobs EXCEPT ![j] = row] /\ UNCHANGED <<last, folder, n, up, scanner>>
  BY Zenon DEF Settle
<1>. HIDE DEF row
<1>4. /\ jobs'[j] = row /\ (\A k \in Job : k # j => jobs'[k] = jobs[k])
      /\ jobs' \in [Job -> JobRow \cup {NoJob}]
  BY <1>2, <1>3, Zenon DEF HInv, TypeOK
<1>5. /\ placing' \in [Job -> [step: {"no", "pdf", "json", "input", "mark"},
                               as: {"pdf", "report", "error", None}, again: BOOLEAN]]
      /\ placing'[j].step \in {"pdf", "json"}
      /\ \A k \in Job : k # j => placing'[k] = placing[k]
  BY DeliverFields, Zenon DEF Settle, HInv, TypeOK
<1>6. \A k \in Job : jobs'[k].file = jobs[k].file /\ jobs'[k].ver = jobs[k].ver
                     /\ jobs'[k].delivered = jobs[k].delivered
                     /\ (jobs[k] \in JobRow => jobs'[k] \in JobRow)
  BY <1>2, <1>4, Zenon
<1>7. 1..n \subseteq Job
  BY Numbers, Zenon
<1>8. TypeOK'
  BY <1>3, <1>4, <1>5, Zenon DEF HInv, TypeOK, folder, scanner
<1>9. RowsInv'
  BY <1>1, <1>3, <1>5, <1>6, <1>7, Zenon DEF HInv, RowsInv
<1>10. TakenInv'
  BY <1>3, <1>5, <1>6, <1>7 DEF HInv, TakenInv, folder
<1>11. ScanInv'
  BY <1>3, <1>6, <1>7 DEF HInv, ScanInv, scanner
<1>12. OneInFlight' /\ ConvertedOnce'
  BY <1>3, <1>6, <1>7 DEF HInv, OneInFlight, ConvertedOnce, Undelivered
<1>. QED BY <1>8, <1>9, <1>10, <1>11, <1>12, Zenon DEF HInv

\* Only a job whose input has been taken away is marked as delivered.
LEMMA MarkInv == ASSUME HInv, NEW j \in Job, Mark(j) PROVE HInv'
<1> DEFINE row == [jobs[j] EXCEPT !.delivered = TRUE]
<1>1. placing[j].step = "mark" /\ j \in 1..n /\ jobs[j] \in JobRow
  BY AtWork, Zenon DEF Mark
<1>2. row \in JobRow /\ row.file = jobs[j].file /\ row.ver = jobs[j].ver /\ row.delivered
  BY <1>1, Zenon DEF JobRow
<1>3. jobs' = [jobs EXCEPT ![j] = row] /\ UNCHANGED <<last, folder, n, up, scanner>>
  BY Zenon DEF Mark
<1>. HIDE DEF row
<1>4. /\ jobs'[j] = row /\ (\A k \in Job : k # j => jobs'[k] = jobs[k])
      /\ jobs' \in [Job -> JobRow \cup {NoJob}]
  BY <1>2, <1>3, Zenon DEF HInv, TypeOK
<1>5. /\ placing' \in [Job -> [step: {"no", "pdf", "json", "input", "mark"},
                               as: {"pdf", "report", "error", None}, again: BOOLEAN]]
      /\ placing'[j].step = "no" /\ \A k \in Job : k # j => placing'[k] = placing[k]
  BY Zenon DEF Mark, NotPlacing, HInv, TypeOK
<1>6. \A k \in Job : jobs'[k].file = jobs[k].file /\ jobs'[k].ver = jobs[k].ver
                     /\ (jobs[k].delivered => jobs'[k].delivered)
                     /\ (jobs'[k].delivered => jobs[k].delivered \/ k = j)
                     /\ (jobs[k] \in JobRow => jobs'[k] \in JobRow)
  BY <1>2, <1>4, Zenon
<1>7. 1..n \subseteq Job
  BY Numbers, Zenon
<1>8. TypeOK'
  BY <1>3, <1>4, <1>5, Zenon DEF HInv, TypeOK, folder, scanner
<1>9. RowsInv'
  BY <1>3, <1>5, <1>6, <1>7, Zenon DEF HInv, RowsInv
<1>10. TakenInv'
  BY <1>1, <1>3, <1>5, <1>6, <1>7 DEF HInv, TakenInv, folder
<1>11. ScanInv'
  BY <1>3, <1>6, <1>7, Zenon DEF HInv, ScanInv, scanner
<1>12. OneInFlight' /\ ConvertedOnce'
  BY <1>3, <1>6, <1>7 DEF HInv, OneInFlight, ConvertedOnce, Undelivered
<1>. QED BY <1>8, <1>9, <1>10, <1>11, <1>12, Zenon DEF HInv

-----------------------------------------------------------------------------
(* Restarts, and the theorems *)

\* A crash and the deliver_pending() of the next start keep the invariant.
LEMMA RestartInv == ASSUME HInv, Crash \/ Open \/ Serve \/ UNCHANGED vars PROVE HInv'
<1>1. CASE Crash
  <2>1. TypeOK' /\ ScanInv' /\ \A k \in Job : placing'[k].step = "no"
    BY <1>1, Zenon DEF Crash, HInv, TypeOK, ScanInv, Resting, NotPlacing, folder
  <2>. QED BY <1>1, <2>1, SameJobs, Numbers, Zenon DEF Crash, folder
<1>2. CASE Open
  <2>1. \A k \in Job : /\ placing'[k] \in [step: {"no", "pdf", "json", "input", "mark"},
                                           as: {"pdf", "report", "error", None}, again: BOOLEAN]
                       /\ placing'[k].step # "mark" /\ (placing'[k].step # "no" => k <= n)
    BY <1>2, DeliverFields, Zenon DEF Open, NotPlacing
  <2>2. placing' \in [Job -> [step: {"no", "pdf", "json", "input", "mark"},
                              as: {"pdf", "report", "error", None}, again: BOOLEAN]]
    BY <1>2, <2>1, Zenon DEF Open
  <2>3. TypeOK' /\ ScanInv'
    BY <1>2, <2>2, Zenon DEF Open, HInv, TypeOK, ScanInv, folder, scanner
  <2>. QED BY <1>2, <2>1, <2>3, SameJobs, Numbers, Zenon DEF Open, folder
<1>3. CASE Serve \/ UNCHANGED vars
  <2>1. TypeOK' /\ ScanInv'
    BY <1>3, Zenon DEF Serve, HInv, TypeOK, ScanInv, folder, scanner, vars
  <2>. QED BY <1>3, <2>1, SameJobs, Zenon DEF Serve, HInv, RowsInv, folder, scanner, vars
<1>. QED BY <1>1, <1>2, <1>3, Zenon

\* An empty folder and an empty database satisfy the invariant.
LEMMA InitInv == Init => HInv
<1> SUFFICES ASSUME Init PROVE HInv
  BY Zenon
<1>1. TypeOK
  <2>1. last \in [Files -> 0..MaxVersion] /\ n \in 0..MaxJobs
    BY BoundAssumption DEF Init
  <2>2. /\ moved \in [{"done", "failed"} -> [Files -> Version \cup {None}]]
        /\ done \in [Stems -> [pdf: Job \cup {None}, json: Job \cup {None}]]
    BY Zenon DEF Init
  <2>3. placing \in [Job -> [step: {"no", "pdf", "json", "input", "mark"},
                            as: {"pdf", "report", "error", None}, again: BOOLEAN]]
    BY Zenon DEF Init, NotPlacing
  <2>. QED BY <2>1, <2>2, <2>3, Zenon DEF Init, TypeOK, Resting
<1>2. RowsInv /\ TakenInv /\ ScanInv /\ OneInFlight /\ ConvertedOnce
  BY DEF Init, RowsInv, TakenInv, ScanInv, OneInFlight, ConvertedOnce, Undelivered, Resting,
         NotPlacing, Job
<1>. QED BY <1>1, <1>2, Zenon DEF HInv

\* Every step of the watched folder preserves the invariant.
LEMMA NextInv == HInv /\ [Next]_vars => HInv'
<1> SUFFICES ASSUME HInv, [Next]_vars PROVE HInv'
  BY Zenon
<1>1. CASE \E f \in Files : Write(f)
  BY <1>1, WriteInv, Zenon
<1>2. CASE Scan \/ ScanFails
  BY <1>2, ScanStepsInv, ScanInFlightInv, ScanCopyInv, ScanSubmitInv, TurnAwayInv, Zenon DEF Scan
<1>3. CASE \E j \in Job : Place(j) \/ PlaceFails(j)
  BY <1>3, PlaceStepsInv, MarkInv, Zenon DEF Place
<1>4. CASE \E j \in Job, state \in {"done", "failed"} : Settle(j, state)
  BY <1>4, SettleInv, Zenon
<1>5. CASE Crash \/ Open \/ Serve \/ UNCHANGED vars
  BY <1>5, RestartInv, Zenon
<1>. QED BY <1>1, <1>2, <1>3, <1>4, <1>5, Zenon DEF Next

\* The inductive invariant holds in every reachable state.
THEOREM Invariance == Spec => []HInv
<1>. QED BY InitInv, NextInv, PTL DEF Spec

\* The folder, the rows and the scanner are always what their types say.
THEOREM TypeCorrect == Spec => []TypeOK
<1>1. HInv => TypeOK
  BY Zenon DEF HInv
<1>. QED BY <1>1, Invariance, PTL

\* However writes, scans, deliveries, failing disks, crashes and restarts interleave, two
\* jobs of one name are never in flight together.
THEOREM NeverTwoInFlight == Spec => []OneInFlight
<1>1. HInv => OneInFlight
  BY Zenon DEF HInv
<1>. QED BY <1>1, Invariance, PTL

\* And no version of a file is queued twice.
THEOREM NeverConvertedTwice == Spec => []ConvertedOnce
<1>1. HInv => ConvertedOnce
  BY Zenon DEF HInv
<1>. QED BY <1>1, Invariance, PTL

-----------------------------------------------------------------------------
(* Deliveries *)

\* Row n + 1 is new, and nothing else of the table changes.
LEMMA SubmittedRow ==
  ASSUME HInv, ScanSubmit
  PROVE  LET row == [file |-> at.file, ver |-> at.ver, state |-> "pending", delivered |-> FALSE] IN
         /\ n \in Int /\ n' = n + 1 /\ n + 1 \in Job /\ jobs'[n + 1] = row /\ placing[n + 1].step = "no"
         /\ 1..n' = 1..n \cup {n + 1} /\ \A j \in 1..n : jobs'[j] = jobs[j] /\ j < n + 1
         /\ \A j \in Job : j # n + 1 => jobs'[j] = jobs[j]
<1>1. n \in Int /\ n' = n + 1 /\ n + 1 \in Job /\ ~(n + 1 <= n)
  BY Numbers, BoundAssumption DEF ScanSubmit, Job
<1>2. placing[n + 1].step = "no"
  BY <1>1, Zenon DEF HInv, RowsInv
<1>3. 1..n' = 1..n \cup {n + 1} /\ 1..n \subseteq Job /\ \A j \in 1..n : j # n + 1 /\ j < n + 1
  BY <1>1, Numbers
<1>4. jobs \in [Job -> JobRow \cup {NoJob}]
  BY Zenon DEF HInv, TypeOK
<1>. QED BY <1>1, <1>2, <1>3, <1>4, Zenon DEF ScanSubmit

\* Settle and Mark write one row, and leave its file and version alone.
LEMMA SettledRow ==
  ASSUME HInv, NEW j \in Job, NEW state \in {"done", "failed"}, Settle(j, state)
  PROVE  /\ j \in 1..n /\ jobs'[j].state = state /\ jobs'[j].delivered = jobs[j].delivered
         /\ jobs'[j].file = jobs[j].file /\ jobs'[j].ver = jobs[j].ver
         /\ placing'[j] = Deliver(jobs[j].file, state)
         /\ \A k \in Job : k # j => jobs'[k] = jobs[k] /\ placing'[k] = placing[k]
BY Numbers DEF Settle, HInv, TypeOK, JobRow

\* A mark changes one row and one delivery.
LEMMA MarkedRow ==
  ASSUME HInv, NEW j \in Job, Mark(j)
  PROVE  /\ j \in 1..n /\ jobs'[j].delivered /\ jobs'[j].state = jobs[j].state
         /\ jobs'[j].file = jobs[j].file /\ jobs'[j].ver = jobs[j].ver
         /\ placing'[j] = NotPlacing
         /\ \A k \in Job : k # j => jobs'[k] = jobs[k] /\ placing'[k] = placing[k]
<1>1. j \in 1..n /\ jobs[j] \in JobRow
  BY AtWork, Zenon DEF Mark
<1>. QED BY <1>1, Zenon DEF Mark, HInv, TypeOK, JobRow

\* A step of place() goes on with its own job alone; a failed one begins again with the
\* error, or gives up.
LEMMA PlacedStep ==
  ASSUME HInv, NEW j \in Job, PlacePdf(j) \/ PlaceJson(j) \/ PlaceInput(j) \/ PlaceFails(j)
  PROVE  /\ j \in 1..n /\ jobs[j].file \in Files /\ Stem[jobs[j].file] \in Stems
         /\ placing[j].step \in {"pdf", "json", "input"}
         /\ \A k \in Job : k # j => placing'[k] = placing[k]
         /\ UNCHANGED <<last, jobs, n, up, scanner>>
         /\ \/ placing'[j].as = placing[j].as
            \/ jobs[j].file \in DiskFails /\ placing'[j].as = "error" /\ placing'[j].step = "json"
            \/ placing'[j].step = "no"
         /\ PlacePdf(j) => placing'[j].step = "json" /\ placing'[j].as = placing[j].as
         /\ PlaceJson(j) => placing'[j].step = "input" /\ placing'[j].as = placing[j].as
         /\ PlaceInput(j) => placing'[j].step = "mark"
<1>1. placing[j].step \in {"pdf", "json", "input"} /\ placing[j].step # "no"
  BY Zenon DEF PlacePdf, PlaceJson, PlaceInput, PlaceFails
<1>2. j \in 1..n /\ jobs[j].file \in Files /\ Stem[jobs[j].file] \in Stems
  BY <1>1, AtWork, Zenon
<1>3. \A k \in Job : k # j => placing'[k] = placing[k]
  BY Zenon DEF PlacePdf, PlaceJson, PlaceInput, PlaceFails, ThenStep, HInv, TypeOK
<1>4. UNCHANGED <<last, jobs, n, up, scanner>>
  BY Zenon DEF PlacePdf, PlaceJson, PlaceInput, PlaceFails, folder
<1>5. PlacePdf(j) => placing'[j].step = "json" /\ placing'[j].as = placing[j].as
  BY DEF PlacePdf, ThenStep, HInv, TypeOK
<1>6. PlaceJson(j) => placing'[j].step = "input" /\ placing'[j].as = placing[j].as
  BY DEF PlaceJson, ThenStep, HInv, TypeOK
<1>7. PlaceInput(j) => placing'[j].step = "mark" /\ placing'[j].as = placing[j].as
  BY DEF PlaceInput, ThenStep, HInv, TypeOK
<1>8. PlaceFails(j) => \/ jobs[j].file \in DiskFails /\ placing'[j].as = "error" /\ placing'[j].step = "json"
                       \/ placing'[j].step = "no"
  BY DEF PlaceFails, NotPlacing, HInv, TypeOK
<1>. QED BY <1>1, <1>2, <1>3, <1>4, <1>5, <1>6, <1>7, <1>8, Zenon

\* A delivery follows its job's result, in every step.
LEMMA DeliveryStep == HInv /\ DeliveryInv /\ [Next]_vars => DeliveryInv'
<1> SUFFICES ASSUME HInv, DeliveryInv, [Next]_vars PROVE DeliveryInv'
  BY Zenon
<1>n. 1..n \subseteq Job
  BY Numbers, Zenon
<1>1. CASE UNCHANGED <<jobs, n, placing>>
  BY <1>1, Zenon DEF DeliveryInv
<1>2. CASE ScanSubmit
  <2>1. placing' = placing
    BY <1>2, Zenon DEF ScanSubmit
  <2>2. \A j \in 1..n' : jobs'[j].state = "pending" => ~jobs'[j].delivered
    BY <1>2, <1>n, SubmittedRow DEF DeliveryInv
  <2>. QED BY <1>2, <2>1, <2>2, SubmittedRow, Zenon DEF DeliveryInv
<1>3. CASE \E j \in Job : PlacePdf(j) \/ PlaceJson(j) \/ PlaceInput(j) \/ PlaceFails(j)
  <2>. PICK j \in Job : PlacePdf(j) \/ PlaceJson(j) \/ PlaceInput(j) \/ PlaceFails(j)
    BY <1>3, Zenon
  <2>. QED BY PlacedStep DEF DeliveryInv
<1>4. CASE \E j \in Job, state \in {"done", "failed"} : Settle(j, state)
  <2>. PICK j \in Job, state \in {"done", "failed"} : Settle(j, state)
    BY <1>4, Zenon
  <2>1. n' = n /\ jobs[j].state = "pending"
    BY Zenon DEF Settle
  <2>2. Deliver(jobs[j].file, state).as = OutcomeOf(jobs[j].file, state)
    BY Zenon DEF Deliver
  <2>. QED BY <1>n, <2>1, <2>2, SettledRow DEF DeliveryInv
<1>5. CASE \E j \in Job : Mark(j)
  <2>. PICK j \in Job : Mark(j)
    BY <1>5, Zenon
  <2>1. n' = n /\ placing[j].step = "mark" /\ NotPlacing.step = "no"
    BY Zenon DEF Mark, NotPlacing
  <2>. QED BY <1>n, <2>1, MarkedRow DEF DeliveryInv
<1>6. CASE Crash
  BY <1>6, Zenon DEF Crash, DeliveryInv, NotPlacing
<1>7. CASE Open
  BY <1>7, Zenon DEF Open, DeliveryInv, NotPlacing, Deliver
<1>. QED
  BY <1>1, <1>2, <1>3, <1>4, <1>5, <1>6, <1>7, Zenon
  DEF Next, Scan, Place, Write, ScanStart, ScanSig, ScanInFlight, ScanCopy, ScanReport, ScanTurnAway,
      ScanFails, ScanEnd, Serve, vars

-----------------------------------------------------------------------------
(* Careful users: nothing is lost *)

\* A step that leaves the folder and the table alone keeps what a careful user relies on, if
\* the scanner has copied what is there.
LEMMA SameFolder ==
  ASSUME CarefulInv, UNCHANGED <<last, input, moved, jobs, n>>,
         at'.pc \in {"submit", "report", "turnaway"} => input[at'.file] = at'.ver
  PROVE  CarefulInv'
BY DEF CarefulInv, NothingLost, JobsOf

\* The scanner's steps up to the submission or the turning away.
LEMMA ScanCareful ==
  ASSUME HInv, CarefulInv,
         \/ ScanStart \/ ScanEnd \/ ScanFails \/ ScanInFlight \/ ScanCopy \/ ScanReport
         \/ \E f \in Files : ScanSig(f)
  PROVE  CarefulInv'
<1>1. UNCHANGED <<last, input, moved, jobs, n>>
  BY Zenon DEF ScanStart, ScanEnd, ScanFails, ScanInFlight, ScanCopy, ScanReport, ScanSig, folder
<1>2. at'.pc \in {"submit", "report", "turnaway"} => input[at'.file] = at'.ver
  <2>1. CASE ScanStart \/ ScanEnd
    BY <2>1, Zenon DEF ScanStart, ScanEnd, CarefulInv
  <2>2. CASE ScanFails \/ \E f \in Files : ScanSig(f)
    BY <2>2 DEF ScanFails, ScanSig, Rest, Resting
  <2>3. CASE ScanInFlight
    BY <2>3 DEF ScanInFlight, Rest, Resting, HInv, TypeOK
  <2>4. CASE ScanCopy
    <3>1. CASE input[at.file] = None
      BY <2>4, <3>1 DEF ScanCopy, Rest, Resting
    <3>2. CASE input[at.file] # None
      <4>. PICK pc \in {"submit", "report"} : at' = [at EXCEPT !.pc = pc, !.ver = input[at.file]]
        BY <2>4, <3>2, Zenon DEF ScanCopy
      <4>1. at'.file = at.file /\ at'.ver = input[at.file]
        BY Zenon DEF HInv, TypeOK
      <4>. QED BY <4>1, Zenon
    <3>. QED BY <3>1, <3>2, Zenon
  <2>5. CASE ScanReport
    BY <2>5, Zenon DEF ScanReport, HInv, TypeOK, CarefulInv
  <2>. QED BY <2>1, <2>2, <2>3, <2>4, <2>5, Zenon
<1>. QED BY <1>1, <1>2, SameFolder, Zenon

\* A careful user writes a name that has neither a file nor a job under way.
LEMMA WriteCareful ==
  ASSUME Careful, HInv, CarefulInv, NEW f \in Files, Write(f) PROVE CarefulInv'
<1>1. /\ input[f] = None /\ Undelivered(f) = {}
      /\ last' = [last EXCEPT ![f] = last[f] + 1] /\ input' = [input EXCEPT ![f] = last[f] + 1]
      /\ UNCHANGED <<moved, jobs, n, at>>
  BY Zenon DEF Write, scanner
<1>2. \A g \in Files : /\ last'[g] = IF g = f THEN last[f] + 1 ELSE last[g]
                       /\ input'[g] = IF g = f THEN last[f] + 1 ELSE input[g]
  BY <1>1, Zenon DEF HInv, TypeOK
<1>3. \A g \in Files : input'[g] \in {last'[g], None}
  BY <1>2, Zenon DEF CarefulInv
<1>4. at.pc \in {"submit", "report", "turnaway"} => input'[at.file] = at.ver
  <2>1. at.pc \in {"submit", "report", "turnaway"} => at.file \in Files /\ at.ver \in Version
    BY Zenon DEF HInv, ScanInv
  <2>2. None \notin Version
    BY NoneAssumption DEF Version
  <2>. QED BY <1>1, <1>2, <2>1, <2>2, Zenon DEF CarefulInv
<1>5. ASSUME NEW j \in 1..n, ~jobs[j].delivered
      PROVE  jobs[j].ver = last'[jobs[j].file] /\ \A k \in JobsOf(jobs[j].file) : k <= j
  <2>1. jobs[j].file \in Files /\ jobs[j].file # f
    BY <1>1, <1>5, Numbers, Zenon DEF Undelivered
  <2>. QED BY <1>2, <1>5, <2>1, Zenon DEF CarefulInv
<1>6. NothingLost'
  BY <1>1, <1>2 DEF CarefulInv, NothingLost, JobsOf
<1>. QED BY <1>1, <1>3, <1>4, <1>5, <1>6, Zenon DEF CarefulInv, JobsOf

\* What is submitted is the last version, as the name's last job.
LEMMA SubmitCareful == ASSUME HInv, CarefulInv, ScanSubmit PROVE CarefulInv'
<1>1. /\ at.file \in Files /\ at.ver \in Version /\ input[at.file] = at.ver
      /\ \A j \in 1..n : jobs[j].file = at.file => jobs[j].delivered
      /\ at' = Resting /\ UNCHANGED <<last, input, moved>>
  BY Zenon DEF ScanSubmit, HInv, ScanInv, CarefulInv, Rest, folder
<1>2. at.ver = last[at.file]
  BY <1>1, NoneAssumption DEF CarefulInv, Version
<1>3. /\ n' = n + 1 /\ jobs'[n + 1].file = at.file /\ jobs'[n + 1].ver = at.ver
      /\ 1..n' = 1..n \cup {n + 1} /\ \A j \in 1..n : jobs'[j] = jobs[j] /\ j < n + 1
      /\ n \in Int
  BY SubmittedRow
<1>4. ASSUME NEW j \in 1..n', ~jobs'[j].delivered
      PROVE  jobs'[j].ver = last[jobs'[j].file] /\ \A k \in 1..n' : jobs'[k].file = jobs'[j].file => k <= j
  <2>1. CASE j = n + 1
    BY <1>2, <1>3, <2>1
  <2>2. CASE j \in 1..n
    <3>1. jobs[j].file # at.file
      BY <1>1, <1>3, <1>4, <2>2, Zenon
    <3>2. jobs[j].ver = last[jobs[j].file] /\ \A k \in 1..n : jobs[k].file = jobs[j].file => k <= j
      BY <1>3, <1>4, <2>2, Zenon DEF CarefulInv, JobsOf
    <3>. QED BY <1>3, <2>2, <3>1, <3>2, Zenon
  <2>. QED BY <1>3, <2>1, <2>2, Zenon
<1>5. NothingLost'
  BY <1>1, <1>3 DEF CarefulInv, NothingLost, JobsOf
<1>. QED BY <1>1, <1>4, <1>5, Zenon DEF CarefulInv, JobsOf, Resting

\* A file that is turned away is in failed/ when it is no longer in input/.
LEMMA TurnAwayCareful == ASSUME HInv, CarefulInv, ScanTurnAway PROVE CarefulInv'
<1>1. /\ at.file \in Files /\ at.ver \in Version /\ input[at.file] = at.ver
      /\ at' = Resting /\ UNCHANGED <<last, jobs, n>>
  BY Zenon DEF ScanTurnAway, HInv, ScanInv, CarefulInv, Rest
<1>2. at.ver = last[at.file] /\ at.ver # None
  BY <1>1, NoneAssumption DEF CarefulInv, Version
<1>3. \A g \in Files : /\ input'[g] = IF g = at.file THEN None ELSE input[g]
                       /\ moved'["failed"][g] = IF g = at.file THEN last[g] ELSE moved["failed"][g]
  BY <1>1, <1>2, Zenon DEF ScanTurnAway, HInv, TypeOK
<1>4. NothingLost'
  BY <1>1, <1>3 DEF CarefulInv, NothingLost, JobsOf
<1>. QED BY <1>1, <1>3, <1>4, Zenon DEF CarefulInv, JobsOf, Resting

\* What place() takes out of input/ has been queued.
LEMMA PlaceCareful ==
  ASSUME HInv, DeliveryInv, CarefulInv, NEW j \in Job,
         PlacePdf(j) \/ PlaceJson(j) \/ PlaceInput(j) \/ PlaceFails(j)
  PROVE  CarefulInv'
<1>1. j \in 1..n /\ jobs[j].file \in Files /\ ~jobs[j].delivered /\ UNCHANGED <<last, jobs, n, at>>
  BY PlacedStep, Zenon DEF DeliveryInv, scanner
<1>2. CASE PlacePdf(j) \/ PlaceJson(j) \/ PlaceFails(j)
  <2>1. UNCHANGED <<input, moved>>
    BY <1>2, Zenon DEF PlacePdf, PlaceJson, PlaceFails, folder
  <2>. QED BY <1>1, <2>1, SameFolder, Zenon DEF CarefulInv
<1>3. CASE PlaceInput(j)
  <2>1. \A g \in Files : /\ input'[g] = IF g = jobs[j].file THEN None ELSE input[g]
                         /\ g # jobs[j].file => moved'["failed"][g] = moved["failed"][g]
    BY <1>1, <1>3, Zenon DEF PlaceInput, Where, HInv, TypeOK
  <2>2. at.pc \in {"submit", "report", "turnaway"} => at.file \in Files /\ at.file # jobs[j].file
    BY <1>1, Zenon DEF HInv, ScanInv
  <2>3. jobs[j].ver = last[jobs[j].file] /\ j \in JobsOf(jobs[j].file)
    BY <1>1, Zenon DEF CarefulInv, JobsOf
  <2>4. NothingLost'
    BY <1>1, <2>1, <2>3 DEF CarefulInv, NothingLost, JobsOf
  <2>. QED BY <1>1, <2>1, <2>2, <2>4, Zenon DEF CarefulInv, JobsOf
<1>. QED BY <1>2, <1>3, Zenon

\* A result and a mark leave the file and the version of the row alone.
LEMMA RowCareful ==
  ASSUME HInv, CarefulInv, NEW j \in Job, Mark(j) \/ \E state \in {"done", "failed"} : Settle(j, state)
  PROVE  CarefulInv'
<1>1. UNCHANGED <<last, input, moved, n, at>> /\ 1..n \subseteq Job
  BY Numbers, Zenon DEF Mark, Settle, folder, scanner
<1>2. \A k \in 1..n : /\ jobs'[k].file = jobs[k].file /\ jobs'[k].ver = jobs[k].ver
                      /\ ~jobs'[k].delivered => ~jobs[k].delivered
  BY <1>1, SettledRow, MarkedRow, Zenon
<1>3. \A f \in Files : JobsOf(f)' = JobsOf(f)
  BY <1>1, <1>2, Zenon DEF JobsOf
<1>4. \A k \in 1..n : JobsOf(jobs[k].file)' = JobsOf(jobs[k].file)
  BY <1>1, <1>2, Zenon DEF JobsOf
<1>5. NothingLost'
  BY <1>1, <1>2, <1>3 DEF CarefulInv, NothingLost, JobsOf
<1>6. ASSUME NEW k \in 1..n, ~jobs'[k].delivered
      PROVE  jobs'[k].ver = last'[jobs'[k].file] /\ \A m \in 1..n : jobs'[m].file = jobs'[k].file => m <= k
  BY <1>1, <1>2, <1>6, Zenon DEF CarefulInv, JobsOf
<1>. QED BY <1>1, <1>5, <1>6, Zenon DEF CarefulInv, JobsOf

\* Every step keeps what a careful user relies on.
LEMMA CarefulStep ==
  ASSUME Careful, HInv, DeliveryInv, CarefulInv, [Next]_vars PROVE CarefulInv'
<1>1. CASE \E f \in Files : Write(f)
  BY <1>1, WriteCareful, Zenon
<1>2. CASE Scan \/ ScanFails
  BY <1>2, ScanCareful, SubmitCareful, TurnAwayCareful, Zenon DEF Scan
<1>3. CASE \E j \in Job : Place(j) \/ PlaceFails(j)
  BY <1>3, PlaceCareful, RowCareful, Zenon DEF Place
<1>4. CASE \E j \in Job, state \in {"done", "failed"} : Settle(j, state)
  BY <1>4, RowCareful, Zenon
<1>5. CASE Crash \/ Open \/ Serve \/ UNCHANGED vars
  <2>1. UNCHANGED <<last, input, moved, jobs, n>> /\ (at' = at \/ at' = Resting)
    BY <1>5, Zenon DEF Crash, Open, Serve, folder, scanner, vars
  <2>. QED BY <2>1, SameFolder DEF CarefulInv, Resting
<1>. QED BY <1>1, <1>2, <1>3, <1>4, <1>5, Zenon DEF Next

\* docs/self-hosting.md:144: what a careful user drops is queued.  With users that never
\* write a name whose file or job is still there, no interleaving of scans, deliveries,
\* failing disks, crashes and restarts throws a last version away unconverted.
THEOREM NeverLost == ASSUME Careful PROVE Spec => []NothingLost
<1>1. Init => DeliveryInv /\ CarefulInv
  BY DEF Init, DeliveryInv, CarefulInv, NothingLost, JobsOf, Resting, NotPlacing
<1>2. HInv /\ DeliveryInv /\ CarefulInv /\ [Next]_vars => DeliveryInv' /\ CarefulInv'
  BY DeliveryStep, CarefulStep, Zenon
<1>3. CarefulInv => NothingLost
  BY Zenon DEF CarefulInv
<1>. QED BY <1>1, <1>2, <1>3, Invariance, PTL DEF Spec

-----------------------------------------------------------------------------
(* Careful users, and stems of their own: the outcome is in place *)

\* What a step may do to job j's part of the folder without disturbing an outcome there.
Spared(j) ==
  LET f == jobs[j].file s == Stem[f] IN
  /\ jobs'[j].file = f /\ jobs'[j].ver = jobs[j].ver /\ jobs'[j].state = jobs[j].state
  /\ done'[s] = done[s] /\ moved'["done"][f] = moved["done"][f] /\ last[f] <= last'[f]
  /\ failed'[s] \in {failed[s], TurnedAway}
  /\ \/ moved'["failed"][f] = moved["failed"][f]
     \/ moved'["failed"][f] \in jobs[j].ver..last'[f]

\* An outcome that is spared stays.
LEMMA FoundKept ==
  ASSUME HInv, NEW j \in 1..n, Spared(j), last'[jobs[j].file] \in Int,
         NEW as \in {"pdf", "report", "error"}, Found(j, as)
  PROVE  Found(j, as)'
<1>1. jobs[j].ver \in Int /\ last[jobs[j].file] \in Int
  BY Numbers, Zenon
<1>2. CASE as = "pdf"
  BY <1>2, Zenon DEF Spared, Found
<1>3. CASE as = "report"
  BY <1>3, Zenon DEF Spared, Found
<1>4. CASE as = "error"
  <2>1. moved["failed"][jobs[j].file] \in jobs[j].ver..last[jobs[j].file]
        /\ failed[Stem[jobs[j].file]] \in {j, TurnedAway}
    BY <1>4, Zenon DEF Found
  <2>2. moved'["failed"][jobs[j].file] \in jobs[j].ver..last'[jobs[j].file]
    BY <1>1, <2>1 DEF Spared
  <2>3. /\ jobs'[j].file = jobs[j].file /\ jobs'[j].ver = jobs[j].ver
        /\ failed'[Stem[jobs[j].file]] \in {j, TurnedAway}
    BY <2>1, Zenon DEF Spared
  <2>. QED BY <1>4, <2>2, <2>3, Zenon DEF Found
<1>. QED BY <1>2, <1>3, <1>4, Zenon

\* So does the outcome of a job that step spares.
LEMMA InPlaceKept ==
  ASSUME HInv, HInv', NEW j \in 1..n, Spared(j), InPlace(j) PROVE InPlace(j)'
<1>1. last'[jobs[j].file] \in Int
  BY Numbers, BoundAssumption DEF HInv, TypeOK
<1>2. OutcomeOf(jobs[j].file, jobs[j].state) \in {"pdf", "report", "error"}
  BY Zenon DEF OutcomeOf
<1>. QED BY <1>1, <1>2, FoundKept, Zenon DEF InPlace, Spared

\* A job that place() works on has a name, and a stem, to itself.
LEMMA PlacedAlone ==
  ASSUME HInv, CarefulInv, OwnStem, NEW j \in 1..n, ~jobs[j].delivered, NEW k \in 1..n, k # j,
         ~jobs[k].delivered \/ \A m \in JobsOf(jobs[k].file) : m <= k
  PROVE  jobs[k].file # jobs[j].file /\ Stem[jobs[k].file] # Stem[jobs[j].file]
<1>1. jobs[j].file \in Files /\ jobs[k].file \in Files /\ j \in Int /\ k \in Int
  BY Numbers, Zenon
<1>2. jobs[k].file # jobs[j].file
  <2>1. SUFFICES ASSUME jobs[k].file = jobs[j].file PROVE FALSE
    BY Zenon
  <2>2. j \in JobsOf(jobs[k].file) /\ k \in JobsOf(jobs[j].file)
    BY <2>1, Zenon DEF JobsOf
  <2>3. k <= j
    BY <2>2, Zenon DEF CarefulInv
  <2>4. CASE ~jobs[k].delivered
    BY <1>1, <2>1, <2>4, Zenon DEF HInv, OneInFlight, Undelivered
  <2>. QED BY <1>1, <2>2, <2>3, <2>4
<1>. QED BY <1>1, <1>2, Zenon DEF OwnStem

\* The invariant follows when every job that matters is spared, or answered for.
LEMMA PlacedKept ==
  ASSUME HInv, HInv', PlacedInv, n' = n,
         \A j \in 1..n : jobs'[j].file = jobs[j].file /\ jobs'[j].ver = jobs[j].ver,
         \A j \in 1..n : ~jobs'[j].delivered =>
           \/ input'[jobs[j].file] = jobs[j].ver
           \/ jobs'[j].state # "pending" /\ InPlace(j)'
           \/ ~jobs[j].delivered /\ Spared(j) /\ input'[jobs[j].file] = input[jobs[j].file],
         \A j \in 1..n : jobs'[j].delivered /\ (\A m \in JobsOf(jobs[j].file) : m <= j) =>
           InPlace(j)' \/ (jobs[j].delivered /\ Spared(j)),
         \A j \in Job :
           /\ placing'[j].step = "json" /\ placing'[j].as = "pdf" => done'[Stem[jobs'[j].file]].pdf = j
           /\ placing'[j].step = "input" => Outputs(j)'
  PROVE  PlacedInv'
<1>1. ASSUME NEW j \in 1..n, ~jobs'[j].delivered
      PROVE  input'[jobs'[j].file] = jobs'[j].ver \/ (jobs'[j].state # "pending" /\ InPlace(j)')
  BY <1>1, InPlaceKept DEF PlacedInv, Spared
<1>2. OutcomeInPlace'
  <2>1. \A j \in 1..n : JobsOf(jobs[j].file)' = JobsOf(jobs[j].file)
    BY Zenon DEF JobsOf
  <2>2. ASSUME NEW f \in Files, NEW j \in 1..n, jobs'[j].file = f, jobs'[j].delivered,
               \A k \in JobsOf(f)' : k <= j
        PROVE  InPlace(j)'
    <3>1. jobs[j].file = f /\ \A m \in JobsOf(jobs[j].file) : m <= j
      BY <2>1, <2>2, Zenon
    <3>2. CASE jobs[j].delivered /\ Spared(j)
      <4>1. InPlace(j)
        BY <3>1, <3>2, Zenon DEF PlacedInv, OutcomeInPlace, InPlace, JobsOf
      <4>. QED BY <3>2, <4>1, InPlaceKept, Zenon
    <3>. QED BY <2>2, <3>1, <3>2, Zenon
  <2>. QED BY <2>2, Zenon DEF OutcomeInPlace, InPlace, JobsOf
<1>. QED BY <1>1, <1>2, Zenon DEF PlacedInv

\* Writing a file spares every outcome.
LEMMA UserPlaced ==
  ASSUME Careful, HInv, HInv', CarefulInv, DeliveryInv, PlacedInv, NEW f \in Files, Write(f)
  PROVE  PlacedInv'
<1>1. /\ Undelivered(f) = {} /\ UNCHANGED <<done, failed, moved, jobs, n, placing>>
      /\ last' = [last EXCEPT ![f] = last[f] + 1] /\ input' = [input EXCEPT ![f] = last[f] + 1]
  BY Zenon DEF Write
<1>2. \A g \in Files : last[g] <= last'[g] /\ (g # f => input'[g] = input[g])
  BY <1>1, Numbers DEF HInv, TypeOK
<1>3. \A j \in 1..n : Spared(j)
  BY <1>1, <1>2, Numbers, Zenon DEF Spared
<1>4. \A j \in 1..n : ~jobs[j].delivered => input'[jobs[j].file] = input[jobs[j].file]
  BY <1>1, <1>2, Numbers, Zenon DEF Undelivered
<1>5. \A j \in Job :
        /\ placing'[j].step = "json" /\ placing'[j].as = "pdf" => done'[Stem[jobs'[j].file]].pdf = j
        /\ placing'[j].step = "input" => Outputs(j)'
  BY <1>1, Zenon DEF PlacedInv, Outputs
<1>. QED BY <1>1, <1>3, <1>4, <1>5, PlacedKept, Zenon

\* Turning a file away spares the outcomes of other stems, and of the name's earlier jobs.
LEMMA TurnAwayPlaced ==
  ASSUME HInv, HInv', CarefulInv, OwnStem, DeliveryInv, PlacedInv, ScanReport \/ ScanTurnAway
  PROVE  PlacedInv'
<1>1. /\ at.file \in Files /\ at.ver \in Version /\ at.ver <= last[at.file] /\ input[at.file] = at.ver
      /\ \A j \in 1..n : jobs[j].file = at.file => jobs[j].delivered /\ jobs[j].ver < at.ver
      /\ UNCHANGED <<last, jobs, n, placing, done>>
  BY Zenon DEF ScanReport, ScanTurnAway, HInv, ScanInv, CarefulInv
<1>2. \A s \in Stems : failed'[s] \in {failed[s], TurnedAway} /\ (s # Stem[at.file] => failed'[s] = failed[s])
  BY <1>1, Zenon DEF ScanReport, ScanTurnAway, HInv, TypeOK
<1>3. \A g \in Files : /\ g # at.file => input'[g] = input[g]
                       /\ moved'["done"][g] = moved["done"][g]
                       /\ moved'["failed"][g] # moved["failed"][g] => g = at.file /\ moved'["failed"][g] = at.ver
  <2>1. CASE ScanReport
    BY <2>1, Zenon DEF ScanReport
  <2>2. CASE ScanTurnAway
    BY <1>1, <2>2, Zenon DEF ScanTurnAway, HInv, TypeOK
  <2>. QED BY <2>1, <2>2, Zenon
<1>4. ASSUME NEW j \in 1..n PROVE Spared(j)
  <2>1. jobs[j].file \in Files /\ Stem[jobs[j].file] \in Stems /\ jobs[j].ver \in Int
        /\ last[jobs[j].file] \in Int /\ at.ver \in Int
    BY <1>1, Numbers, BoundAssumption DEF Stems, Version
  <2>2. moved'["failed"][jobs[j].file] # moved["failed"][jobs[j].file] =>
          moved'["failed"][jobs[j].file] \in jobs[j].ver..last[jobs[j].file]
    BY <1>1, <1>3, <2>1
  <2>. QED BY <1>1, <1>2, <1>3, <2>1, <2>2 DEF Spared
<1>5. ASSUME NEW j \in 1..n, ~jobs[j].delivered
      PROVE  /\ jobs[j].file \in Files /\ jobs[j].file # at.file /\ Stem[jobs[j].file] # Stem[at.file]
             /\ Stem[jobs[j].file] \in Stems
  BY <1>1, <1>5, Numbers, Zenon DEF OwnStem, Stems
<1>6. ASSUME NEW j \in Job
      PROVE  /\ placing'[j].step = "json" /\ placing'[j].as = "pdf" => done'[Stem[jobs'[j].file]].pdf = j
             /\ placing'[j].step = "input" => Outputs(j)'
  <2>1. placing[j].step # "no" => j \in 1..n /\ ~jobs[j].delivered
    BY AtWork, Zenon DEF DeliveryInv
  <2>2. placing[j].step # "no" => failed'[Stem[jobs[j].file]] = failed[Stem[jobs[j].file]]
    BY <1>2, <1>5, <2>1, Zenon
  <2>. QED BY <1>1, <2>2, Zenon DEF PlacedInv, Outputs
<1>. QED BY <1>1, <1>3, <1>4, <1>5, <1>6, PlacedKept, Zenon

\* A new job has its original in input/.
LEMMA SubmitPlaced ==
  ASSUME HInv, HInv', CarefulInv, PlacedInv, ScanSubmit PROVE PlacedInv'
<1>1. input[at.file] = at.ver /\ UNCHANGED <<last, input, done, failed, moved, placing>>
  BY Zenon DEF ScanSubmit, CarefulInv, folder
<1>2. /\ n \in Int /\ n' = n + 1 /\ n + 1 \in Job /\ placing[n + 1].step = "no"
      /\ jobs'[n + 1] = [file |-> at.file, ver |-> at.ver, state |-> "pending", delivered |-> FALSE]
      /\ 1..n' = 1..n \cup {n + 1} /\ (\A j \in 1..n : jobs'[j] = jobs[j] /\ j < n + 1)
      /\ \A j \in Job : j # n + 1 => jobs'[j] = jobs[j]
  BY SubmittedRow, Zenon
<1>3. \A j \in 1..n : Spared(j)
  BY <1>1, <1>2, Numbers DEF Spared
<1>4. \A j \in 1..n : InPlace(j) => InPlace(j)'
  BY <1>3, InPlaceKept, Zenon
<1>5. ASSUME NEW j \in 1..n', ~jobs'[j].delivered
      PROVE  input'[jobs'[j].file] = jobs'[j].ver \/ (jobs'[j].state # "pending" /\ InPlace(j)')
  <2>1. CASE j = n + 1
    BY <1>1, <1>2, <2>1
  <2>2. CASE j \in 1..n
    BY <1>1, <1>2, <1>4, <1>5, <2>2, Zenon DEF PlacedInv
  <2>. QED BY <1>2, <2>1, <2>2, Zenon
<1>6. ASSUME NEW j \in Job
      PROVE  /\ placing'[j].step = "json" /\ placing'[j].as = "pdf" => done'[Stem[jobs'[j].file]].pdf = j
             /\ placing'[j].step = "input" => Outputs(j)'
  <2>1. CASE j = n + 1
    BY <1>1, <1>2, <2>1, Zenon
  <2>2. CASE j # n + 1
    BY <1>1, <1>2, <2>2, Zenon DEF PlacedInv, Outputs
  <2>. QED BY <2>1, <2>2, Zenon
<1>7. ASSUME NEW f \in Files, NEW j \in 1..n', jobs'[j].file = f, jobs'[j].delivered,
             \A k \in JobsOf(f)' : k <= j
      PROVE  InPlace(j)'
  <2>1. j \in 1..n /\ jobs[j].file = f /\ jobs[j].delivered
    BY <1>2, <1>7
  <2>2. \A k \in JobsOf(f) : k \in JobsOf(f)'
    BY <1>2, Zenon DEF JobsOf
  <2>3. InPlace(j)
    BY <1>7, <2>1, <2>2, Zenon DEF PlacedInv, OutcomeInPlace, InPlace, JobsOf
  <2>. QED BY <1>4, <2>1, <2>3, Zenon
<1>8. OutcomeInPlace'
  BY <1>7, Zenon DEF OutcomeInPlace, InPlace, JobsOf
<1>. QED BY <1>5, <1>6, <1>8, Zenon DEF PlacedInv

\* A result that comes in finds the original in input/; a mark finds an outcome in place.
LEMMA RowPlaced ==
  ASSUME HInv, HInv', DeliveryInv, PlacedInv, NEW j \in Job,
         Mark(j) \/ \E state \in {"done", "failed"} : Settle(j, state)
  PROVE  PlacedInv'
<1>1. UNCHANGED <<last, input, done, failed, moved, n>> /\ 1..n \subseteq Job
  BY Numbers, Zenon DEF Mark, Settle, folder
<1>2. /\ j \in 1..n /\ jobs'[j].file = jobs[j].file /\ jobs'[j].ver = jobs[j].ver
      /\ \A k \in Job : k # j => jobs'[k] = jobs[k] /\ placing'[k] = placing[k]
  BY SettledRow, MarkedRow, Zenon
<1>3. \A k \in 1..n : k # j => Spared(k)
  BY <1>1, <1>2, Numbers DEF Spared
<1>4. CASE Mark(j)
  <2>0. jobs'[j].delivered /\ jobs'[j].state = jobs[j].state /\ placing'[j] = NotPlacing
    BY <1>4, MarkedRow, Zenon
  <2>1. placing[j].step = "mark" /\ placing'[j].step = "no"
    BY <1>4, <2>0 DEF Mark, NotPlacing
  <2>2. ~jobs[j].delivered /\ input[jobs[j].file] # jobs[j].ver
    <3>1. input[jobs[j].file] = None \/ jobs[j].ver < input[jobs[j].file]
      BY <1>2, <2>1, Zenon DEF HInv, TakenInv
    <3>2. jobs[j].ver # None /\ jobs[j].ver \in Int
      BY <1>2, Numbers, NoneAssumption DEF JobRow, Version
    <3>. QED BY <2>1, <3>1, <3>2 DEF DeliveryInv
  <2>3. Spared(j) /\ InPlace(j)
    BY <1>1, <1>2, <2>0, <2>2, Numbers DEF Spared, PlacedInv
  <2>4. InPlace(j)'
    BY <1>2, <2>3, InPlaceKept, Zenon
  <2>5. ASSUME NEW k \in Job
        PROVE  /\ placing'[k].step = "json" /\ placing'[k].as = "pdf" => done'[Stem[jobs'[k].file]].pdf = k
               /\ placing'[k].step = "input" => Outputs(k)'
    BY <1>1, <1>2, <2>1, Zenon DEF PlacedInv, Outputs
  <2>. QED BY <1>1, <1>2, <1>3, <2>0, <2>4, <2>5, PlacedKept, Zenon
<1>5. ASSUME NEW state \in {"done", "failed"}, Settle(j, state) PROVE PlacedInv'
  <2>1. /\ jobs[j].state = "pending" /\ ~jobs[j].delivered /\ ~jobs'[j].delivered
        /\ placing'[j] = Deliver(jobs[j].file, state)
    BY <1>2, <1>5, SettledRow, Zenon DEF Settle, DeliveryInv
  <2>2. input[jobs[j].file] = jobs[j].ver
    BY <1>2, <2>1, Zenon DEF PlacedInv
  <2>3. placing'[j].step # "input" /\ ~(placing'[j].step = "json" /\ placing'[j].as = "pdf")
    BY <2>1 DEF Deliver
  <2>4. ASSUME NEW k \in Job
        PROVE  /\ placing'[k].step = "json" /\ placing'[k].as = "pdf" => done'[Stem[jobs'[k].file]].pdf = k
               /\ placing'[k].step = "input" => Outputs(k)'
    BY <1>1, <1>2, <2>3, Zenon DEF PlacedInv, Outputs
  <2>. QED BY <1>1, <1>2, <1>3, <2>1, <2>2, <2>4, PlacedKept, Zenon
<1>. QED BY <1>4, <1>5, Zenon

\* Placing an output of the job once more does not disturb what is there of it.
LEMMA PlacedAgain ==
  ASSUME NEW j \in 1..n, InPlace(j), UNCHANGED <<last, jobs, moved>>,
         LET s == Stem[jobs[j].file] IN
           /\ done'[s] \in {done[s], [done[s] EXCEPT !.pdf = j], [done[s] EXCEPT !.json = j]}
           /\ done[s] \in [pdf: Job \cup {None}, json: Job \cup {None}] \/ done'[s] = done[s]
           /\ failed'[s] \in {failed[s], j}
  PROVE  InPlace(j)'
<1> DEFINE s == Stem[jobs[j].file]
<1>1. (done[s] = [pdf |-> j, json |-> j] => done'[s] = done[s]) /\ (done[s].json = j => done'[s].json = j)
  BY SMTT(20)
<1>2. ASSUME NEW as \in {"pdf", "report", "error"}, Found(j, as) PROVE Found(j, as)'
  <2>1. CASE as = "pdf"
    BY <1>1, <1>2, <2>1, Zenon DEF Found
  <2>2. CASE as = "report"
    BY <1>1, <1>2, <2>2, Zenon DEF Found
  <2>3. CASE as = "error"
    BY <1>2, <2>3, Zenon DEF Found
  <2>. QED BY <1>2, <2>1, <2>2, <2>3, Zenon
<1>. QED BY <1>2, Zenon DEF InPlace, OutcomeOf

\* Each step of place() leaves what it wrote before, and takes the original away last.
LEMMA PlacePlaced ==
  ASSUME HInv, HInv', DeliveryInv, CarefulInv, OwnStem, PlacedInv, NEW j \in Job,
         PlacePdf(j) \/ PlaceJson(j) \/ PlaceInput(j) \/ PlaceFails(j)
  PROVE  PlacedInv'
<1> DEFINE f == jobs[j].file
           s == Stem[f]
<1>1. /\ j \in 1..n /\ 1..n \subseteq Job /\ f \in Files /\ s \in Stems
      /\ placing[j].step \in {"pdf", "json", "input"}
      /\ ~jobs[j].delivered /\ jobs[j].state # "pending" /\ UNCHANGED <<last, jobs, n>>
      /\ \A k \in Job : k # j => placing'[k] = placing[k]
  BY PlacedStep, Numbers, Zenon DEF DeliveryInv
<1>2. /\ \A g \in Files : /\ g # f => input'[g] = input[g]
                          /\ g # f => moved'["done"][g] = moved["done"][g]
                          /\ g # f => moved'["failed"][g] = moved["failed"][g]
      /\ \A r \in Stems : r # s => done'[r] = done[r] /\ failed'[r] = failed[r]
  <2>1. CASE PlacePdf(j)
    BY <1>1, <2>1, Zenon DEF PlacePdf, HInv, TypeOK
  <2>2. CASE PlaceJson(j)
    BY <1>1, <2>2, Zenon DEF PlaceJson, HInv, TypeOK
  <2>3. CASE PlaceInput(j)
    BY <1>1, <2>3, Zenon DEF PlaceInput, Where, HInv, TypeOK
  <2>4. CASE PlaceFails(j)
    BY <2>4, Zenon DEF PlaceFails, folder
  <2>. QED BY <2>1, <2>2, <2>3, <2>4, Zenon
<1>3. ASSUME NEW k \in 1..n, k # j, ~jobs[k].delivered \/ \A m \in JobsOf(jobs[k].file) : m <= k
      PROVE  Spared(k) /\ input'[jobs[k].file] = input[jobs[k].file]
  <2>1. jobs[k].file # f /\ Stem[jobs[k].file] # s
    BY <1>1, <1>3, PlacedAlone, Zenon
  <2>2. jobs[k].file \in Files /\ Stem[jobs[k].file] \in Stems /\ last[jobs[k].file] \in Int
    BY Numbers, Zenon DEF Stems
  <2>. QED BY <1>1, <1>2, <2>1, <2>2, SMTT(20) DEF Spared
<1>4. ASSUME NEW k \in Job, k # j
      PROVE  /\ placing'[k].step = "json" /\ placing'[k].as = "pdf" => done'[Stem[jobs'[k].file]].pdf = k
             /\ placing'[k].step = "input" => Outputs(k)'
  <2>1. CASE placing[k].step = "no"
    BY <1>1, <1>4, <2>1, Zenon
  <2>2. CASE placing[k].step # "no"
    <3>1. k \in 1..n /\ Stem[jobs[k].file] \in Stems /\ ~jobs[k].delivered
      BY <2>2, AtWork, Zenon DEF DeliveryInv
    <3>2. Stem[jobs[k].file] # s
      BY <1>1, <1>4, <3>1, PlacedAlone, Zenon
    <3>3. done'[Stem[jobs[k].file]] = done[Stem[jobs[k].file]]
          /\ failed'[Stem[jobs[k].file]] = failed[Stem[jobs[k].file]] /\ placing'[k] = placing[k]
      BY <1>1, <1>2, <1>4, <3>1, <3>2, Zenon
    <3>. QED BY <1>1, <3>3, Zenon DEF PlacedInv, Outputs
  <2>. QED BY <2>1, <2>2, Zenon
<1>5. /\ placing'[j].step = "json" /\ placing'[j].as = "pdf" => done'[s].pdf = j
      /\ placing'[j].step = "input" => Outputs(j)'
      /\ input'[f] = jobs[j].ver \/ InPlace(j)'
  <2>0. /\ input[f] = jobs[j].ver \/ InPlace(j)
        /\ placing[j].as \in {"pdf", "report", "error"}
        /\ placing[j].as = OutcomeOf(f, jobs[j].state) \/ (f \in DiskFails /\ placing[j].as = "error")
    BY <1>1, Zenon DEF PlacedInv, DeliveryInv, OutcomeOf
  <2>1. CASE PlacePdf(j)
    <3>1. /\ done'[s] = [done[s] EXCEPT !.pdf = j] /\ done[s] \in [pdf: Job \cup {None}, json: Job \cup {None}]
          /\ placing'[j].step = "json" /\ UNCHANGED <<input, failed, moved>>
      BY <1>1, <2>1 DEF PlacePdf, ThenStep, HInv, TypeOK
    <3>2. InPlace(j) => InPlace(j)'
      BY <1>1, <3>1, PlacedAgain, Zenon
    <3>. QED BY <2>0, <3>1, <3>2, Zenon
  <2>2. CASE PlaceJson(j)
    <3>1. /\ placing[j].step = "json" /\ placing'[j].step = "input" /\ placing'[j].as = placing[j].as
          /\ UNCHANGED <<input, moved>> /\ done[s] \in [pdf: Job \cup {None}, json: Job \cup {None}]
      BY <1>1, <2>2 DEF PlaceJson, ThenStep, HInv, TypeOK
    <3>2. CASE placing[j].as = "error"
      <4>1. done'[s] = done[s] /\ failed'[s] = j
        BY <1>1, <2>2, <3>2 DEF PlaceJson, Where, HInv, TypeOK
      <4>2. InPlace(j) => InPlace(j)'
        BY <1>1, <3>1, <4>1, PlacedAgain, Zenon
      <4>3. Outputs(j)'
        BY <1>1, <3>1, <3>2, <4>1, Zenon DEF Outputs
      <4>. QED BY <2>0, <3>1, <4>2, <4>3, Zenon
    <3>3. CASE placing[j].as # "error"
      <4>1. done'[s] = [done[s] EXCEPT !.json = j] /\ failed'[s] = failed[s]
        BY <1>1, <2>2, <3>3 DEF PlaceJson, Where, HInv, TypeOK
      <4>2. InPlace(j) => InPlace(j)'
        BY <1>1, <3>1, <4>1, PlacedAgain, Zenon
      <4>3. placing[j].as = "pdf" => done[s].pdf = j
        BY <3>1, Zenon DEF PlacedInv
      <4>4. done'[s].json = j /\ (placing[j].as = "pdf" => done'[s] = [pdf |-> j, json |-> j])
        BY <3>1, <4>1, <4>3, Zenon
      <4>5. Outputs(j)'
        BY <1>1, <2>0, <3>1, <3>3, <4>4, Zenon DEF Outputs
      <4>. QED BY <2>0, <3>1, <4>2, <4>5, Zenon
    <3>. QED BY <3>2, <3>3, Zenon
  <2>3. CASE PlaceInput(j)
    <3>1. /\ placing[j].step = "input" /\ placing'[j].step = "mark" /\ Outputs(j)
          /\ UNCHANGED <<done, failed>>
      BY <1>1, <2>3 DEF PlaceInput, ThenStep, PlacedInv, HInv, TypeOK
    <3>2. CASE input[f] = None
      <4>1. moved' = moved /\ InPlace(j)
        BY <1>1, <2>0, <2>3, <3>2, NoneAssumption, Numbers, BoundAssumption DEF PlaceInput, JobRow, Version
      <4>. QED BY <1>1, <3>1, <4>1, PlacedAgain, Zenon
    <3>3. CASE input[f] # None
      <4>1. input[f] = jobs[j].ver /\ jobs[j].ver = last[f] /\ jobs[j].ver \in Int
        BY <1>1, <3>3, Numbers, Zenon DEF CarefulInv
      <4>2. placing[j].as # "pdf" => moved'[Where(j)][f] = jobs[j].ver
        BY <1>1, <2>3, <3>3, <4>1, Zenon DEF PlaceInput, Where, HInv, TypeOK
      <4>3. CASE placing[j].as = "pdf"
        BY <1>1, <2>0, <3>1, <4>3, Zenon DEF Outputs, Found, InPlace
      <4>4. CASE placing[j].as = "report"
        <5>1. done'[s].json = j /\ moved'["done"][f] = jobs[j].ver
          BY <3>1, <4>2, <4>4, Zenon DEF Outputs, Where
        <5>. QED BY <1>1, <2>0, <3>1, <4>4, <5>1, Zenon DEF Found, InPlace
      <4>5. CASE placing[j].as = "error"
        <5>1. failed'[s] = j /\ moved'["failed"][f] = jobs[j].ver
          BY <3>1, <4>2, <4>5, Zenon DEF Outputs, Where
        <5>2. Found(j, "error")'
          BY <1>1, <4>1, <5>1 DEF Found
        <5>. QED BY <1>1, <2>0, <3>1, <4>5, <5>2, Zenon DEF InPlace
      <4>. QED BY <2>0, <4>3, <4>4, <4>5, Zenon
    <3>. QED BY <3>2, <3>3, Zenon
  <2>4. CASE PlaceFails(j)
    <3>1. UNCHANGED <<input, done, failed, moved>>
      BY <2>4, Zenon DEF PlaceFails, folder
    <3>2. placing'[j].step # "input" /\ ~(placing'[j].step = "json" /\ placing'[j].as = "pdf")
      BY <2>4, Zenon DEF PlaceFails, NotPlacing, HInv, TypeOK
    <3>3. InPlace(j) => InPlace(j)'
      BY <1>1, <3>1, PlacedAgain, Zenon
    <3>. QED BY <2>0, <3>1, <3>2, <3>3, Zenon
  <2>. QED BY <2>1, <2>2, <2>3, <2>4, Zenon
<1>. QED BY <1>1, <1>3, <1>4, <1>5, PlacedKept, Zenon

\* Every step keeps the original or the outcome of each job in place.
LEMMA PlacedInvStep ==
  ASSUME Careful, OwnStem, HInv, HInv', DeliveryInv, CarefulInv, PlacedInv, [Next]_vars
  PROVE  PlacedInv'
<1>1. CASE \E f \in Files : Write(f)
  BY <1>1, UserPlaced, Zenon
<1>2. CASE ScanReport \/ ScanTurnAway \/ ScanSubmit
  BY <1>2, TurnAwayPlaced, SubmitPlaced, Zenon
<1>3. CASE \E j \in Job : Place(j) \/ PlaceFails(j)
  BY <1>3, PlacePlaced, RowPlaced, Zenon DEF Place
<1>4. CASE \E j \in Job, state \in {"done", "failed"} : Settle(j, state)
  BY <1>4, RowPlaced, Zenon
<1>5. CASE \/ ScanStart \/ ScanInFlight \/ ScanCopy \/ ScanEnd \/ ScanFails \/ \E f \in Files : ScanSig(f)
           \/ Crash \/ Open \/ Serve \/ UNCHANGED vars
  <2>1. UNCHANGED <<last, input, done, failed, moved, jobs, n>>
    BY <1>5, Zenon DEF ScanStart, ScanInFlight, ScanCopy, ScanEnd, ScanFails, ScanSig, Crash, Open, Serve, folder, vars
  <2>2. placing' = placing
        \/ \A j \in Job : placing'[j].step # "input" /\ ~(placing'[j].step = "json" /\ placing'[j].as = "pdf")
    BY <1>5 DEF ScanStart, ScanInFlight, ScanCopy, ScanEnd, ScanFails, ScanSig, Crash, Open, Serve, vars,
       NotPlacing, Deliver
  <2>3. ASSUME NEW j \in Job
        PROVE  /\ placing'[j].step = "json" /\ placing'[j].as = "pdf" => done'[Stem[jobs'[j].file]].pdf = j
               /\ placing'[j].step = "input" => Outputs(j)'
    BY <2>1, <2>2, Zenon DEF PlacedInv, Outputs
  <2>4. \A j \in 1..n : Spared(j)
    BY <2>1, Numbers, SMTT(20) DEF Spared
  <2>. QED BY <2>1, <2>3, <2>4, PlacedKept, Zenon
<1>. QED BY <1>1, <1>2, <1>3, <1>4, <1>5, Zenon DEF Next, Scan

\* docs/self-hosting.md:144: a converted file lands in done/ with its report, a rejected one in
\* failed/, a checked one in done/ with its report.  For users that never write a name whose
\* file or job is still there, in folders whose files have stems of their own, place() leaves
\* the outcome of a file's last job so from the moment it counts as delivered, however scans,
\* deliveries, failing disks, crashes and restarts interleave.
THEOREM OutcomeStays == ASSUME Careful, OwnStem PROVE Spec => []OutcomeInPlace
<1>1. Init => DeliveryInv /\ CarefulInv /\ PlacedInv
  BY SMTT(20) DEF Init, DeliveryInv, CarefulInv, NothingLost, PlacedInv, OutcomeInPlace, JobsOf, Resting, NotPlacing
<1>2. HInv /\ HInv' /\ DeliveryInv /\ CarefulInv /\ PlacedInv /\ [Next]_vars
        => DeliveryInv' /\ CarefulInv' /\ PlacedInv'
  BY DeliveryStep, CarefulStep, PlacedInvStep, Zenon
<1>3. PlacedInv => OutcomeInPlace
  BY Zenon DEF PlacedInv
<1>. QED BY <1>1, <1>2, <1>3, Invariance, PTL DEF Spec
=============================================================================
