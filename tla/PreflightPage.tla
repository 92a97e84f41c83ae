---------------------------- MODULE PreflightPage ----------------------------
(* The preflight page, site/preflight.js: one file at a time, analyzed again  *)
(* whenever the file or the profile changes, with at most one run at a time.  *)
(* A password is known by the file it opens.                                  *)
EXTENDS SiteEngine, FiniteSets

CONSTANTS Files,      \* the files a user picks
          Locked,     \* those that need a password
          Looks,      \* those that looksEncrypted takes for locked
          Profiles,
          None,
          MaxPicks,   \* bounds: files picked,
          MaxSelects  \* profiles selected, and passwords tried or locks put back

VARIABLES reading,    \* files picked whose arrayBuffer() has not resolved
          picks, selects,
          file,       \* fileBytes and fileName
          selected,
          busy, queued,
          encrypted, verified, password,
          results     \* what the results show: a file and a profile, or None
pre == <<reading, picks, selects, file, selected, busy, queued, encrypted, verified, password, results>>

NoResults == [file |-> None, profile |-> None]

PreInit ==
  /\ reading = {} /\ picks = 0 /\ selects = 0 /\ file = None /\ selected \in Profiles
  /\ busy = FALSE /\ queued = FALSE /\ encrypted = FALSE /\ verified = FALSE /\ password = None
  /\ results = NoResults

BeginDrops(fl, prof, pw, isReady, isBusy, isQueued, w) ==
  IF fl = None \/ ~isReady \/ isBusy THEN busy' = isBusy /\ queued' = isQueued /\ wire' = w
  ELSE /\ busy' = TRUE /\ queued' = isQueued
       /\ wire' = Append(w, [file |-> fl, profile |-> prof, pw |-> pw, verify |-> FALSE])

\* run up to its await, called with the page's variables as they are by then
Begin(fl, prof, pw, isReady, isBusy, isQueued, w) ==
  IF fl = None \/ ~isReady THEN busy' = isBusy /\ queued' = isQueued /\ wire' = w
  ELSE IF isBusy THEN busy' = TRUE /\ queued' = TRUE /\ wire' = w
  ELSE /\ busy' = TRUE /\ queued' = isQueued
       /\ wire' = Append(w, [file |-> fl, profile |-> prof, pw |-> pw, verify |-> FALSE])

NoBegin == UNCHANGED <<busy, queued, wire>>

\* The callback of createEngine
FileState ==
  /\ Loaded \/ Breaks
  /\ Begin(file, selected, password, ready', busy, queued, wire)
  /\ UNCHANGED <<reading, picks, selects, file, selected, encrypted, verified, password, results>>

Select(p) ==
  /\ selects < MaxSelects /\ selects' = selects + 1 /\ selected' = p
  /\ Begin(file, p, password, ready, busy, queued, wire)
  /\ UNCHANGED <<ready, lost, reading, picks, file, encrypted, verified, password, results>>

\* The drop zone is there while no file is.
Pick(f) ==
  /\ file = None /\ picks < MaxPicks /\ picks' = picks + 1 /\ reading' = reading \cup {f}
  /\ UNCHANGED <<site, selects, file, selected, busy, queued, encrypted, verified, password, results>>

\* setFile after the read, in whatever order the reads end
SetFile(f) ==
  /\ f \in reading /\ reading' = reading \ {f} /\ file' = f
  /\ encrypted' = (f \in Looks) /\ verified' = FALSE /\ password' = None /\ results' = NoResults
  /\ IF f \in Looks THEN NoBegin ELSE Begin(f, selected, None, ready, busy, queued, wire)
  /\ UNCHANGED <<ready, lost, picks, selects, selected>>

ClearFile ==
  /\ file # None /\ file' = None
  /\ encrypted' = FALSE /\ verified' = FALSE /\ password' = None /\ results' = NoResults
  /\ UNCHANGED <<site, reading, picks, selects, selected, busy, queued>>

IsLocked == encrypted /\ ~verified

\* unlock up to its await
Unlock(pw) ==
  /\ IsLocked /\ ready /\ selects < MaxSelects /\ selects' = selects + 1 /\ password' = pw
  /\ Post([file |-> file, profile |-> None, pw |-> pw, verify |-> TRUE])
  /\ UNCHANGED <<ready, lost, reading, picks, file, selected, busy, queued, encrypted, verified, results>>

\* the lock badge
Relock ==
  /\ encrypted /\ verified /\ verified' = FALSE /\ selects < MaxSelects /\ selects' = selects + 1
  /\ UNCHANGED <<site, reading, picks, file, selected, busy, queued, encrypted, password, results>>

\* The two buttons, when updateButtons has them enabled.  "Fix and download" has
\* its results shown like the other, and offers the file besides.
Button ==
  /\ ready /\ ~busy /\ file # None /\ ~IsLocked /\ selects < MaxSelects /\ selects' = selects + 1
  /\ Begin(file, selected, password, ready, busy, queued, wire)
  /\ UNCHANGED <<ready, lost, reading, picks, file, selected, encrypted, verified, password, results>>

Opens(q) == q.file \notin Locked \/ q.pw = q.file

\* unlock after its await; a call that failed counts as a wrong password
Verified(k) ==
  /\ wire[k].verify /\ verified' \in {Opens(wire[k]), FALSE}
  /\ IF verified' THEN Begin(file, selected, password, ready, busy, queued, Taken(k))
     ELSE wire' = Taken(k) /\ UNCHANGED <<busy, queued>>
  /\ UNCHANGED <<ready, lost, reading, picks, selects, file, selected, encrypted, password, results>>

\* PASSWORD_REQUIRED asks for the password; any other answer, an error too, is
\* shown.
Show(q) ==
  \/ results' = [file |-> q.file, profile |-> q.profile] /\ UNCHANGED <<encrypted, verified>>
  \/ ~Opens(q) /\ results' = NoResults /\ encrypted' = TRUE /\ verified' = FALSE

FileAnswerKept(k) ==
  /\ ~wire[k].verify
  /\ busy' = FALSE /\ queued' = FALSE /\ wire' = Taken(k)
  /\ Show(wire[k])
  /\ UNCHANGED <<ready, lost, reading, picks, selects, file, selected, password>>

\* run after its await: the answer is thrown away if another run was asked for
\* meanwhile.
FileAnswer(k) ==
  /\ ~wire[k].verify
  /\ IF queued
     THEN /\ Begin(file, selected, password, ready, FALSE, FALSE, Taken(k))
          /\ UNCHANGED <<encrypted, verified, results>>
     ELSE busy' = FALSE /\ queued' = FALSE /\ wire' = Taken(k) /\ Show(wire[k])
  /\ UNCHANGED <<ready, lost, reading, picks, selects, file, selected, password>>

FileAnswers == ~lost /\ \E k \in Due : Verified(k) \/ FileAnswer(k)
Reads == \E f \in reading : SetFile(f)

PreNext ==
  \/ FileState \/ ClearFile \/ Relock \/ Button \/ FileAnswers \/ Reads
  \/ (\E p \in Profiles : Select(p)) \/ (\E f \in Files : Pick(f) \/ Unlock(f))

-----------------------------------------------------------------------------
Current == results = [file |-> file, profile |-> selected]

\* Results shown beside an open file, with no run on its way, are the results
\* of that file with the selected profile, however files, profiles, passwords
\* and answers came in between (busy, queued and the results setFile hides).
ResultsBelong ==
  ready /\ ~busy /\ file # None /\ ~IsLocked /\ results # NoResults => Current

\* A file that is open gets its results with the profile that is selected in
\* the end, as long as the engine answers: no request for a run is dropped.
FileAnalyzed ==
  (file # None /\ ~IsLocked /\ ready) ~> (Current \/ file = None \/ IsLocked \/ lost)

\* The results shown are always those of the file shown.
ResultsOfFile == results # NoResults => results.file = file
=============================================================================
