-------------------------------- MODULE Watch --------------------------------
(* kura --watch (pdfa-engine/cli/main.cpp): one batch after another over the   *)
(* files of a folder that nobody has written for two seconds, each moved to    *)
(* done/ when its batch has ended.  What a program writes into the folder      *)
(* meanwhile is the environment's.  Each version of a file has a number.       *)
(* A plain --batch is the case of a folder that is read once.                  *)
EXTENDS Batch

CONSTANTS Names,      \* the file names, numbers in name order
          Content,      \* name -> the document a file of that name is
          OutputName,   \* name -> the name of its output in this folder, 0 with -d elsewhere
          MaxVersions,  \* versions ever written to the folder
          MaxFails      \* renames that fail

ASSUME WatchAssumption ==
  /\ Names \subseteq Nat \ {0} /\ Content \in [Names -> [outcome : STRING, takes : Nat]]
  /\ OutputName \in [Names -> Names \cup {0}]
  /\ MaxVersions \in Nat /\ MaxFails \in Nat
  /\ \A c \in Calls : DOMAIN c.docs \subseteq Names /\ Len(c.docs) <= MaxVersions /\ (c.watch => c.docs = <<>>)

VARIABLES folder,     \* name -> the version there, 0 for none
          settled,    \* names last written more than two seconds ago
          done,       \* done/: name -> the version there
          taken,      \* the round's files in name order
          moving,     \* index of the next file to move; 0 while none is moved
          runs,       \* version -> how often the engine was run on it
          versions,   \* versions written so far
          byKura,     \* the versions that are outputs
          late,       \* the versions written over a file the running round had taken
          fails       \* renames that failed
folderVars == <<folder, settled, done, taken, moving, runs, versions, byKura, late, fails>>
wvars == <<vars, folderVars>>

Versions == 1..MaxVersions
MaxRuns == MaxFails + 2  \* runs are counted up to here
Idle == watch /\ exit # Running /\ moving = 0
Remaining == {taken[i] : i \in {j \in DOMAIN taken : moving = 0 \/ j >= moving}}

WInit ==
  /\ Init
  /\ folder = [n \in Names |-> IF n <= Len(docs) THEN n ELSE 0] /\ settled = {}
  /\ done = [n \in Names |-> 0] /\ taken = [d \in DOMAIN docs |-> d] /\ moving = 0
  /\ runs = [v \in Versions |-> 0] /\ versions = Len(docs) /\ byKura = {} /\ late = {} /\ fails = 0

\* A file is written, new or over the one that is there.
Write(n) ==
  /\ versions < MaxVersions /\ versions' = versions + 1
  /\ folder' = [folder EXCEPT ![n] = versions + 1] /\ settled' = settled \ {n}
  /\ late' = IF ~Idle /\ n \in Remaining THEN late \cup {versions + 1} ELSE late

Save(n) == watch /\ Write(n) /\ UNCHANGED <<vars, done, taken, moving, runs, byKura, fails>>

Settle(n) ==
  /\ watch /\ folder[n] # 0 /\ n \notin settled /\ settled' = settled \cup {n}
  /\ UNCHANGED <<vars, folder, done, taken, moving, runs, versions, byKura, late, fails>>

\* the sequence of a set's numbers in their order, the only one there is
InOrder(S) ==
  {s \in UNION {[1..k -> S] : k \in 0..MaxVersions} :
     {s[i] : i \in DOMAIN s} = S /\ \A a, b \in DOMAIN s : a < b => s[a] < s[b]}

\* collect, the files not written for two seconds, and the start of runBatch
Round ==
  /\ Idle /\ settled # {}
  /\ taken' \in InOrder(settled)
  /\ docs' = [i \in DOMAIN taken' |-> Content[taken'[i]]]
  /\ now' = 0 /\ next' = 1 /\ ended' = {}
  /\ busy' = [w \in Workers |-> 0] /\ since' = [w \in Workers |-> 0]
  /\ codes' = [d \in DOMAIN docs' |-> 0] /\ outputs' = [d \in DOMAIN docs' |-> "none"]
  /\ printed' = <<Sign("open")>> /\ exit' = Running
  /\ UNCHANGED <<jobs, watch, deadline, folder, settled, done, moving, runs, versions, byKura, late, fails>>

\* The engine reads the file when it starts on it.
Start(w) ==
  /\ Claim(w)
  /\ LET v == folder[taken[busy'[w]]] IN runs' = [runs EXCEPT ![v] = IF @ = MaxRuns THEN @ ELSE @ + 1]
  /\ UNCHANGED <<folder, settled, done, taken, moving, versions, byKura, late, fails>>

Ends(w) == FinishHere(w) \/ ChildEnds(w)
OutputOf(w) == IF codes'[busy[w]] = 0 THEN OutputName[taken[busy[w]]] ELSE 0

\* A document ends; its output goes elsewhere, or into the folder without -d.
Finish(w) ==
  /\ Ends(w)
  /\ IF watch /\ OutputOf(w) # 0 /\ versions < MaxVersions
     THEN Write(OutputOf(w)) /\ byKura' = byKura \cup {versions'} /\ UNCHANGED <<done, taken, moving, runs, fails>>
     ELSE UNCHANGED folderVars

Other ==
  /\ \/ \E w \in Workers : Clash(w) \/ ChildTimesOut(w) \/ Return(w)
     \/ NoInputs \/ WatchdogFires \/ Tick
  /\ UNCHANGED folderVars

EndRoundCollects ==
  /\ End /\ moving' = (IF watch /\ settled # {} THEN 1 ELSE 0)
  /\ taken' \in IF watch THEN InOrder(settled) ELSE {taken}
  /\ UNCHANGED <<folder, settled, done, runs, versions, byKura, late, fails>>

\* "]": a round goes on to move its files, a plain batch has ended.
EndRound ==
  /\ End /\ moving' = (IF watch THEN 1 ELSE 0)
  /\ UNCHANGED <<folder, settled, done, taken, runs, versions, byKura, late, fails>>

Next1 == IF moving = Len(taken) THEN 0 ELSE moving + 1

MoveConverted ==
  /\ moving # 0 /\ moving' = Next1
  /\ LET n == taken[moving]
     IN IF codes[moving] = 0
        THEN /\ done' = [done EXCEPT ![n] = folder[n]] /\ folder' = [folder EXCEPT ![n] = 0] /\ settled' = settled \ {n}
        ELSE UNCHANGED <<done, folder, settled>>
  /\ UNCHANGED <<vars, taken, runs, versions, byKura, late, fails>>

\* The rename into done/, over an earlier file of the name; its error code is ignored.
Move ==
  /\ moving # 0 /\ moving' = Next1
  /\ LET n == taken[moving]
     IN \/ /\ done' = [done EXCEPT ![n] = folder[n]] /\ folder' = [folder EXCEPT ![n] = 0]
           /\ settled' = settled \ {n} /\ UNCHANGED fails
        \/ /\ fails < MaxFails /\ fails' = fails + 1 /\ UNCHANGED <<done, folder, settled>>
  /\ UNCHANGED <<vars, taken, runs, versions, byKura, late>>

WStep ==
  \/ \E w \in Workers : Start(w) \/ Finish(w)
  \/ Other \/ EndRound \/ Round \/ Move
User == \E n \in Names : Save(n)
Age == \E n \in Names : Settle(n)
Stop == ~watch /\ Done /\ UNCHANGED folderVars
Waits == Idle /\ settled = {} /\ UNCHANGED wvars
WNext == WStep \/ User \/ Age \/ Stop \/ Waits

WSpec == WInit /\ [][WNext]_wvars
\* The loop goes on, children end or are stopped, time passes.
WFairSpec == WSpec /\ WF_wvars(WStep) /\ \A n \in Names : WF_wvars(Settle(n))

-----------------------------------------------------------------------------
\* The engine is run on a file once, by one of the threads (the atomic next++)
\* and in one round, unless its rename failed.
RunOnce == \A v \in Versions : runs[v] <= 1 + fails

\* What stands in done/ is what the engine was run on, except for what was
\* written over a file while the round that had taken it was running.
MovedWasRun == \A n \in Names : done[n] \notin late \cup {0} => runs[done[n]] > 0

\* main.cpp:1277 says: "processed files move to" done/.  So without exception.
OnlyProcessedMoved == \A n \in Names : done[n] # 0 => runs[done[n]] > 0

\* A file in the folder is moved out of it or written over, sooner or later.
FilesMoved == \A v \in Versions : (watch /\ \E n \in Names : folder[n] = v) ~> \A n \in Names : folder[n] # v

\* docs/cli.md:136: "`PDFA_TIMEOUT` sets the watchdog in seconds for each
\* document".  So also for the only file of a round, which runs in this process.
NoneOverBudget == ~Parallel => \A w \in Workers : busy[w] # 0 => now <= since[w] + Budget

\* Only what somebody saved is an input: an output is never converted again.
OutputsNotTaken == \A v \in byKura : runs[v] = 0
=============================================================================
