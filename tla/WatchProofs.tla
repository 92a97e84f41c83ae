----------------------------- MODULE WatchProofs ------------------------------
(* What kura --batch and kura --watch keep for every folder, every number of   *)
(* jobs and every course of the threads, of the children and of those who      *)
(* write into the folder.                                                      *)
EXTENDS Watch, WellFoundedInduction, TLAPS

\* The indices are handed out one after the other; a thread that has returned,
\* and one that was not started, has no document.
BatchTypes ==
  /\ docs \in Seq([outcome : STRING, takes : Nat]) /\ jobs \in Nat \ {0} /\ watch \in BOOLEAN
  /\ next \in Nat \ {0} /\ next <= Len(docs) + 1
  /\ busy \in [Workers -> Nat] /\ \A w \in Workers : busy[w] < next
  /\ ended \subseteq Team /\ (ended # {} => next = Len(docs) + 1)
  /\ \A w \in Workers : w \in ended \/ w \notin Team => busy[w] = 0
  /\ exit \in {Running, 0, 1, 2, 3}

\* A version stands under one name, and a round has each of its files once.
FolderTypes ==
  /\ versions \in Nat /\ versions <= MaxVersions /\ fails \in Nat
  /\ folder \in [Names -> 0..versions] /\ done \in [Names -> 0..versions]
  /\ \A n, m \in Names : n # m /\ folder[n] # 0 => folder[n] # folder[m]
  /\ settled \subseteq Names /\ \A n \in settled : folder[n] # 0
  /\ taken \in Seq(Names) /\ Len(taken) = Len(docs)
  /\ \A i, j \in DOMAIN taken : taken[i] = taken[j] => i = j
  /\ moving \in 0..Len(taken) /\ (moving # 0 => watch /\ exit # Running /\ next = Len(docs) + 1)
  /\ runs \in [Versions -> Nat] /\ \A v \in Versions : v > versions => runs[v] = 0

\* A round has begun and not yet moved all its files; a plain batch is one.
InRound == ~watch \/ exit = Running \/ moving # 0
Open(i) == InRound /\ i < next /\ i >= moving

\* The files a round has yet to move are still there.
Held == \A i \in DOMAIN taken : InRound /\ i >= moving => folder[taken[i]] # 0

\* The engine has run on the file that stands under a name as often as a rename
\* failed, and once more while the round that has run on it has yet to move it.
RunBound ==
  /\ \A v \in Versions : runs[v] <= 1 + fails
  /\ \A n \in Names : folder[n] # 0 =>
       \/ runs[folder[n]] <= fails
       \/ \E i \in DOMAIN taken : taken[i] = n /\ Open(i)

WInv == BatchTypes /\ FolderTypes /\ Held /\ RunBound

\* No file of the watched folder has an output that would be the file itself.
NoClash == \A n \in Names : Content[n].outcome # "clash"

\* What a round has begun, and what it has moved, was run or written later.
RunOrLate(v) == v \in late \/ runs[v] > 0
MInv ==
  /\ watch => \A d \in DOMAIN docs : docs[d].outcome # "clash"
  /\ watch => \A i \in DOMAIN taken : Open(i) => RunOrLate(folder[taken[i]])
  /\ \A n \in Names : done[n] # 0 => RunOrLate(done[n])

\* Every document that is converted in this process has a report.
AllReported ==
  /\ \A c \in Calls : c.jobs = 1 \/ Len(c.docs) = 1 => \A d \in DOMAIN c.docs : Reports(c.docs[d].outcome)
  /\ \A n \in Names : Reports(Content[n].outcome)

\* What the array is made of.
Entry == [t : {"open", "comma", "close", "object"}, of : Nat]

\* In sequence, the array grows by an object and a comma per document.
Ready == IF busy[1] = 0 THEN next - 1 ELSE next - 2
Array(m) ==
  /\ \A d \in 1..m : printed[2 * d] = Object(d)
  /\ \A d \in 1..m : d < Len(docs) => printed[2 * d + 1] = Sign("comma")
OInv ==
  /\ docs # <<>> /\ exit = Running =>
       IF Parallel THEN printed = <<Sign("open")>>
       ELSE /\ \A d \in DOMAIN docs : Reports(docs[d].outcome)
            /\ busy[1] # 0 => busy[1] = next - 1
            /\ printed \in Seq(Entry)
            /\ Len(printed) = (IF Ready = Len(docs) THEN 2 * Ready ELSE 2 * Ready + 1)
            /\ Array(Ready)
  /\ OneObjectPerFile

-----------------------------------------------------------------------------
\* The threads of a batch are among its jobs, whatever runs meanwhile.
LEMMA TeamFacts ==
  ASSUME BatchTypes
  PROVE  1 \in Workers /\ Team \subseteq Workers /\ Team # {} /\ (~Parallel => Team = {1}) /\ Len(docs) \in Nat
<1>1. 1 \in Workers /\ Len(docs) \in Nat
  BY DEF BatchTypes, Workers
<1> QED BY <1>1, Zenon DEF Team

\* A step that leaves the call alone has the same threads.
LEMMA SameTeam ==
  ASSUME UNCHANGED call
  PROVE  docs' = docs /\ jobs' = jobs /\ watch' = watch /\ Workers' = Workers /\ Team' = Team /\ Parallel' = Parallel
BY Zenon DEF call, Workers, Team, Parallel

\* The end of a document, here or in a child.
DocEnds(w) ==
  /\ exit = Running /\ busy[w] # 0 /\ busy' = [busy EXCEPT ![w] = 0]
  /\ UNCHANGED <<call, next, ended, exit>>
\* A document that ends is an end of DocEnds, and a parallel worker prints nothing then.
LEMMA EndsAre ==
  ASSUME NEW w, Ends(w) \/ ChildTimesOut(w)
  PROVE  DocEnds(w) /\ (Parallel => printed' = printed)
BY Zenon DEF Ends, FinishHere, ChildEnds, ChildTimesOut, DocEnds, Due

\* A change of the exit status alone.
OnlyExit == exit = Running /\ exit' \in {0, 1, 2, 3} /\ UNCHANGED <<call, next, busy, ended>>
\* The steps that end the process change its exit status alone; only a batch exits with 3.
LEMMA ExitsAre ==
  ASSUME NoInputs \/ WatchdogFires \/ End
  PROVE  OnlyExit /\ (watch => exit' # 3)
<1>1. Status \in {0, 1, 2}
  BY Zenon DEF Status
<1> QED BY <1>1 DEF NoInputs, WatchdogFires, End, OnlyExit

\* What a round starts with.
LEMMA RoundStart ==
  ASSUME FolderTypes, Round
  PROVE  /\ taken' \in Seq(Names) /\ Len(taken') \in Nat /\ docs' \in Seq([outcome : STRING, takes : Nat])
         /\ Len(docs') = Len(taken') /\ DOMAIN docs' = DOMAIN taken' /\ DOMAIN taken' = 1..Len(taken')
         /\ \A i \in DOMAIN taken' : taken'[i] \in settled /\ docs'[i] = Content[taken'[i]]
         /\ \A i, j \in DOMAIN taken' : taken'[i] = taken'[j] => i = j
<1>1. PICK k \in 0..MaxVersions : taken' \in [1..k -> settled]
  BY Zenon DEF Round, InOrder
<1>2. docs' = [i \in DOMAIN taken' |-> Content[taken'[i]]] /\ \A a, b \in DOMAIN taken' : a < b => taken'[a] < taken'[b]
  BY Zenon DEF Round, InOrder
<1> DEFINE Doc == [outcome : STRING, takes : Nat]
<1>3. settled \subseteq Names /\ Names \subseteq Nat /\ k \in Nat /\ \A n \in Names : Content[n] \in Doc
  <2>1. Content \in [Names -> Doc] /\ Names \subseteq Nat /\ MaxVersions \in Nat
    BY WatchAssumption, Zenon
  <2>2. settled \subseteq Names
    BY Zenon DEF FolderTypes
  <2> HIDE DEF Doc
  <2> QED BY <2>1, <2>2
<1>4. taken' \in Seq(Names) /\ Len(taken') = k /\ DOMAIN taken' = 1..k /\ \A i \in 1..k : taken'[i] \in settled
  <2>1. taken' \in Seq(settled) /\ Len(taken') = k /\ DOMAIN taken' = 1..k /\ \A i \in 1..k : taken'[i] \in settled
    BY <1>1, <1>3
  <2>2. ASSUME NEW q, q \in [1..k -> Names] PROVE q \in Seq(Names)
    BY <1>3, <2>2
  <2>3. taken' \in [1..k -> Names]
    BY <1>1, <1>3, Zenon
  <2> QED BY <2>1, <2>2, <2>3, Zenon
<1>5. docs' \in Seq(Doc) /\ Len(docs') = k /\ DOMAIN docs' = 1..k /\ \A i \in 1..k : docs'[i] = Content[taken'[i]]
  <2> HIDE DEF Doc
  <2>1. docs' = [i \in 1..k |-> Content[taken'[i]]] /\ \A i \in 1..k : Content[taken'[i]] \in Doc
    BY <1>2, <1>3, <1>4, Zenon
  <2> QED BY <1>3, <2>1
<1>6. \A i, j \in 1..k : taken'[i] = taken'[j] => i = j
  <2> SUFFICES ASSUME NEW i \in 1..k, NEW j \in 1..k, i # j PROVE taken'[i] # taken'[j]
    BY Zenon
  <2>1. taken'[i] \in Nat /\ taken'[j] \in Nat
    BY <1>3, <1>4, Zenon
  <2>2. i < j \/ j < i
    BY <1>3
  <2> QED BY <1>2, <1>4, <2>1, <2>2
<1> QED BY <1>3, <1>4, <1>5, <1>6, Zenon

-----------------------------------------------------------------------------
\* The steps of a batch by what they change of it.
LEMMA StepKinds ==
  ASSUME [WNext]_wvars
  PROVE  \/ \E w \in Workers : Start(w)
         \/ \E w \in Workers : Finish(w)
         \/ \E w \in Workers : ChildTimesOut(w) /\ UNCHANGED folderVars
         \/ \E w \in Workers : (Clash(w) \/ Return(w)) /\ UNCHANGED folderVars
         \/ (NoInputs \/ WatchdogFires) /\ UNCHANGED folderVars
         \/ EndRound
         \/ Round
         \/ Move
         \/ \E n \in Names : Save(n) \/ Settle(n)
         \/ UNCHANGED <<call, next, busy, ended, codes, outputs, printed, exit>> /\ UNCHANGED folderVars
<1>1. Tick => UNCHANGED <<call, next, busy, ended, codes, outputs, printed, exit>>
  BY Zenon DEF Tick
<1>2. UNCHANGED vars => UNCHANGED <<call, next, busy, ended, codes, outputs, printed, exit>>
  BY Zenon DEF vars
<1>3. Stop \/ Waits \/ UNCHANGED wvars => UNCHANGED vars /\ UNCHANGED folderVars
  BY Zenon DEF Stop, Waits, Done, wvars
<1> QED BY <1>1, <1>2, <1>3, Zenon DEF WNext, WStep, Other, User, Age

\* Every step keeps the types of a batch.
LEMMA BatchKept == ASSUME WInv, [WNext]_wvars PROVE BatchTypes'
<1>0. BatchTypes /\ FolderTypes /\ Team \subseteq Workers /\ Len(docs) \in Nat
  BY TeamFacts, Zenon DEF WInv
<1>1. ASSUME NEW w \in Workers, Claim(w) PROVE BatchTypes'
  <2>1. /\ UNCHANGED call /\ ended' = ended /\ exit' = exit /\ next' = next + 1 /\ next <= Len(docs)
        /\ busy' = [busy EXCEPT ![w] = next] /\ w \in Team /\ w \notin ended
    BY <1>1, Zenon DEF Claim, Free
  <2>2. docs' = docs /\ jobs' = jobs /\ watch' = watch /\ Workers' = Workers /\ Team' = Team
    BY <2>1, SameTeam, Zenon
  <2>3. busy \in [Workers -> Nat] /\ next \in Nat \ {0}
    BY <1>0, Zenon DEF BatchTypes
  <2>4. busy' \in [Workers -> Nat] /\ \A v \in Workers : busy'[v] = IF v = w THEN next ELSE busy[v]
    BY <2>1, <2>3, Zenon
  <2>5. ended = {}
    BY <1>0, <2>1 DEF BatchTypes
  <2> QED BY <1>0, <2>1, <2>2, <2>4, <2>5 DEF BatchTypes
<1>2. ASSUME NEW w \in Workers, DocEnds(w) PROVE BatchTypes'
  <2>1. UNCHANGED call /\ UNCHANGED <<next, ended, exit>> /\ busy' = [busy EXCEPT ![w] = 0]
    BY <1>2, Zenon DEF DocEnds
  <2>2. docs' = docs /\ jobs' = jobs /\ watch' = watch /\ Workers' = Workers /\ Team' = Team
    BY <2>1, SameTeam, Zenon
  <2>3. busy \in [Workers -> Nat]
    BY <1>0, Zenon DEF BatchTypes
  <2>4. busy' \in [Workers -> Nat] /\ \A v \in Workers : busy'[v] \in {0, busy[v]}
    BY <2>1, <2>3, Zenon
  <2> QED BY <1>0, <2>1, <2>2, <2>4 DEF BatchTypes
<1>3. ASSUME NEW w \in Workers, Clash(w) \/ Return(w) PROVE BatchTypes'
  <2>1. UNCHANGED call /\ UNCHANGED <<busy, exit>> /\ w \in Team /\ w \notin ended /\ busy[w] = 0
    BY <1>3, Zenon DEF Clash, Return, Free
  <2>2. \/ next <= Len(docs) /\ next' = next + 1 /\ ended' = ended
        \/ next > Len(docs) /\ next' = next /\ ended' = ended \cup {w}
    BY <1>3, Zenon DEF Clash, Return
  <2> QED BY <1>0, <2>1, <2>2, SameTeam DEF BatchTypes
<1>4. ASSUME OnlyExit PROVE BatchTypes'
  BY <1>0, <1>4, SameTeam, Zenon DEF BatchTypes, OnlyExit
<1>5. ASSUME Round PROVE BatchTypes'
  <2>1. /\ UNCHANGED <<jobs, watch>> /\ next' = 1 /\ ended' = {} /\ busy' = [w \in Workers |-> 0] /\ exit' = Running
        /\ docs' \in Seq([outcome : STRING, takes : Nat]) /\ Len(docs') \in Nat
    BY <1>0, <1>5, RoundStart, Zenon DEF Round
  <2>2. Workers' = Workers
    BY <2>1, Zenon DEF Workers
  <2> QED BY <1>0, <2>1, <2>2 DEF BatchTypes
<1>6. ASSUME UNCHANGED <<call, next, busy, ended, exit>> PROVE BatchTypes'
  BY <1>0, <1>6, SameTeam, Zenon DEF BatchTypes
<1>7. Move \/ (\E n \in Names : Save(n) \/ Settle(n)) => UNCHANGED <<call, next, busy, ended, exit>>
  BY Zenon DEF Move, Save, Settle, vars
<1>8. EndRound => OnlyExit
  BY ExitsAre, Zenon DEF EndRound
<1>9. \A w \in Workers : (Start(w) => Claim(w)) /\ (Finish(w) => DocEnds(w)) /\ (ChildTimesOut(w) => DocEnds(w))
  BY EndsAre, Zenon DEF Start, Finish
<1>10. NoInputs \/ WatchdogFires => OnlyExit
  BY ExitsAre, Zenon
<1> QED BY <1>1, <1>2, <1>3, <1>4, <1>5, <1>6, <1>7, <1>8, <1>9, <1>10, StepKinds, Zenon

-----------------------------------------------------------------------------
FInv == FolderTypes /\ Held /\ RunBound

\* A step of the batch that leaves the folder alone.
LEMMA BatchOnly ==
  ASSUME WInv, BatchTypes', UNCHANGED folderVars, docs' = docs, watch' = watch, next' >= next,
         exit' = exit \/ ~watch, moving # 0 => exit' = exit /\ next' = next
  PROVE  FInv'
<1>1. UNCHANGED <<folder, settled, done, taken, moving, runs, versions, fails>>
  BY Zenon DEF folderVars
<1>2. InRound' = InRound
  BY <1>1, Zenon DEF InRound
<1>3. next \in Nat /\ next' \in Nat /\ BatchTypes /\ moving \in Nat
  BY SMTT(20) DEF WInv, BatchTypes, FolderTypes
<1>4. FolderTypes'
  BY <1>1, <1>3, Zenon DEF WInv, FolderTypes, Versions
<1>5. Held'
  BY <1>1, <1>2, Zenon DEF WInv, Held
<1>6. \A i \in DOMAIN taken : Open(i) => Open(i)'
  BY <1>1, <1>2, <1>3 DEF WInv, FolderTypes, Open
<1>7. RunBound'
  BY <1>1, <1>6, Zenon DEF WInv, RunBound, Versions
<1> QED BY <1>4, <1>5, <1>7, Zenon DEF FInv

\* A file is written, by a user or as an output: its version is a new one.
LEMMA WriteKept ==
  ASSUME WInv, NEW n \in Names, Write(n), UNCHANGED <<docs, watch, next, exit, done, taken, moving, runs, fails>>
  PROVE  FInv'
<1>1. /\ versions' = versions + 1 /\ versions < MaxVersions /\ folder' = [folder EXCEPT ![n] = versions + 1]
      /\ settled' = settled \ {n}
  BY Zenon DEF Write
<1>2. /\ versions \in Nat /\ folder \in [Names -> 0..versions] /\ versions + 1 \in Versions /\ MaxVersions \in Nat
      /\ done \in [Names -> 0..versions] /\ runs \in [Versions -> Nat] /\ runs[versions + 1] = 0 /\ fails \in Nat
  BY <1>1, WatchAssumption, SMTT(20) DEF WInv, FolderTypes, Versions
<1>3. /\ folder' \in [Names -> 0..versions'] /\ done' \in [Names -> 0..versions']
      /\ \A m \in Names : folder'[m] = IF m = n THEN versions + 1 ELSE folder[m]
      /\ \A m \in Names : folder[m] # versions + 1
  BY <1>1, <1>2
<1>4. FolderTypes'
  <2>1. \A m, k \in Names : m # k /\ folder'[m] # 0 => folder'[m] # folder'[k]
    BY <1>3, Zenon DEF WInv, FolderTypes
  <2>2. settled' \subseteq Names /\ \A m \in settled' : folder'[m] # 0
    BY <1>1, <1>3, Zenon DEF WInv, FolderTypes
  <2>3. versions' \in Nat /\ versions' <= MaxVersions
    BY <1>1, <1>2
  <2>4. \A v \in Versions : v > versions' => runs'[v] = 0
    BY <1>1, <1>2 DEF WInv, FolderTypes, Versions
  <2>5. Versions' = Versions
    BY Zenon DEF Versions
  <2> QED BY <1>3, <2>1, <2>2, <2>3, <2>4, <2>5, Zenon DEF WInv, FolderTypes
<1>5. InRound' = InRound /\ \A i : Open(i)' = Open(i)
  BY Zenon DEF InRound, Open
<1>6. Held'
  BY <1>2, <1>3, <1>5 DEF WInv, Held, FolderTypes
<1>7. RunBound'
  <2>1. \A v \in Versions : runs'[v] <= 1 + fails'
    BY Zenon DEF WInv, RunBound
  <2>2. ASSUME NEW m \in Names, folder'[m] # 0
        PROVE  runs'[folder'[m]] <= fails' \/ \E i \in DOMAIN taken' : taken'[i] = m /\ Open(i)'
    BY <1>2, <1>3, <1>5, <2>2 DEF WInv, RunBound
  <2> QED BY <2>1, <2>2, Zenon DEF RunBound, Versions
<1> QED BY <1>4, <1>6, <1>7, Zenon DEF FInv

\* The engine is run on the file of the index that a thread has drawn.
LEMMA StartKept == ASSUME WInv, NEW w \in Workers, Start(w) PROVE FInv'
<1> DEFINE n == taken[next]
           v == folder[n]
<1>1. /\ docs' = docs /\ watch' = watch /\ exit = Running /\ exit' = exit /\ next' = next + 1 /\ next <= Len(docs) /\ busy'[w] = next
      /\ UNCHANGED <<folder, settled, done, taken, moving, versions, fails>>
  BY Zenon DEF Start, Claim, Free, call, WInv, BatchTypes
<1>2. next \in Nat \ {0} /\ moving = 0 /\ next \in DOMAIN taken /\ taken \in Seq(Names) /\ fails \in Nat
  BY <1>1 DEF WInv, BatchTypes, FolderTypes
<1>3. n \in Names /\ v # 0 /\ v \in Versions /\ runs \in [Versions -> Nat]
  <2>1. n \in Names /\ v # 0
    BY <1>1, <1>2 DEF WInv, Held, InRound
  <2>2. folder \in [Names -> 0..versions] /\ versions \in Nat /\ versions <= MaxVersions /\ MaxVersions \in Nat
    BY WatchAssumption, Zenon DEF WInv, FolderTypes
  <2>3. v \in 0..versions
    BY <2>1, <2>2, Zenon
  <2>4. v \in Versions
    <3> HIDE DEF v
    <3> QED BY <2>1, <2>2, <2>3 DEF Versions
  <2> QED BY <2>1, <2>4, Zenon DEF WInv, FolderTypes
<1>4. runs' = [runs EXCEPT ![v] = IF @ = MaxRuns THEN @ ELSE @ + 1]
  BY <1>1, Zenon DEF Start
<1>5. /\ runs' \in [Versions -> Nat] /\ \A x \in Versions : x # v => runs'[x] = runs[x]
      /\ runs'[v] <= runs[v] + 1
  <2> HIDE DEF v
  <2> QED BY <1>3, <1>4
<1>6. InRound' = InRound /\ InRound /\ \A i \in DOMAIN taken : Open(i) => Open(i)'
  BY <1>1, <1>2 DEF InRound, Open
<1>7. (\A i : i = next => Open(i)') /\ ~Open(next)
  BY <1>1, <1>2, <1>6 DEF Open
<1>8. runs[v] <= fails
  <2>1. ASSUME NEW i \in DOMAIN taken, taken[i] = n PROVE i = next
    BY <1>2, <2>1, Zenon DEF WInv, FolderTypes
  <2> QED BY <1>3, <1>7, <2>1, Zenon DEF WInv, RunBound
<1>9. FolderTypes'
  <2>1. \A x \in Versions : x > versions => runs'[x] = 0
    BY <1>3, <1>5 DEF WInv, FolderTypes, Versions
  <2> HIDE DEF n, v
  <2> QED BY <1>1, <1>2, <1>5, <2>1, Zenon DEF WInv, FolderTypes, Versions
<1>10. Held'
  BY <1>1, <1>6, Zenon DEF WInv, Held
<1>11. RunBound'
  <2> HIDE DEF n, v
  <2>0. \A x \in Versions : runs[x] <= 1 + fails
    BY Zenon DEF WInv, RunBound
  <2>1. ASSUME NEW x \in Versions PROVE runs'[x] <= 1 + fails
    <3>1. CASE x = v
      BY <1>2, <1>3, <1>5, <1>8, <3>1
    <3>2. CASE x # v
      BY <1>5, <2>0, <3>2, Zenon
    <3> QED BY <3>1, <3>2, Zenon
  <2>2. ASSUME NEW m \in Names, folder[m] # 0, m # n
        PROVE  runs'[folder[m]] <= fails \/ \E i \in DOMAIN taken : taken[i] = m /\ Open(i)'
    <3>1. folder[m] \in Versions /\ folder[m] # v
      <4>1. folder \in [Names -> 0..versions] /\ versions \in Nat /\ versions <= MaxVersions /\ MaxVersions \in Nat
        BY WatchAssumption, Zenon DEF WInv, FolderTypes
      <4>2. folder[m] \in 0..versions
        BY <4>1, Zenon
      <4>3. folder[m] \in Versions
        BY <2>2, <4>1, <4>2 DEF Versions
      <4>4. folder[m] # v
        BY <1>3, <2>2, Zenon DEF WInv, FolderTypes, v, n
      <4> QED BY <4>3, <4>4, Zenon
    <3> QED BY <1>5, <1>6, <2>2, <3>1, Zenon DEF WInv, RunBound
  <2> QED BY <1>1, <1>2, <1>7, <2>1, <2>2, Zenon DEF RunBound, Versions, n
<1> QED BY <1>9, <1>10, <1>11, Zenon DEF FInv

\* The end of a round finds all its files still to be moved.
LEMMA EndKept == ASSUME WInv, BatchTypes', EndRound PROVE FInv'
<1>1. /\ exit = Running /\ exit' \in {0, 1, 2, 3} /\ UNCHANGED call /\ next' = next /\ moving' = IF watch THEN 1 ELSE 0
      /\ UNCHANGED <<folder, settled, done, taken, runs, versions, byKura, late, fails>> /\ docs # <<>> /\ ended = Team
  BY ExitsAre, Zenon DEF EndRound, OnlyExit, End
<1>2. docs' = docs /\ watch' = watch /\ moving = 0
  BY <1>1, Zenon DEF call, WInv, FolderTypes
<1>3. CASE ~watch
  <2>1. UNCHANGED folderVars
    BY <1>1, <1>2, <1>3, Zenon DEF folderVars
  <2> QED BY <1>1, <1>2, <1>3, <2>1, BatchOnly DEF WInv, BatchTypes
<1>4. CASE watch
  <2>1. moving' = 1 /\ exit' # Running /\ next = Len(docs) + 1 /\ Len(taken) \in Nat /\ Len(taken) # 0
    <3>1. Len(docs) \in Nat /\ Len(docs) # 0
      BY <1>1 DEF WInv, BatchTypes
    <3>2. next = Len(docs) + 1
      BY <1>1, TeamFacts, Zenon DEF WInv, BatchTypes
    <3> QED BY <1>1, <1>4, <3>1, <3>2 DEF Running, WInv, FolderTypes
  <2>2. FolderTypes'
    <3>1. moving' \in 0..Len(taken') /\ (moving' # 0 => watch' /\ exit' # Running /\ next' = Len(docs') + 1)
      BY <1>1, <1>2, <1>4, <2>1
    <3> QED BY <1>1, <1>2, <3>1, Zenon DEF WInv, FolderTypes, Versions
  <2>3. InRound /\ InRound'
    BY <1>1, <1>2, <2>1 DEF InRound
  <2>4. taken' = taken /\ DOMAIN taken \subseteq Nat \ {0}
    BY <1>1 DEF WInv, FolderTypes
  <2>5. \A i \in DOMAIN taken : i >= moving /\ (Open(i) => Open(i)')
    BY <1>1, <1>2, <2>1, <2>3, <2>4 DEF Open
  <2>6. Held' /\ RunBound'
    BY <1>1, <2>3, <2>4, <2>5 DEF WInv, Held, RunBound, Versions
  <2> QED BY <2>2, <2>6, Zenon DEF FInv
<1> QED BY <1>3, <1>4, Zenon

\* A round begins when the one before has moved its files.
LEMMA RoundKept == ASSUME WInv, Round PROVE FInv'
<1>1. /\ watch /\ exit # Running /\ moving = 0 /\ next' = 1 /\ exit' = Running
      /\ UNCHANGED <<watch, folder, settled, done, moving, runs, versions, fails>>
  BY Zenon DEF Round, Idle
<1>2. /\ taken' \in Seq(Names) /\ Len(taken') \in Nat /\ Len(docs') = Len(taken') /\ DOMAIN taken' = 1..Len(taken')
      /\ \A i \in DOMAIN taken' : taken'[i] \in settled
      /\ \A i, j \in DOMAIN taken' : taken'[i] = taken'[j] => i = j
  BY RoundStart, Zenon DEF WInv
<1>3. FolderTypes'
  BY <1>1, <1>2 DEF WInv, FolderTypes, Versions
<1>4. Held'
  BY <1>1, <1>2, Zenon DEF WInv, FolderTypes, Held
<1>5. \A i : ~Open(i)
  BY <1>1, Zenon DEF Open, InRound
<1>6. RunBound'
  BY <1>1, <1>5, Zenon DEF WInv, RunBound, Versions
<1> QED BY <1>3, <1>4, <1>6, Zenon DEF FInv

\* A rename takes the file out of the folder, or is counted as failed.
LEMMA MoveKept == ASSUME WInv, Move PROVE FInv'
<1> DEFINE n == taken[moving]
<1>1. /\ moving # 0 /\ moving' = (IF moving = Len(taken) THEN 0 ELSE moving + 1)
      /\ UNCHANGED <<docs, watch, exit, next, taken, runs, versions>>
  BY Zenon DEF Move, Next1, vars, call
<1>2. \/ /\ done' = [done EXCEPT ![n] = folder[n]] /\ folder' = [folder EXCEPT ![n] = 0] /\ settled' = settled \ {n} /\ fails' = fails
      \/ fails' = fails + 1 /\ UNCHANGED <<done, folder, settled>>
  BY Zenon DEF Move
<1>3. /\ taken \in Seq(Names) /\ moving \in 1..Len(taken) /\ Len(taken) \in Nat /\ DOMAIN taken = 1..Len(taken)
      /\ watch /\ exit # Running /\ next = Len(docs) + 1 /\ Len(docs) = Len(taken) /\ fails \in Nat
  BY <1>1 DEF WInv, FolderTypes
<1>0. ASSUME NEW l \in Nat, l = Len(taken)
      PROVE  /\ moving' \in 0..l
             /\ \A i \in 1..l : i >= moving /\ i # moving => i >= moving' /\ moving' # 0
             /\ \A i \in 1..l : moving' # 0 /\ i >= moving' => i >= moving /\ i # moving
  <2>1. moving \in 1..l /\ moving' = IF moving = l THEN 0 ELSE moving + 1
    BY <1>0, <1>1, <1>3, Zenon
  <2> QED BY <2>1
<1>4. n \in Names
  BY <1>3
<1>5. InRound /\ (InRound' => moving' # 0)
  BY <1>1, <1>3, Zenon DEF InRound
<1>6. \A i \in DOMAIN taken : taken[i] = n <=> i = moving
  BY <1>3, Zenon DEF WInv, FolderTypes
<1> HIDE DEF n
<1>7. /\ folder \in [Names -> 0..versions] /\ done \in [Names -> 0..versions] /\ versions \in Nat
      /\ runs \in [Versions -> Nat]
  BY Zenon DEF WInv, FolderTypes
<1>8. /\ folder' \in [Names -> 0..versions] /\ done' \in [Names -> 0..versions]
      /\ \A m \in Names : folder'[m] = folder[m] \/ (m = n /\ folder'[m] = 0)
      /\ settled' \subseteq settled /\ fails' \in Nat /\ (n \in settled' => folder' = folder)
  <2>1. CASE done' = [done EXCEPT ![n] = folder[n]] /\ folder' = [folder EXCEPT ![n] = 0] /\ settled' = settled \ {n} /\ fails' = fails
    BY <1>3, <1>4, <1>7, <2>1, SMTT(20)
  <2>2. CASE fails' = fails + 1 /\ UNCHANGED <<done, folder, settled>>
    BY <1>3, <1>7, <2>2, SMTT(20)
  <2> QED BY <1>2, <2>1, <2>2, Zenon
<1>9. FolderTypes'
  <2>1. moving' \in 0..Len(taken') /\ (moving' # 0 => watch' /\ exit' # Running /\ next' = Len(docs') + 1)
    BY <1>0, <1>1, <1>3, Zenon
  <2>2. \A m, k \in Names : m # k /\ folder'[m] # 0 => folder'[m] # folder'[k]
    BY <1>8 DEF WInv, FolderTypes
  <2>3. settled' \subseteq Names /\ \A m \in settled' : folder'[m] # 0
    BY <1>4, <1>8, SMTT(20) DEF WInv, FolderTypes
  <2> QED BY <1>1, <1>8, <2>1, <2>2, <2>3, Zenon DEF WInv, FolderTypes, Versions
<1>10. \A i \in DOMAIN taken : i >= moving /\ i # moving => i >= moving' /\ moving' # 0
  BY <1>0, <1>3, Zenon
<1>11. \A i \in DOMAIN taken : moving' # 0 /\ i >= moving' => i >= moving /\ i # moving
  BY <1>0, <1>3, Zenon
<1>12. Held'
  <2>1. ASSUME NEW i \in DOMAIN taken, InRound', i >= moving' PROVE folder'[taken[i]] # 0
    <3>1. i >= moving /\ i # moving /\ taken[i] # n /\ taken[i] \in Names
      BY <1>3, <1>5, <1>6, <1>11, <2>1
    <3> QED BY <1>5, <1>8, <3>1, Zenon DEF WInv, Held
  <2> QED BY <1>1, <2>1, Zenon DEF Held
<1>13. RunBound'
  <2>1. \A v \in Versions : runs[v] \in Nat /\ runs[v] <= 1 + fails /\ fails' \in Nat /\ fails' >= fails
    BY <1>2, <1>3, <1>7, SMTT(20) DEF WInv, RunBound
  <2>2. ASSUME NEW m \in Names, folder'[m] # 0
        PROVE  runs[folder'[m]] <= fails' \/ \E i \in DOMAIN taken : taken[i] = m /\ Open(i)'
    <3>1. folder[m] = folder'[m] /\ folder[m] \in Versions
      <4>1. folder[m] = folder'[m] /\ folder[m] # 0
        BY <1>7, <1>8, <2>2, Zenon
      <4>2. folder[m] \in 0..versions /\ versions \in Nat /\ versions <= MaxVersions /\ MaxVersions \in Nat
        BY <2>2, WatchAssumption, Zenon DEF WInv, FolderTypes
      <4>3. folder[m] \in Versions
        BY <4>1, <4>2 DEF Versions
      <4> QED BY <4>1, <4>3, Zenon
    <3>2. CASE fails' = fails + 1
      BY <1>3, <2>1, <3>1, <3>2
    <3>3. CASE fails' = fails
      <4>1. m # n
        BY <1>2, <1>3, <1>4, <1>7, <2>2, <3>3
      <4>2. ASSUME NEW i \in DOMAIN taken, taken[i] = m, Open(i) PROVE Open(i)'
        <5>1. i >= moving /\ i # moving /\ i < next
          BY <1>6, <4>1, <4>2, Zenon DEF Open
        <5>2. i >= moving' /\ moving' # 0
          BY <1>10, <5>1, Zenon
        <5> QED BY <1>1, <5>1, <5>2, Zenon DEF Open, InRound
      <4> QED BY <2>2, <3>1, <3>3, <4>2, Zenon DEF WInv, RunBound
    <3> QED BY <1>2, <3>2, <3>3, Zenon
  <2>3. \A v \in Versions : runs[v] <= 1 + fails'
    BY <1>3, <2>1
  <2> QED BY <1>1, <2>2, <2>3, Zenon DEF RunBound, Versions
<1> QED BY <1>9, <1>12, <1>13, Zenon DEF FInv

\* A file that has not been written for two seconds.
LEMMA SettleKept == ASSUME WInv, NEW n \in Names, Settle(n) PROVE FInv'
<1>1. /\ UNCHANGED <<docs, watch, next, exit, folder, done, taken, moving, runs, versions, fails>>
      /\ folder[n] # 0 /\ settled' = settled \cup {n}
  BY Zenon DEF Settle, vars, call
<1>2. FolderTypes'
  BY <1>1, Zenon DEF WInv, FolderTypes, Versions
<1>3. InRound' = InRound /\ \A i : Open(i)' = Open(i)
  BY <1>1, Zenon DEF InRound, Open
<1> QED BY <1>1, <1>2, <1>3, Zenon DEF WInv, Held, RunBound, Versions, FInv

\* The first state: a plain batch has read its folder, a watch has not.
LEMMA WInitial == ASSUME WInit PROVE WInv
<1>1. PICK c \in Calls : docs = c.docs /\ watch = c.watch /\ jobs = IF c.watch /\ c.jobs < 2 THEN 2 ELSE c.jobs
  BY Zenon DEF WInit, Init
<1>2. /\ docs \in Seq([outcome : STRING, takes : Nat]) /\ watch \in BOOLEAN /\ jobs \in Nat \ {0}
      /\ DOMAIN docs \subseteq Names /\ Len(docs) <= MaxVersions /\ (watch => docs = <<>>)
  BY <1>1, BatchAssumption, WatchAssumption
<1>3. /\ next = 1 /\ busy = [w \in Workers |-> 0] /\ ended = {} /\ exit = (IF watch THEN 0 ELSE Running) /\ moving = 0
      /\ folder = [n \in Names |-> IF n <= Len(docs) THEN n ELSE 0] /\ settled = {} /\ done = [n \in Names |-> 0]
      /\ taken = [d \in DOMAIN docs |-> d] /\ runs = [v \in Versions |-> 0] /\ versions = Len(docs) /\ fails = 0
  BY Zenon DEF WInit, Init
<1>4. Len(docs) \in Nat /\ DOMAIN docs = 1..Len(docs)
  BY <1>2
<1>5. BatchTypes
  BY <1>2, <1>3, <1>4 DEF BatchTypes
<1>6. taken \in Seq(Names) /\ Len(taken) = Len(docs) /\ DOMAIN taken = 1..Len(docs) /\ \A i \in DOMAIN taken : taken[i] = i
  <2>1. ASSUME NEW l \in Nat, 1..l \subseteq Names, NEW q, q = [d \in 1..l |-> d]
        PROVE  q \in Seq(Names) /\ Len(q) = l /\ DOMAIN q = 1..l /\ \A i \in DOMAIN q : q[i] = i
    <3>1. q \in [1..l -> Names] /\ \A i \in 1..l : q[i] = i
      BY <2>1, Zenon
    <3> QED BY <2>1, <3>1
  <2>2. 1..Len(docs) \subseteq Names /\ taken = [d \in 1..Len(docs) |-> d]
    BY <1>2, <1>3, <1>4, Zenon
  <2> QED BY <1>4, <2>1, <2>2, Zenon
<1>7. Names \subseteq Nat \ {0} /\ MaxVersions \in Nat
  BY WatchAssumption, Zenon
<1>8. folder \in [Names -> 0..versions] /\ done \in [Names -> 0..versions] /\ \A n \in Names : folder[n] = IF n <= Len(docs) THEN n ELSE 0
  BY <1>3, <1>4, <1>7
<1>9. FolderTypes
  <2>1. \A n, m \in Names : n # m /\ folder[n] # 0 => folder[n] # folder[m]
    BY <1>7, <1>8, Zenon
  <2>2. \A i, j \in DOMAIN taken : taken[i] = taken[j] => i = j
    BY <1>6, Zenon
  <2>3. moving \in 0..Len(taken) /\ settled = {} /\ runs \in [Versions -> Nat] /\ \A v \in Versions : runs[v] = 0
    BY <1>3, <1>4, <1>6
  <2>4. versions \in Nat /\ versions <= MaxVersions /\ fails \in Nat
    BY <1>2, <1>3, <1>4, Zenon
  <2> QED BY <1>3, <1>6, <1>8, <2>1, <2>2, <2>3, <2>4, Zenon DEF FolderTypes
<1>10. Held
  <2>1. ASSUME NEW i \in DOMAIN taken PROVE folder[taken[i]] # 0
    <3>1. i \in Names /\ i \in 1..Len(docs) /\ taken[i] = i
      BY <1>2, <1>4, <1>6, Zenon
    <3> QED BY <1>4, <1>8, <3>1
  <2> QED BY <2>1, Zenon DEF Held
<1>11. RunBound
  <2>1. \A v \in Versions : runs[v] = 0
    BY <1>3, Zenon
  <2>2. ASSUME NEW n \in Names, folder[n] # 0 PROVE folder[n] \in Versions
    BY <1>2, <1>3, <1>4, <1>7, <1>8, <2>2 DEF Versions
  <2> QED BY <1>3, <2>1, <2>2 DEF RunBound
<1> QED BY <1>5, <1>9, <1>10, <1>11, Zenon DEF WInv

\* Every step keeps it.
LEMMA WStepKept == ASSUME WInv, [WNext]_wvars PROVE WInv'
<1>0. BatchTypes' /\ BatchTypes
  BY BatchKept, Zenon DEF WInv
<1>1. ASSUME NEW w \in Workers, Finish(w) PROVE FInv'
  <2>1. DocEnds(w) /\ Ends(w)
    BY <1>1, EndsAre, Zenon DEF Finish
  <2>2. UNCHANGED <<docs, watch, next, exit>> /\ exit = Running
    BY <2>1, Zenon DEF DocEnds, call
  <2>3. CASE UNCHANGED folderVars
    BY <1>0, <2>2, <2>3, BatchOnly DEF BatchTypes
  <2>4. CASE OutputOf(w) # 0 /\ Write(OutputOf(w)) /\ UNCHANGED <<done, taken, moving, runs, fails>>
    <3>1. OutputOf(w) \in Names
      <4>1. busy[w] \in DOMAIN taken /\ taken \in Seq(Names)
        BY <1>0, <2>1 DEF DocEnds, BatchTypes, WInv, FolderTypes
      <4> QED BY <2>4, <4>1, WatchAssumption, SMTT(20) DEF OutputOf
    <3> QED BY <2>2, <2>4, <3>1, WriteKept, Zenon
  <2> QED BY <1>1, <2>3, <2>4, Zenon DEF Finish
<1>2. ASSUME NEW w \in Workers, ChildTimesOut(w), UNCHANGED folderVars PROVE FInv'
  <2>1. UNCHANGED <<docs, watch, next, exit>>
    BY <1>2, EndsAre, Zenon DEF DocEnds, call
  <2> QED BY <1>0, <1>2, <2>1, BatchOnly DEF BatchTypes
<1>3. ASSUME NEW w \in Workers, Clash(w) \/ Return(w), UNCHANGED folderVars PROVE FInv'
  <2>1. UNCHANGED <<docs, watch, exit>> /\ next' >= next /\ exit = Running
    BY <1>0, <1>3 DEF Clash, Return, Free, call, BatchTypes
  <2>2. moving = 0
    BY <2>1, Zenon DEF WInv, FolderTypes
  <2> QED BY <1>0, <1>3, <2>1, <2>2, BatchOnly, Zenon
<1>4. ASSUME NoInputs \/ WatchdogFires, UNCHANGED folderVars PROVE FInv'
  <2>1. UNCHANGED <<docs, watch, next>> /\ exit = Running /\ ~watch
    BY <1>4, Zenon DEF NoInputs, WatchdogFires, call
  <2>2. moving = 0
    BY <2>1, Zenon DEF WInv, FolderTypes
  <2> QED BY <1>0, <1>4, <2>1, <2>2, BatchOnly DEF BatchTypes
<1>5. ASSUME NEW n \in Names, Save(n) PROVE FInv'
  <2>1. Write(n) /\ UNCHANGED <<docs, watch, next, exit, done, taken, moving, runs, fails>>
    BY <1>5, Zenon DEF Save, vars, call
  <2> QED BY <2>1, WriteKept, Zenon
<1>6. ASSUME UNCHANGED <<call, next, busy, ended, codes, outputs, printed, exit>>, UNCHANGED folderVars PROVE FInv'
  <2>1. UNCHANGED <<docs, watch, next, exit>>
    BY <1>6, Zenon DEF call
  <2> QED BY <1>0, <1>6, <2>1, BatchOnly DEF BatchTypes
<1>7. FInv'
  <2>1. CASE \E w \in Workers : Start(w)
    BY <2>1, StartKept, Zenon
  <2>2. CASE \E n \in Names : Save(n) \/ Settle(n)
    BY <1>5, <2>2, SettleKept, Zenon
  <2> QED BY <1>0, <1>1, <1>2, <1>3, <1>4, <1>6, <2>1, <2>2, StepKinds, EndKept, RoundKept, MoveKept, Zenon
<1> QED BY <1>0, <1>7, Zenon DEF FInv, WInv

\* The indices of a batch, the files of a round and the runs of a version stay
\* in step, for every folder and number of jobs.
THEOREM WInvariance == WSpec => []WInv
BY WInitial, WStepKept, PTL DEF WSpec

\* The engine runs once on what stands in the folder (next++ of main.cpp's
\* threads, the moves at the end of a round), but for a file whose rename failed.
THEOREM EngineRunsOnce == WSpec => []RunOnce
<1>1. WInv => RunOnce
  BY Zenon DEF WInv, RunBound, RunOnce
<1> QED BY <1>1, WInvariance, PTL

-----------------------------------------------------------------------------
\* The versions that stand in the folder and in done/ are numbers of runs.
LEMMA StandFacts ==
  ASSUME WInv
  PROVE  /\ \A n \in Names : folder[n] # 0 => folder[n] \in Versions
         /\ \A n \in Names : done[n] # 0 => done[n] \in Versions
         /\ \A i \in DOMAIN taken : taken[i] \in Names /\ i \in Nat \ {0}
         /\ \A i \in DOMAIN taken : Open(i) => folder[taken[i]] \in Versions
<1>1. folder \in [Names -> 0..versions] /\ done \in [Names -> 0..versions] /\ versions \in Nat /\ versions <= MaxVersions
      /\ MaxVersions \in Nat /\ taken \in Seq(Names)
  BY WatchAssumption, Zenon DEF WInv, FolderTypes
<1>2. \A n \in Names : (folder[n] # 0 => folder[n] \in Versions) /\ (done[n] # 0 => done[n] \in Versions)
  BY <1>1 DEF Versions
<1>3. \A i \in DOMAIN taken : taken[i] \in Names /\ i \in Nat \ {0}
  BY <1>1, SMTT(20)
<1> QED BY <1>2, <1>3, Zenon DEF WInv, Held, Open

\* Runs are only counted up and late versions only added.
Counted == late \subseteq late' /\ \A v \in Versions : runs[v] > 0 => runs'[v] > 0

\* A step that moves nothing into done/ and leaves the round's list alone.
LEMMA ListKept ==
  ASSUME WInv, MInv, Counted, UNCHANGED <<docs, watch, done, taken>>,
         watch => \A i \in DOMAIN taken : Open(i)' =>
                    (Open(i) /\ folder'[taken[i]] = folder[taken[i]]) \/ RunOrLate(folder[taken[i]])'
  PROVE  MInv'
<1>1. \A v \in Versions : RunOrLate(v) => v \in late' \/ runs'[v] > 0
  BY Zenon DEF RunOrLate, Counted
<1>2. watch => \A i \in DOMAIN taken : Open(i)' => folder'[taken[i]] \in late' \/ runs'[folder'[taken[i]]] > 0
  BY <1>1, StandFacts, Zenon DEF MInv, RunOrLate
<1>3. \A n \in Names : done[n] # 0 => done[n] \in late' \/ runs'[done[n]] > 0
  BY <1>1, StandFacts, Zenon DEF MInv
<1> QED BY <1>2, <1>3, Zenon DEF MInv, RunOrLate

\* What is written over a file of the running round is late.
LEMMA WriteLate ==
  ASSUME WInv, MInv, NEW n \in Names, Write(n), UNCHANGED <<docs, watch, next, exit, done, taken, moving, runs>>
  PROVE  MInv'
<1>1. /\ folder' = [folder EXCEPT ![n] = versions + 1]
      /\ late' = IF ~Idle /\ n \in Remaining THEN late \cup {versions + 1} ELSE late
  BY Zenon DEF Write
<1>2. \A i : Open(i)' = Open(i)
  BY Zenon DEF Open, InRound
<1>3. folder \in [Names -> 0..versions]
  BY Zenon DEF WInv, FolderTypes
<1>4. Counted
  BY <1>1, Zenon DEF Counted
<1>5. ASSUME watch, NEW i \in DOMAIN taken, Open(i), taken[i] = n PROVE folder'[taken[i]] \in late'
  <2>1. ~Idle /\ i >= moving
    BY <1>5, Zenon DEF Open, InRound, Idle
  <2>2. n \in Remaining
    BY <1>5, <2>1, Zenon DEF Remaining
  <2> QED BY <1>1, <1>3, <1>5, <2>1, <2>2, Zenon
<1>6. ASSUME watch, NEW i \in DOMAIN taken, Open(i)'
      PROVE  (Open(i) /\ folder'[taken[i]] = folder[taken[i]]) \/ RunOrLate(folder[taken[i]])'
  <2>1. taken[i] \in Names /\ Open(i)
    BY <1>2, <1>6, StandFacts, Zenon
  <2>2. CASE taken[i] = n
    BY <1>5, <1>6, <2>1, <2>2, Zenon DEF RunOrLate
  <2>3. CASE taken[i] # n
    BY <1>1, <1>3, <2>1, <2>3, Zenon
  <2> QED BY <2>2, <2>3, Zenon
<1> QED BY <1>4, <1>6, ListKept, Zenon

\* Every step keeps what the moves rely on.
LEMMA MStepKept == ASSUME NoClash, WInv, MInv, [WNext]_wvars PROVE MInv'
<1>1. ASSUME UNCHANGED <<docs, watch, done, taken, folder, runs, late, moving>>, watch => exit' = exit /\ next' = next
      PROVE  MInv'
  <2>1. watch => \A i : Open(i)' = Open(i)
    BY <1>1, Zenon DEF Open, InRound
  <2>2. Counted
    BY <1>1, Zenon DEF Counted
  <2> QED BY <1>1, <2>1, <2>2, ListKept, Zenon
<1>2. ASSUME NEW w \in Workers, Start(w) PROVE MInv'
  <2>1. /\ UNCHANGED <<docs, watch, exit, folder, done, taken, moving, late>> /\ exit = Running /\ next' = next + 1
        /\ next <= Len(docs) /\ busy'[w] = next
    BY <1>2, Zenon DEF Start, Claim, Free, call, WInv, BatchTypes
  <2>2. next \in DOMAIN taken /\ next \in Nat /\ InRound /\ moving = 0 /\ runs \in [Versions -> Nat]
    BY <2>1, SMTT(20) DEF WInv, BatchTypes, FolderTypes, InRound
  <2>3. PICK v : v = folder[taken[next]]
    BY Zenon
  <2>4. v \in Versions
    BY <2>2, <2>3, StandFacts DEF WInv, Held
  <2>5. runs' = [runs EXCEPT ![v] = IF @ = MaxRuns THEN @ ELSE @ + 1]
    BY <1>2, <2>1, <2>3, Zenon DEF Start
  <2>6. runs'[v] > 0 /\ \A x \in Versions : x # v => runs'[x] = runs[x]
    BY <2>2, <2>4, <2>5, WatchAssumption DEF MaxRuns
  <2>7. Counted
    BY <2>1, <2>6, Zenon DEF Counted
  <2>8. ASSUME NEW i \in DOMAIN taken, Open(i)', i # next PROVE Open(i)
    BY <2>1, <2>2, <2>8, StandFacts DEF Open, InRound
  <2>9. ASSUME NEW i \in DOMAIN taken, i = next PROVE RunOrLate(folder[taken[i]])'
    BY <2>1, <2>3, <2>6, <2>9, Zenon DEF RunOrLate
  <2> QED BY <2>1, <2>7, <2>8, <2>9, ListKept, Zenon
<1>3. ASSUME NEW w \in Workers, Finish(w) PROVE MInv'
  <2>1. DocEnds(w) /\ Ends(w)
    BY <1>3, EndsAre, Zenon DEF Finish
  <2>2. UNCHANGED <<docs, watch, next, exit>>
    BY <2>1, Zenon DEF DocEnds, call
  <2>3. CASE UNCHANGED folderVars
    BY <1>1, <2>2, <2>3, Zenon DEF folderVars
  <2>4. CASE OutputOf(w) # 0 /\ Write(OutputOf(w)) /\ UNCHANGED <<done, taken, moving, runs, fails>>
    <3>1. busy[w] \in DOMAIN taken /\ taken \in Seq(Names)
      BY <2>1, SMTT(20) DEF DocEnds, BatchTypes, WInv, FolderTypes
    <3>2. OutputOf(w) \in Names
      BY <2>4, <3>1, WatchAssumption, SMTT(20) DEF OutputOf
    <3> QED BY <2>2, <2>4, <3>2, WriteLate, Zenon
  <2> QED BY <1>3, <2>3, <2>4, Zenon DEF Finish
<1>4. ASSUME NEW w \in Workers, Clash(w) \/ Return(w), UNCHANGED folderVars PROVE MInv'
  <2>1. UNCHANGED <<docs, watch, exit>> /\ (next' = next \/ (next <= Len(docs) /\ docs[next].outcome = "clash"))
    BY <1>4, Zenon DEF Clash, Return, call
  <2>2. watch => next' = next
    BY <2>1 DEF MInv, WInv, BatchTypes
  <2> QED BY <1>1, <1>4, <2>1, <2>2, Zenon DEF folderVars
<1>5. ASSUME NoInputs \/ WatchdogFires, UNCHANGED folderVars PROVE MInv'
  <2>1. UNCHANGED <<docs, watch>> /\ ~watch
    BY <1>5, Zenon DEF NoInputs, WatchdogFires, call
  <2> QED BY <1>1, <1>5, <2>1, Zenon DEF folderVars
<1>6. ASSUME EndRound PROVE MInv'
  <2>1. UNCHANGED <<docs, watch, next, done, taken, folder, runs, late>> /\ exit = Running
    BY <1>6, Zenon DEF EndRound, End, call
  <2>2. Counted
    BY <2>1, Zenon DEF Counted
  <2>3. moving = 0
    BY <2>1, Zenon DEF WInv, FolderTypes
  <2>4. \A i \in DOMAIN taken : Open(i)' => Open(i)
    BY <2>1, <2>3, StandFacts DEF Open, InRound
  <2> QED BY <2>1, <2>2, <2>4, ListKept, Zenon
<1>7. ASSUME Round PROVE MInv'
  <2>1. next' = 1 /\ UNCHANGED <<watch, done, runs, late>>
    BY <1>7, Zenon DEF Round
  <2>2. \A d \in DOMAIN docs' : docs'[d].outcome # "clash"
    <3>1. \A d \in DOMAIN docs' : docs'[d] = Content[taken'[d]] /\ taken'[d] \in settled
      BY <1>7, RoundStart, Zenon DEF WInv
    <3>2. settled \subseteq Names
      BY Zenon DEF WInv, FolderTypes
    <3> QED BY <3>1, <3>2 DEF NoClash
  <2>3. \A i \in DOMAIN taken' : ~Open(i)'
    <3>1. DOMAIN taken' = 1..Len(taken') /\ Len(taken') \in Nat
      BY <1>7, RoundStart, Zenon DEF WInv
    <3> QED BY <2>1, <3>1 DEF Open
  <2> QED BY <2>1, <2>2, <2>3, Zenon DEF MInv, RunOrLate
<1>8. ASSUME Move PROVE MInv'
  <2>1. /\ moving # 0 /\ moving' = (IF moving = Len(taken) THEN 0 ELSE moving + 1)
        /\ UNCHANGED <<docs, watch, exit, next, taken, runs, late>>
    BY <1>8, Zenon DEF Move, Next1, vars, call
  <2>2. PICK n : n = taken[moving]
    BY Zenon
  <2>3. \/ done' = [done EXCEPT ![n] = folder[n]] /\ folder' = [folder EXCEPT ![n] = 0]
        \/ UNCHANGED <<done, folder>>
    BY <1>8, <2>2, Zenon DEF Move
  <2>4. moving \in DOMAIN taken /\ watch /\ exit # Running /\ next = Len(taken) + 1 /\ Len(taken) \in Nat
        /\ DOMAIN taken = 1..Len(taken) /\ folder \in [Names -> 0..versions] /\ done \in [Names -> 0..versions]
    BY <2>1, SMTT(20) DEF WInv, FolderTypes
  <2>5. Open(moving) /\ RunOrLate(folder[n])
    BY <2>1, <2>2, <2>4 DEF Open, InRound, MInv
  <2>6. \A i \in DOMAIN taken : Open(i)' => Open(i) /\ i # moving
    <3>1. ASSUME NEW l \in Nat, l = Len(taken), NEW i \in 1..l, moving' # 0, i >= moving' PROVE i >= moving /\ i # moving
      BY <2>1, <2>4, <3>1
    <3>2. \A i : Open(i)' => moving' # 0 /\ i >= moving' /\ i < next
      BY <2>1, <2>4, Zenon DEF Open, InRound
    <3> QED BY <2>1, <2>4, <3>1, <3>2, Zenon DEF Open, InRound
  <2>7. \A i \in DOMAIN taken : Open(i)' => Open(i) /\ folder'[taken[i]] = folder[taken[i]]
    <3>1. \A i \in DOMAIN taken : i # moving => taken[i] # n /\ taken[i] \in Names
      BY <2>2, <2>4 DEF WInv, FolderTypes
    <3> QED BY <2>3, <2>4, <2>6, <3>1, Zenon
  <2>8. \A m \in Names : done'[m] = done[m] \/ done'[m] = folder[n]
    BY <2>3, <2>4, Zenon
  <2>9. \A v : RunOrLate(v)' = RunOrLate(v)
    BY <2>1, Zenon DEF RunOrLate
  <2>10. \A m \in Names : done'[m] # 0 => done'[m] \in late \/ runs[done'[m]] > 0
    BY <2>5, <2>8, Zenon DEF MInv, RunOrLate
  <2>11. \A i \in DOMAIN taken : Open(i)' => folder'[taken[i]] \in late \/ runs[folder'[taken[i]]] > 0
    BY <2>4, <2>7, Zenon DEF MInv, RunOrLate
  <2> QED BY <2>1, <2>10, <2>11, Zenon DEF MInv, RunOrLate
<1>9. ASSUME NEW n \in Names, Save(n) PROVE MInv'
  BY <1>9, WriteLate, Zenon DEF Save, vars, call
<1>10. ASSUME NEW n \in Names, Settle(n) PROVE MInv'
  BY <1>1, <1>10, Zenon DEF Settle, vars, call
<1>11. ASSUME UNCHANGED <<call, next, busy, ended, codes, outputs, printed, exit>>, UNCHANGED folderVars PROVE MInv'
  BY <1>1, <1>11, Zenon DEF call, folderVars
<1>12. ASSUME NEW w \in Workers, ChildTimesOut(w), UNCHANGED folderVars PROVE MInv'
  BY <1>1, <1>12, EndsAre, Zenon DEF DocEnds, call, folderVars
<1> QED BY <1>2, <1>3, <1>4, <1>5, <1>6, <1>7, <1>8, <1>9, <1>10, <1>11, <1>12, StepKinds, Zenon

\* Whoever writes into the folder and whenever, and whichever renames fail: what
\* main.cpp has moved to done/ is what the engine ran on, or was written over it
\* in the meantime.  A file whose output would be the file itself is moved
\* without being converted, hence the hypothesis.
THEOREM MovedAfterRun == ASSUME NoClash PROVE WSpec => []MovedWasRun
<1>1. WInit => MInv
  <2> SUFFICES ASSUME WInit PROVE MInv
    BY Zenon
  <2>1. WInv /\ done = [n \in Names |-> 0] /\ (watch => docs = <<>>)
    <3>1. watch => docs = <<>>
      BY WatchAssumption, Zenon DEF WInit, Init
    <3> QED BY <3>1, WInitial, Zenon DEF WInit
  <2>2. watch => DOMAIN docs = {} /\ DOMAIN taken = {}
    BY <2>1 DEF WInit
  <2> QED BY <2>1, <2>2, Zenon DEF MInv
<1>2. WInv /\ MInv /\ [WNext]_wvars => MInv'
  BY MStepKept, Zenon
<1>3. MInv => MovedWasRun
  BY Zenon DEF MInv, RunOrLate, MovedWasRun
<1> QED BY <1>1, <1>2, <1>3, WInvariance, PTL DEF WSpec

-----------------------------------------------------------------------------
\* The natural numbers are in every set that has 0 and each successor.
LEMMA Induct ==
  ASSUME NEW P, 0 \in P, \A n \in Nat : n \in P => n + 1 \in P
  PROVE  Nat \subseteq P
<1> SUFFICES ASSUME Nat \ P # {} PROVE FALSE
  BY Zenon
<1>1. IsWellFoundedOn(OpToRel(<, Nat), Nat)
  BY NatLessThanWellFounded, Zenon
<1>2. PICK n \in Nat \ P : \A m \in Nat \ P : ~(<<m, n>> \in OpToRel(<, Nat))
  <2>1. Nat \ P \subseteq Nat
    BY Zenon
  <2> QED BY <1>1, <2>1, WFMin, Zenon
<1>3. \A m \in Nat \ P : ~(m < n)
  BY <1>2, Zenon DEF OpToRel
<1>4. n - 1 \in Nat /\ n - 1 < n /\ (n - 1) + 1 = n
  <2>1. n \in Nat /\ n # 0
    BY <1>2, Zenon
  <2> QED BY <2>1
<1>5. n - 1 \in P
  BY <1>3, <1>4, Zenon
<1> QED BY <1>2, <1>4, <1>5, Zenon

\* The loop that joins the objects, one more document at each round.
Piece(d) == <<Object(d)>> \o Comma(d)
JoinStep(k) == [d \in 0..Len(docs) |-> IF d = 0 THEN <<>> ELSE k[d - 1] \o Piece(d)]
Join == CHOOSE k : k = JoinStep(k)

\* The loop has a result after each of its rounds.
LEMMA JoinIs == ASSUME Len(docs) \in Nat PROVE Join = JoinStep(Join)
<1> DEFINE Upto(k, m) == /\ k = [d \in 0..m |-> k[d]] /\ k[0] = <<>>
                         /\ \A d \in 1..m : k[d] = k[d - 1] \o Piece(d)
           P == {m \in Nat : \E k : Upto(k, m)}
<1>1. 0 \in P
  <2> DEFINE k == [d \in 0..0 |-> <<>>]
  <2>1. k = [d \in 0..0 |-> k[d]] /\ k[0] = <<>> /\ \A d \in 1..0 : FALSE
    OBVIOUS
  <2>2. Upto(k, 0)
    BY <2>1, Zenon
  <2> QED BY <2>2, Zenon
<1>2. ASSUME NEW m \in Nat, m \in P PROVE m + 1 \in P
  <2>1. PICK k : Upto(k, m)
    BY <1>2, Zenon
  <2> DEFINE last == k[m] \o Piece(m + 1)
             g == [d \in 0..(m + 1) |-> IF d = m + 1 THEN last ELSE k[d]]
  <2>2. g = [d \in 0..(m + 1) |-> g[d]] /\ g[0] = k[0] /\ g[m + 1] = last /\ \A d \in 0..m : g[d] = k[d]
    <3> HIDE DEF last
    <3> QED OBVIOUS
  <2>3. ASSUME NEW d \in 1..(m + 1) PROVE g[d] = g[d - 1] \o Piece(d)
    <3> HIDE DEF g
    <3>1. CASE d = m + 1
      <4>1. d - 1 = m /\ m \in 0..m
        BY <3>1
      <4>2. g[d - 1] = k[m]
        BY <2>2, <4>1, Zenon
      <4> QED BY <2>2, <3>1, <4>2, Zenon
    <3>2. CASE d # m + 1
      <4>1. d \in 1..m /\ d \in 0..m /\ d - 1 \in 0..m
        BY <3>2
      <4>2. g[d - 1] = k[d - 1] /\ g[d] = k[d]
        BY <2>2, <4>1, Zenon
      <4> QED BY <2>1, <4>1, <4>2, Zenon
    <3> QED BY <3>1, <3>2, Zenon
  <2>4. Upto(g, m + 1)
    <3> HIDE DEF g
    <3> QED BY <2>1, <2>2, <2>3
  <2> HIDE DEF g, Upto
  <2> QED BY <2>4
<1>3. Len(docs) \in P
  <2> HIDE DEF P
  <2> QED BY <1>1, <1>2, Induct, Zenon
<1>4. PICK k : Upto(k, Len(docs))
  BY <1>3, Zenon
<1>5. k = JoinStep(k)
  <2>1. \A d \in 0..Len(docs) : k[d] = IF d = 0 THEN <<>> ELSE k[d - 1] \o Piece(d)
    <3>1. \A d \in 0..Len(docs) : d = 0 \/ d \in 1..Len(docs)
      OBVIOUS
    <3> QED BY <1>4, <3>1, Zenon
  <2> QED BY <1>4, <2>1, Zenon DEF JoinStep
<1> QED BY <1>5, Zenon DEF Join

\* What is printed is the result after the last round.
LEMMA JoinedJoin == Joined = Join[Len(docs)]
BY Zenon DEF Joined, Join, JoinStep, Piece

\* The elements of two sequences in a row.
LEMMA Concat ==
  ASSUME NEW q \in Seq(Entry), NEW r \in Seq(Entry)
  PROVE  /\ q \o r \in Seq(Entry) /\ Len(q) \in Nat /\ Len(r) \in Nat /\ Len(q \o r) = Len(q) + Len(r)
         /\ \A i \in 1..Len(q) : (q \o r)[i] = q[i]
         /\ \A i \in 1..Len(r) : (q \o r)[Len(q) + i] = r[i]
<1> HIDE DEF Entry
<1> QED OBVIOUS

\* Signs and objects are what the array is made of.
LEMMA EntriesAre ==
  /\ \A d \in Nat : Object(d) \in Entry
  /\ Sign("comma") \in Entry /\ Sign("open") \in Entry /\ Sign("close") \in Entry
<1>1. ASSUME NEW d \in Nat PROVE [t |-> "object", of |-> d] \in Entry
  BY Zenon DEF Entry
<1>2. [t |-> "comma", of |-> 0] \in Entry /\ [t |-> "open", of |-> 0] \in Entry /\ [t |-> "close", of |-> 0] \in Entry
  BY Zenon DEF Entry
<1> QED BY <1>1, <1>2, Zenon DEF Object, Sign

\* An object, with a comma after it or without.
LEMMA Pair ==
  ASSUME NEW a \in Entry, NEW b \in Entry
  PROVE  /\ <<a>> \in Seq(Entry) /\ Len(<<a>>) = 1 /\ <<a>>[1] = a
         /\ <<a>> \o <<b>> \in Seq(Entry) /\ Len(<<a>> \o <<b>>) = 2
         /\ (<<a>> \o <<b>>)[1] = a /\ (<<a>> \o <<b>>)[2] = b
         /\ <<a>> \o <<>> \in Seq(Entry) /\ Len(<<a>> \o <<>>) = 1 /\ (<<a>> \o <<>>)[1] = a
<1> HIDE DEF Entry
<1>1. ASSUME NEW c \in Entry PROVE <<c>> \in Seq(Entry) /\ Len(<<c>>) = 1 /\ <<c>>[1] = c
  OBVIOUS
<1>2. <<>> \in Seq(Entry) /\ Len(<<>>) = 0
  OBVIOUS
<1>3. <<a>> \o <<b>> \in Seq(Entry) /\ Len(<<a>> \o <<b>>) = 2 /\ (<<a>> \o <<b>>)[1] = a /\ (<<a>> \o <<b>>)[2] = b
  <2>1. PICK x, y : x = <<a>> /\ y = <<b>>
    BY Zenon
  <2>2. x \in Seq(Entry) /\ Len(x) = 1 /\ x[1] = a /\ y \in Seq(Entry) /\ Len(y) = 1 /\ y[1] = b
    BY <1>1, <2>1, Zenon
  <2>3. x \o y \in Seq(Entry) /\ Len(x \o y) = 2 /\ (x \o y)[1] = a /\ (x \o y)[2] = b
    BY <2>2, Concat
  <2> QED BY <2>1, <2>3, Zenon
<1>4. <<a>> \o <<>> \in Seq(Entry) /\ Len(<<a>> \o <<>>) = 1 /\ (<<a>> \o <<>>)[1] = a
  <2>1. PICK x, y : x = <<a>> /\ y = <<>>
    BY Zenon
  <2>2. x \in Seq(Entry) /\ Len(x) = 1 /\ x[1] = a /\ y \in Seq(Entry) /\ Len(y) = 0
    BY <1>1, <1>2, <2>1, Zenon
  <2>3. x \o y \in Seq(Entry) /\ Len(x \o y) = Len(x) + Len(y) /\ \A i \in 1..Len(x) : (x \o y)[i] = x[i]
    BY <2>2, Concat
  <2>4. Len(x \o y) = 1 /\ (x \o y)[1] = a
    BY <2>2, <2>3
  <2> QED BY <2>1, <2>3, <2>4, Zenon
<1> QED BY <1>1, <1>3, <1>4, Zenon

\* The objects of all documents in their order, with a comma between two.
LEMMA JoinedIs ==
  ASSUME Len(docs) \in Nat \ {0}, DOMAIN docs = 1..Len(docs)
  PROVE  /\ Joined \in Seq(Entry) /\ Len(Joined) = 2 * Len(docs) - 1
         /\ \A d \in 1..Len(docs) : Joined[2 * d - 1] = Object(d)
         /\ \A d \in 1..(Len(docs) - 1) : Joined[2 * d] = Sign("comma")
<1> DEFINE L == Len(docs)
           k == Join
           Size(n) == IF n = L THEN 2 * n - 1 ELSE 2 * n
           Good(n) == /\ k[n] \in Seq(Entry) /\ Len(k[n]) = Size(n)
                      /\ \A d \in 1..n : k[n][2 * d - 1] = Object(d)
                      /\ \A d \in 1..n : d < L => k[n][2 * d] = Sign("comma")
           P == {n \in Nat : n <= L => Good(n)}
<1>1. L \in Nat \ {0}
  BY Zenon
<1>2. \A d \in 1..L : Comma(d) = IF d < L THEN <<Sign("comma")>> ELSE <<>>
  BY Zenon DEF Comma
<1>3. \A d \in 1..L : Object(d) \in Entry /\ Sign("comma") \in Entry
  BY <1>1, EntriesAre
<1>4. ASSUME NEW d \in 1..L
      PROVE  /\ Piece(d) \in Seq(Entry) /\ Len(Piece(d)) = (IF d < L THEN 2 ELSE 1) /\ Piece(d)[1] = Object(d)
             /\ (d < L => Piece(d)[2] = Sign("comma"))
  <2> HIDE DEF L
  <2>2. Object(d) \in Entry /\ Sign("comma") \in Entry
    BY <1>3, Zenon
  <2>3. CASE d < L
    <3>1. Piece(d) = <<Object(d)>> \o <<Sign("comma")>>
      BY <1>2, <2>3, Zenon DEF Piece
    <3> QED BY <2>2, <2>3, <3>1, Pair
  <2>4. CASE ~(d < L)
    <3>1. Piece(d) = <<Object(d)>> \o <<>>
      BY <1>2, <2>4, Zenon DEF Piece
    <3> QED BY <2>2, <2>4, <3>1, Pair
  <2> QED BY <2>3, <2>4, Zenon
<1>5. \A n \in 0..L : k[n] = IF n = 0 THEN <<>> ELSE k[n - 1] \o Piece(n)
  <2>1. k = JoinStep(k)
    BY <1>1, JoinIs, Zenon
  <2> HIDE DEF k
  <2> QED BY <2>1, Zenon DEF JoinStep
<1> HIDE DEF k, L
<1>6. 0 \in P
  <2>1. k[0] = <<>> /\ 0 # L
    BY <1>1, <1>5
  <2>2. k[0] \in Seq(Entry) /\ Len(k[0]) = 0
    BY <2>1
  <2>3. Good(0)
    BY <2>1, <2>2
  <2> HIDE DEF Good
  <2> QED BY <2>3, Zenon
<1>7. ASSUME NEW a \in Nat, a \in P PROVE a + 1 \in P
  <2> DEFINE b == a + 1
             q == k[a]
             r == Piece(b)
  <2> SUFFICES ASSUME b <= L PROVE Good(b)
    <3> HIDE DEF Good
    <3> QED OBVIOUS
  <2>1. Good(a) /\ b \in 1..L /\ b \in 0..L /\ a < L /\ b # 0 /\ b - 1 = a
    <3> HIDE DEF Good
    <3> QED BY <1>1, <1>7
  <2>2. /\ q \in Seq(Entry) /\ Len(q) = 2 * a
        /\ \A d \in 1..a : q[2 * d - 1] = Object(d) /\ q[2 * d] = Sign("comma")
    <3>1. \A d \in 1..a : d < L
      BY <1>1, <2>1
    <3>2. a # L
      BY <1>1, <2>1
    <3> HIDE DEF q
    <3> QED BY <2>1, <3>1, <3>2, Zenon DEF q
  <2>3. /\ r \in Seq(Entry) /\ Len(r) = (IF b < L THEN 2 ELSE 1) /\ r[1] = Object(b) /\ (b < L => r[2] = Sign("comma"))
    BY <1>4, <2>1, Zenon
  <2>4. k[b] = q \o r
    BY <1>5, <2>1, Zenon
  <2> HIDE DEF q, r
  <2>5. k[b] \in Seq(Entry) /\ Len(k[b]) = Size(b)
    <3>1. k[b] \in Seq(Entry) /\ Len(k[b]) = 2 * a + Len(r)
      <4>1. q \o r \in Seq(Entry) /\ Len(q \o r) = Len(q) + Len(r)
        BY <2>2, <2>3, Concat, Zenon
      <4> QED BY <2>2, <2>4, <4>1, Zenon
    <3>2. b < L \/ b = L
      BY <1>1, <2>1
    <3>3. 2 * a + (IF b < L THEN 2 ELSE 1) = Size(b)
      BY <1>1, <3>2
    <3> QED BY <2>3, <3>1, <3>3, Zenon
  <2>6. ASSUME NEW d \in 1..a PROVE k[b][2 * d - 1] = Object(d) /\ k[b][2 * d] = Sign("comma")
    <3>1. 2 * d - 1 \in 1..(2 * a) /\ 2 * d \in 1..(2 * a)
      OBVIOUS
    <3> QED BY <2>2, <2>3, <2>4, <3>1, Concat, SMTT(20)
  <2>7. k[b][2 * a + 1] = Object(b) /\ (b < L => k[b][2 * a + 2] = Sign("comma"))
    <3>1. 1 \in 1..Len(r) /\ (b < L => 2 \in 1..Len(r))
      BY <2>3
    <3> QED BY <2>2, <2>3, <2>4, <3>1, Concat, SMTT(20)
  <2>8. \A d \in 1..b : d \in 1..a \/ d = b
    OBVIOUS
  <2>9. 2 * b - 1 = 2 * a + 1 /\ 2 * b = 2 * a + 2
    OBVIOUS
  <2> HIDE DEF b
  <2> QED BY <2>5, <2>6, <2>7, <2>8, <2>9, Zenon
<1>8. Good(L)
  <2>1. L \in P
    <3> HIDE DEF P
    <3> QED BY <1>1, <1>6, <1>7, Induct, Zenon
  <2> HIDE DEF Good
  <2> QED BY <1>1, <2>1
<1>9. PICK q : q = k[L]
  BY Zenon
<1>10. /\ q \in Seq(Entry) /\ Len(q) = 2 * L - 1
       /\ \A d \in 1..L : q[2 * d - 1] = Object(d) /\ (d < L => q[2 * d] = Sign("comma"))
  BY <1>8, <1>9, Zenon
<1>11. \A d \in 1..(L - 1) : d \in 1..L /\ d < L
  BY <1>1
<1>12. Joined = q
  BY <1>9, JoinedJoin, Zenon DEF k, L
<1> QED BY <1>10, <1>11, <1>12, Zenon DEF L

\* The array while a batch runs in sequence.
Grows ==
  /\ \A d \in DOMAIN docs : Reports(docs[d].outcome)
  /\ busy[1] # 0 => busy[1] = next - 1
  /\ printed \in Seq(Entry)
  /\ Len(printed) = (IF Ready = Len(docs) THEN 2 * Ready ELSE 2 * Ready + 1)
  /\ Array(Ready)

\* A step of the threads that prints nothing.
LEMMA NothingPrinted ==
  ASSUME WInv, OInv, UNCHANGED <<call, printed, exit>>,
         docs # <<>> /\ exit = Running /\ ~Parallel => Ready' = Ready /\ (busy'[1] # 0 => busy'[1] = next' - 1)
  PROVE  OInv'
<1>1. docs' = docs /\ jobs' = jobs /\ Parallel' = Parallel
  BY SameTeam, Zenon
<1>2. OneObjectPerFile'
  BY <1>1, Zenon DEF OInv, OneObjectPerFile, Finished
<1>3. CASE docs # <<>> /\ exit = Running /\ ~Parallel
  <2>1. Grows
    BY <1>3, Zenon DEF OInv, Grows
  <2>2. Ready' = Ready /\ (busy'[1] # 0 => busy'[1] = next' - 1)
    BY <1>3, Zenon
  <2>3. Array(Ready)'
    <3>1. \A m : m = Ready => Array(m)
      BY <2>1, Zenon DEF Grows
    <3>2. \A m : m = Ready' => Array(m)'
      BY <1>1, <2>2, <3>1, Zenon DEF Array
    <3> QED BY <3>2, Zenon DEF Array
  <2>4. Grows'
    BY <1>1, <2>1, <2>2, <2>3, Zenon DEF Grows
  <2> QED BY <1>1, <1>2, <1>3, <2>4, Zenon DEF OInv, Grows
<1> QED BY <1>1, <1>2, <1>3, Zenon DEF OInv

\* A document that ends in this process adds its object, and a comma unless it
\* is the last.
LEMMA ObjectPrinted ==
  ASSUME WInv, Grows, ~Parallel, docs # <<>>, NEW w \in Workers, FinishHere(w)
  PROVE  Grows'
<1> DEFINE d == busy[1]
           L == Len(docs)
<1>1. BatchTypes /\ L \in Nat /\ Team = {1} /\ 1 \in Workers /\ DOMAIN docs = 1..L
  BY TeamFacts DEF WInv, BatchTypes
<1>2. DocEnds(w) /\ UNCHANGED call /\ busy[w] # 0
  BY EndsAre, Zenon DEF Ends, DocEnds
<1>3. w = 1
  BY <1>1, <1>2, Zenon DEF BatchTypes
<1>4. docs' = docs /\ next' = next /\ busy' = [busy EXCEPT ![1] = 0]
  BY <1>2, <1>3, Zenon DEF DocEnds, call
<1>5. d \in 1..L /\ d = next - 1 /\ next = d + 1 /\ next \in Nat
  BY <1>1, <1>2, <1>3, SMTT(20) DEF BatchTypes, Grows
<1>6. Ready = d - 1 /\ Ready' = d /\ busy'[1] = 0
  BY <1>1, <1>2, <1>3, <1>4, <1>5 DEF Ready, BatchTypes
<1>7. PICK r : r = <<Object(d)>> \o Comma(d)
  BY Zenon
<1>8. printed' = printed \o r
  <2>1. printed' = printed \o <<Object(d)>> \o Comma(d)
    <3>1. Reports(docs[d].outcome)
      BY <1>1, <1>5, Zenon DEF Grows
    <3>2. printed' = printed \o (IF Reports(docs[d].outcome) THEN <<Object(d)>> ELSE <<>>) \o Comma(d)
      BY <1>3, Zenon DEF FinishHere
    <3> QED BY <3>1, <3>2, Zenon
  <2>2. ASSUME NEW x \in Seq(Entry), NEW y \in Seq(Entry), NEW z \in Seq(Entry) PROVE x \o y \o z = x \o (y \o z)
    <3> HIDE DEF Entry
    <3> QED BY SMTT(20)
  <2>3. Object(d) \in Entry /\ Sign("comma") \in Entry
    BY <1>5, EntriesAre
  <2>4. <<Object(d)>> \in Seq(Entry) /\ Comma(d) \in Seq(Entry)
    BY <2>3, Pair DEF Comma
  <2> QED BY <1>7, <2>1, <2>2, <2>4 DEF Grows
<1>9. /\ r \in Seq(Entry) /\ Len(r) = (IF d < L THEN 2 ELSE 1) /\ r[1] = Object(d) /\ (d < L => r[2] = Sign("comma"))
  <2>1. Object(d) \in Entry /\ Sign("comma") \in Entry
    BY <1>5, EntriesAre
  <2>2. CASE d < L
    <3>1. r = <<Object(d)>> \o <<Sign("comma")>>
      BY <1>7, <2>2, Zenon DEF Comma
    <3> QED BY <2>1, <2>2, <3>1, Pair
  <2>3. CASE ~(d < L)
    <3>1. r = <<Object(d)>> \o <<>>
      BY <1>7, <2>3, Zenon DEF Comma
    <3> QED BY <2>1, <2>3, <3>1, Pair, Zenon
  <2> QED BY <2>2, <2>3, Zenon
<1> HIDE DEF d, L
<1>10. printed \in Seq(Entry) /\ Len(printed) = 2 * d - 1
  <2>1. Len(printed) = IF d - 1 = L THEN 2 * (d - 1) ELSE 2 * (d - 1) + 1
    BY <1>6, Zenon DEF Grows, L
  <2>2. d - 1 # L /\ 2 * (d - 1) + 1 = 2 * d - 1
    BY <1>1, <1>5
  <2> QED BY <2>1, <2>2, Zenon DEF Grows
<1>11. /\ printed' \in Seq(Entry) /\ Len(printed') = (2 * d - 1) + Len(r)
       /\ \A i \in 1..(2 * d - 1) : printed'[i] = printed[i]
       /\ printed'[2 * d] = Object(d) /\ (d < L => printed'[2 * d + 1] = Sign("comma"))
  <2>1. /\ printed' \in Seq(Entry) /\ Len(printed') = (2 * d - 1) + Len(r)
        /\ \A i \in 1..(2 * d - 1) : printed'[i] = printed[i]
        /\ \A i \in 1..Len(r) : printed'[(2 * d - 1) + i] = r[i]
    <3>1. PICK p : p = printed \o r
      BY Zenon
    <3>2. /\ p \in Seq(Entry) /\ Len(p) = Len(printed) + Len(r) /\ \A i \in 1..Len(printed) : p[i] = printed[i]
          /\ \A i \in 1..Len(r) : p[Len(printed) + i] = r[i]
      BY <1>9, <1>10, <3>1, Concat
    <3> QED BY <1>8, <1>10, <3>1, <3>2, Zenon
  <2>2. 1 \in 1..Len(r) /\ (2 * d - 1) + 1 = 2 * d
    BY <1>5, <1>9
  <2>3. d < L => 2 \in 1..Len(r) /\ (2 * d - 1) + 2 = 2 * d + 1
    BY <1>5, <1>9
  <2> QED BY <1>9, <2>1, <2>2, <2>3
<1>12. Len(printed') = IF d = L THEN 2 * d ELSE 2 * d + 1
  <2>1. d < L \/ d = L
    BY <1>1, <1>5
  <2> QED BY <1>1, <1>5, <1>9, <1>11, <2>1, SMTT(20)
<1>13. ASSUME NEW e \in 1..d PROVE printed'[2 * e] = Object(e) /\ (e < L => printed'[2 * e + 1] = Sign("comma"))
  <2>1. CASE e = d
    BY <1>11, <2>1, Zenon
  <2>2. CASE e # d
    <3>1. e \in 1..(d - 1) /\ 2 * e \in 1..(2 * d - 1) /\ 2 * e + 1 \in 1..(2 * d - 1) /\ e < L
      BY <1>1, <1>5, <2>2
    <3>2. printed[2 * e] = Object(e) /\ printed[2 * e + 1] = Sign("comma")
      BY <1>6, <3>1, Zenon DEF Grows, Array, L
    <3> QED BY <1>11, <3>1, <3>2, Zenon
  <2> QED BY <2>1, <2>2, Zenon
<1>14. Array(Ready)'
  <2>1. \A m : m = d => (\A e \in 1..m : printed'[2 * e] = Object(e)) /\ \A e \in 1..m : e < L => printed'[2 * e + 1] = Sign("comma")
    BY <1>13, Zenon
  <2> QED BY <1>4, <1>6, <2>1, Zenon DEF Array, L
<1> QED BY <1>4, <1>6, <1>11, <1>12, <1>14, Zenon DEF Grows, L

\* The end of a batch closes the array.
LEMMA Closed ==
  ASSUME WInv, docs # <<>>, OInv, EndRound
  PROVE  OneObjectPerFile'
<1> DEFINE L == Len(docs)
<1>1. BatchTypes /\ L \in Nat \ {0} /\ DOMAIN docs = 1..L /\ exit = Running
  BY DEF WInv, BatchTypes, EndRound, End
<1>2. docs' = docs /\ printed' = printed \o (IF Parallel THEN Joined ELSE <<>>) \o <<Sign("close")>>
  BY Zenon DEF EndRound, End, call
<1>3. Sign("close") \in Entry /\ Sign("open") \in Entry
  BY EntriesAre, Zenon
<1>4. <<Sign("close")>> \in Seq(Entry) /\ Len(<<Sign("close")>>) = 1
  BY <1>3, Pair, Zenon
<1> DEFINE q == printed \o (IF Parallel THEN Joined ELSE <<>>)
<1>5. /\ q \in Seq(Entry) /\ Len(q) = 2 * L
      /\ \A d \in 1..L : q[2 * d] = Object(d)
      /\ \A d \in 1..(L - 1) : q[2 * d + 1] = Sign("comma")
  <2>1. CASE Parallel
    <3>1. printed = <<Sign("open")>> /\ q = printed \o Joined
      BY <1>1, <2>1, Zenon DEF OInv
    <3>2. printed \in Seq(Entry) /\ Len(printed) = 1
      BY <1>3, <3>1, Pair, Zenon
    <3>3. /\ Joined \in Seq(Entry) /\ Len(Joined) = 2 * L - 1
          /\ \A d \in 1..L : Joined[2 * d - 1] = Object(d)
          /\ \A d \in 1..(L - 1) : Joined[2 * d] = Sign("comma")
      BY <1>1, JoinedIs, Zenon
    <3> HIDE DEF q, L
    <3>4. q \in Seq(Entry) /\ Len(q) = 1 + (2 * L - 1) /\ \A i \in 1..(2 * L - 1) : q[1 + i] = Joined[i]
      BY <3>1, <3>2, <3>3, Concat
    <3>5. \A d \in 1..L : 2 * d - 1 \in 1..(2 * L - 1) /\ 1 + (2 * d - 1) = 2 * d
      BY <1>1
    <3>6. \A d \in 1..(L - 1) : 2 * d \in 1..(2 * L - 1) /\ 1 + 2 * d = 2 * d + 1
      BY <1>1
    <3>7. \A d \in 1..L : q[2 * d] = Joined[2 * d - 1]
      BY <3>4, <3>5, Zenon
    <3>8. \A d \in 1..(L - 1) : q[2 * d + 1] = Joined[2 * d]
      BY <3>4, <3>6, Zenon
    <3>9. 1 + (2 * L - 1) = 2 * L
      BY <1>1
    <3> QED BY <3>3, <3>4, <3>7, <3>8, <3>9, Zenon
  <2>2. CASE ~Parallel
    <3>1. Grows
      BY <1>1, <2>2, Zenon DEF OInv, Grows
    <3>2. ended = Team /\ Team = {1} /\ 1 \in Workers
      BY <1>1, <2>2, TeamFacts, Zenon DEF EndRound, End
    <3>3. busy[1] = 0 /\ next = L + 1
      BY <1>1, <3>2, Zenon DEF BatchTypes
    <3>4. Ready = L
      BY <1>1, <3>3 DEF Ready
    <3>5. printed \in Seq(Entry) /\ Len(printed) = 2 * L /\ Array(L)
      BY <3>1, <3>4, Zenon DEF Grows
    <3>6. q = printed
      <4>1. q = printed \o <<>>
        BY <2>2, Zenon
      <4>2. ASSUME NEW x \in Seq(Entry) PROVE x \o <<>> = x
        <5> HIDE DEF Entry
        <5> QED OBVIOUS
      <4> QED BY <3>5, <4>1, <4>2, Zenon
    <3>7. \A d \in 1..(L - 1) : d \in 1..L /\ d < L
      BY <1>1
    <3> HIDE DEF q
    <3> QED BY <3>5, <3>6, <3>7, Zenon DEF Array
  <2> QED BY <2>1, <2>2, Zenon
<1> HIDE DEF q, L
<1>6. printed' \in Seq(Entry) /\ Len(printed') = 2 * L + 1 /\ \A i \in 1..(2 * L) : printed'[i] = q[i]
  <2>1. printed' = q \o <<Sign("close")>>
    BY <1>2, Zenon DEF q
  <2> QED BY <1>4, <1>5, <2>1, Concat
<1>7. \A d \in 1..L : 2 * d \in 1..(2 * L)
  BY <1>1
<1>8. \A d \in 1..(L - 1) : 2 * d + 1 \in 1..(2 * L)
  BY <1>1
<1>9. /\ Len(printed') = 2 * L + 1 /\ \A d \in 1..L : printed'[2 * d] = Object(d)
      /\ \A d \in 1..(L - 1) : printed'[2 * d + 1] = Sign("comma")
  BY <1>5, <1>6, <1>7, <1>8, Zenon
<1> QED BY <1>1, <1>2, <1>9, Zenon DEF OneObjectPerFile, L

\* The first state of a batch in sequence, and of a round with one file, has
\* an array that is open and empty.
Begins ==
  /\ BatchTypes /\ docs # <<>> /\ ~Parallel /\ busy[1] = 0 /\ next = 1 /\ printed = <<Sign("open")>>
  /\ \A d \in DOMAIN docs : Reports(docs[d].outcome)
\* Such a state satisfies the invariant of the array in sequence.
LEMMA Opened == Begins => Grows
<1> SUFFICES ASSUME Begins PROVE Grows
  BY Zenon
<1> USE DEF Begins
<1>1. Len(docs) \in Nat \ {0}
  BY DEF BatchTypes
<1>2. Ready = 0
  BY DEF Ready
<1>3. printed \in Seq(Entry) /\ Len(printed) = 1
  BY EntriesAre, Pair, Zenon
<1>4. Array(0)
  BY DEF Array
<1>5. Array(Ready)
  BY <1>2, <1>4, Zenon
<1> QED BY <1>1, <1>2, <1>3, <1>5 DEF Grows

\* The array is open when the batch begins.
LEMMA OInitial == ASSUME AllReported, WInit PROVE OInv
<1>1. PICK c \in Calls : docs = c.docs /\ watch = c.watch /\ jobs = IF c.watch /\ c.jobs < 2 THEN 2 ELSE c.jobs
  BY Zenon DEF WInit, Init
<1>2. WInv /\ BatchTypes /\ (watch => docs = <<>>)
  BY <1>1, WInitial, WatchAssumption, Zenon DEF WInv
<1>3. CASE docs = <<>>
  BY <1>3, Zenon DEF OInv, OneObjectPerFile, Finished
<1>4. CASE docs # <<>>
  <2>1. exit = Running /\ printed = <<Sign("open")>> /\ next = 1 /\ busy = [w \in Workers |-> 0] /\ ~watch
    BY <1>2, <1>4, Zenon DEF WInit, Init
  <2>2. OneObjectPerFile
    BY <2>1, Zenon DEF OneObjectPerFile, Finished
  <2>3. ASSUME ~Parallel PROVE Grows
    <3>1. c.jobs = 1 \/ Len(c.docs) = 1
      <4>1. c.jobs = jobs /\ jobs \in Nat \ {0} /\ Len(docs) \in Nat \ {0}
        BY <1>1, <1>2, <1>4, <2>1 DEF BatchTypes
      <4>2. ASSUME NEW j \in Nat \ {0}, NEW l \in Nat \ {0}, ~(j > 1 /\ l > 1) PROVE j = 1 \/ l = 1
        BY <4>2
      <4>3. jobs = 1 \/ Len(docs) = 1
        BY <2>3, <4>1, <4>2, Zenon DEF Parallel
      <4> QED BY <1>1, <4>1, <4>3, Zenon
    <3>2. \A d \in DOMAIN docs : Reports(docs[d].outcome)
      BY <1>1, <3>1, Zenon DEF AllReported
    <3>3. busy[1] = 0
      BY <1>2, <2>1, TeamFacts, Zenon
    <3> QED BY <1>2, <1>4, <2>1, <2>3, <3>2, <3>3, Opened, Zenon DEF Begins
  <2> QED BY <2>1, <2>2, <2>3, Zenon DEF OInv, Grows
<1> QED BY <1>3, <1>4, Zenon

\* Every step keeps the array well formed.
LEMMA OStepKept == ASSUME AllReported, WInv, WInv', OInv, [WNext]_wvars PROVE OInv'
<1>0. BatchTypes /\ BatchTypes' /\ Team \subseteq Workers /\ 1 \in Workers /\ (~Parallel => Team = {1})
  BY TeamFacts, Zenon DEF WInv
<1>1. ASSUME NEW w \in Workers, Start(w) PROVE OInv'
  <2>1. /\ UNCHANGED <<call, printed, exit>> /\ w \in Team /\ busy[w] = 0 /\ busy' = [busy EXCEPT ![w] = next]
        /\ next' = next + 1
    BY <1>1, Zenon DEF Start, Claim, Free
  <2>2. ASSUME ~Parallel PROVE Ready' = Ready /\ (busy'[1] # 0 => busy'[1] = next' - 1)
    <3>1. w = 1 /\ busy[1] = 0 /\ busy'[1] = next /\ next \in Nat \ {0}
      BY <1>0, <2>1, <2>2 DEF BatchTypes
    <3> QED BY <2>1, <3>1 DEF Ready
  <2> QED BY <2>1, <2>2, NothingPrinted, Zenon
<1>2. ASSUME NEW w \in Workers, Finish(w) \/ ChildTimesOut(w) PROVE OInv'
  <2>1. DocEnds(w) /\ (Parallel => printed' = printed) /\ (Ends(w) \/ ChildTimesOut(w))
    BY <1>2, EndsAre, Zenon DEF Finish
  <2>2. UNCHANGED call /\ exit' = exit /\ exit = Running /\ busy[w] # 0
    BY <2>1, Zenon DEF DocEnds
  <2>3. CASE Parallel
    BY <2>1, <2>2, <2>3, NothingPrinted, Zenon
  <2>4. CASE ~Parallel
    <3>1. FinishHere(w)
      BY <2>1, <2>4, Zenon DEF Ends, ChildEnds, ChildTimesOut
    <3>2. docs # <<>>
      BY <1>0, <2>2 DEF BatchTypes
    <3>3. Grows
      BY <2>2, <2>4, <3>2, Zenon DEF OInv, Grows
    <3>4. Grows'
      BY <2>4, <3>1, <3>2, <3>3, ObjectPrinted, Zenon
    <3>5. docs' = docs /\ Parallel' = Parallel
      BY <2>2, SameTeam, Zenon
    <3>6. OneObjectPerFile'
      BY <2>2, Zenon DEF OneObjectPerFile, Finished
    <3> QED BY <2>4, <3>4, <3>5, <3>6, Zenon DEF OInv, Grows
  <2> QED BY <2>3, <2>4, Zenon
<1>3. ASSUME NEW w \in Workers, Clash(w) \/ Return(w) PROVE OInv'
  <2>1. UNCHANGED <<call, printed, exit>> /\ busy' = busy /\ exit = Running /\ docs # <<>>
    BY <1>3, Zenon DEF Clash, Return, Free
  <2>2. next' = next \/ (next <= Len(docs) /\ docs[next].outcome = "clash")
    BY <1>3, Zenon DEF Clash, Return
  <2>3. ASSUME ~Parallel PROVE Ready' = Ready /\ (busy'[1] # 0 => busy'[1] = next' - 1)
    <3>1. Grows
      BY <2>1, <2>3, Zenon DEF OInv, Grows
    <3>2. next' = next
      <4>1. next <= Len(docs) => next \in DOMAIN docs
        BY <1>0, SMTT(20) DEF BatchTypes
      <4>2. next <= Len(docs) => Reports(docs[next].outcome)
        BY <3>1, <4>1, Zenon DEF Grows
      <4> QED BY <2>2, <4>2, Zenon DEF Reports
    <3> QED BY <2>1, <3>1, <3>2, Zenon DEF Ready, Grows
  <2> QED BY <2>1, <2>3, NothingPrinted, Zenon
<1>4. ASSUME NoInputs \/ WatchdogFires PROVE OInv'
  <2>1. docs' = docs /\ (exit' = 3 \/ (docs = <<>> /\ exit' = 1))
    BY <1>4, Zenon DEF NoInputs, WatchdogFires, call
  <2> QED BY <2>1 DEF OInv, OneObjectPerFile, Finished, Running
<1>5. ASSUME EndRound PROVE OInv'
  <2>1. docs # <<>> /\ exit' # Running
    <3>1. exit' \in {0, 1, 2, 3} /\ docs # <<>>
      BY <1>5, ExitsAre, Zenon DEF EndRound, OnlyExit, End
    <3> QED BY <3>1 DEF Running
  <2> QED BY <1>5, <2>1, Closed, Zenon DEF OInv
<1>6. ASSUME Round PROVE OInv'
  <2>1. exit' = Running /\ printed' = <<Sign("open")>> /\ next' = 1 /\ busy' = [w \in Workers |-> 0] /\ jobs' = jobs
    BY <1>6, Zenon DEF Round
  <2>2. busy'[1] = 0
    BY <1>0, <2>1, Zenon
  <2>3. \A d \in DOMAIN docs' : Reports(docs'[d].outcome)
    <3>1. \A d \in DOMAIN docs' : docs'[d] = Content[taken'[d]] /\ taken'[d] \in settled
      BY <1>6, RoundStart, Zenon DEF WInv
    <3>2. settled \subseteq Names
      BY Zenon DEF WInv, FolderTypes
    <3> QED BY <3>1, <3>2, Zenon DEF AllReported
  <2>4. docs' # <<>> /\ ~Parallel' => Grows'
    <3>1. Begins' => Grows'
      BY Opened, PTL
    <3> QED BY <1>0, <2>1, <2>2, <2>3, <3>1, Zenon DEF Begins
  <2>5. OneObjectPerFile'
    BY <2>1, Zenon DEF OneObjectPerFile, Finished
  <2> QED BY <2>1, <2>4, <2>5, Zenon DEF OInv, Grows
<1>7. ASSUME UNCHANGED <<call, next, busy, printed, exit>> PROVE OInv'
  <2>1. Ready' = Ready
    BY <1>7, Zenon DEF Ready
  <2> QED BY <1>7, <2>1, NothingPrinted, Zenon DEF OInv
<1>8. ASSUME Move \/ \E n \in Names : Save(n) \/ Settle(n) PROVE UNCHANGED <<call, next, busy, printed, exit>>
  BY <1>8, Zenon DEF Move, Save, Settle, vars
<1> QED BY <1>1, <1>2, <1>3, <1>4, <1>5, <1>6, <1>7, <1>8, StepKinds, Zenon

\* For every folder and number of jobs the report of a batch that has ended is
\* an array with one object per file, in name order whatever order the children
\* end in (runBatch of main.cpp).  In sequence a document without a report
\* leaves out its object, hence the hypothesis.
THEOREM ArrayComplete == ASSUME AllReported PROVE WSpec => []OneObjectPerFile
<1>1. WInit => OInv
  BY OInitial, Zenon
<1>2. WInv /\ WInv' /\ OInv /\ [WNext]_wvars => OInv'
  BY OStepKept, Zenon
<1>3. OInv => OneObjectPerFile
  BY Zenon DEF OInv
<1> QED BY <1>1, <1>2, <1>3, WInvariance, PTL DEF WSpec
=============================================================================
