----------------------------- MODULE SiteProofs -----------------------------
(* What the two pages of the site keep for every list of files, every order of *)
(* the answers and every click in between.                                     *)
EXTENDS Site, TLAPS

-----------------------------------------------------------------------------
\* A sequence without its element i.
LEMMA WithoutIs ==
  ASSUME NEW S, NEW s \in Seq(S), NEW i \in DOMAIN s
  PROVE  /\ Without(s, i) \in Seq(S) /\ Len(s) \in Nat \ {0} /\ Len(Without(s, i)) = Len(s) - 1
         /\ DOMAIN Without(s, i) = 1..(Len(s) - 1)
         /\ \A j \in 1..(Len(s) - 1) : Without(s, i)[j] = IF j < i THEN s[j] ELSE s[j + 1]
<1>1. Len(s) \in Nat \ {0} /\ DOMAIN s = 1..Len(s) /\ i \in 1..Len(s)
  OBVIOUS
<1>2. ASSUME NEW l \in Nat, NEW q, q \in [1..l -> S] PROVE q \in Seq(S) /\ Len(q) = l /\ DOMAIN q = 1..l
  BY <1>2
<1>3. Without(s, i) \in [1..(Len(s) - 1) -> S]
  <2>1. \A j \in 1..(Len(s) - 1) : (IF j < i THEN s[j] ELSE s[j + 1]) \in S
    BY <1>1
  <2>. QED BY <2>1, Zenon DEF Without
<1>4. Len(s) - 1 \in Nat
  BY <1>1
<1>5. \A j \in 1..(Len(s) - 1) : Without(s, i)[j] = IF j < i THEN s[j] ELSE s[j + 1]
  BY Zenon DEF Without
<1>. QED BY <1>1, <1>2, <1>3, <1>4, <1>5, Zenon

\* A request put at the end of the wire.
LEMMA AppendIs ==
  ASSUME NEW S, NEW s \in Seq(S), NEW e \in S
  PROVE  /\ Append(s, e) \in Seq(S) /\ Len(s) \in Nat /\ Len(Append(s, e)) = Len(s) + 1
         /\ DOMAIN s = 1..Len(s) /\ DOMAIN Append(s, e) = 1..(Len(s) + 1)
         /\ Append(s, e)[Len(s) + 1] = e /\ \A j \in 1..Len(s) : Append(s, e)[j] = s[j]
OBVIOUS

-----------------------------------------------------------------------------
\* The list of the converter page has each row once.  While a run goes through
\* it and no row that was passed has been removed, every row that was passed has
\* been taken up.
AppTypes ==
  /\ files \in Seq(Row) /\ added \in Nat /\ status \in [Row -> Status] /\ running \in BOOLEAN /\ cut \in BOOLEAN
  /\ pos \in Nat \ {0} /\ wire \in Seq([row : Row, check : BOOLEAN, loop : BOOLEAN])
  /\ \A j, k \in DOMAIN files : files[j] = files[k] => j = k
  /\ \A k \in DOMAIN files : files[k] <= added
  /\ ~running => pos = 1 /\ ~cut

PassedTaken == ~cut => pos <= Len(files) + 1 /\ \A k \in DOMAIN files : k < pos => status[files[k]] # "pending"

AppInv == AppTypes /\ PassedTaken

\* The loop of runAll, from an index up to which all rows have been taken up,
\* reaches another such index or the end of the list.
LEMMA VisitKept ==
  ASSUME AppInv, NEW st \in [Row -> Status], NEW w \in Seq([row : Row, check : BOOLEAN, loop : BOOLEAN]),
         ~cut => \A k \in DOMAIN files : k < pos => st[files[k]] # "pending",
         Visit(pos, st, w), UNCHANGED <<files, added>>
  PROVE  /\ AppInv'
         /\ ~running' /\ ~cut => \A i \in Shown : status'[i] # "pending"
<1> DEFINE L == Len(files)
           Request == [row : Row, check : BOOLEAN, loop : BOOLEAN]
           todo == {k \in pos..L : st[files[k]] # "done"}
<1>1. files \in Seq(Row) /\ L \in Nat /\ DOMAIN files = 1..L /\ pos \in Nat \ {0} /\ \A k \in 1..L : files[k] \in Row
  BY DEF AppInv, AppTypes
<1>2. CASE todo = {} /\ Ends(st, w)
  <2>1. running' = FALSE /\ pos' = 1 /\ cut' = FALSE /\ status' = st /\ wire' = w
    BY <1>2, Zenon DEF Ends
  <2>2. AppInv'
    <3>1. AppTypes'
      <4>1. /\ files' = files /\ added' = added /\ status' \in [Row -> Status] /\ wire' \in Seq(Request)
            /\ running' \in BOOLEAN /\ cut' \in BOOLEAN /\ pos' = 1 /\ ~cut'
        BY <2>1, Zenon
      <4>2. 1 \in Nat \ {0}
        OBVIOUS
      <4>. QED BY <4>1, <4>2, Zenon DEF AppInv, AppTypes, Row
    <3>2. 1 <= L + 1 /\ \A k \in DOMAIN files : ~(k < 1)
      BY <1>1
    <3>3. PassedTaken'
      BY <2>1, <3>2, Zenon DEF PassedTaken
    <3>. QED BY <3>1, <3>3, Zenon DEF AppInv
  <2>3. ASSUME ~cut, NEW k \in DOMAIN files PROVE st[files[k]] # "pending"
    <3>1. CASE k < pos
      BY <2>3, <3>1, Zenon
    <3>2. CASE ~(k < pos)
      <4>1. k \in pos..L
        BY <1>1, <3>2
      <4>. QED BY <1>2, <4>1, Zenon
    <3>. QED BY <3>1, <3>2, Zenon
  <2>. QED BY <2>1, <2>2, <2>3, Zenon DEF Shown
<1>3. CASE \E k \in todo, check \in CheckOnly :
             /\ \A j \in todo : k <= j
             /\ status' = [st EXCEPT ![files[k]] = "working"] /\ pos' = k + 1
             /\ wire' = Append(w, [row |-> files[k], check |-> check, loop |-> TRUE])
             /\ running' = TRUE /\ UNCHANGED cut
  <2>1. PICK k \in todo, check \in BOOLEAN :
             /\ \A j \in todo : k <= j
             /\ status' = [st EXCEPT ![files[k]] = "working"] /\ pos' = k + 1
             /\ wire' = Append(w, [row |-> files[k], check |-> check, loop |-> TRUE])
             /\ running' = TRUE /\ cut' = cut
    BY <1>3, Zenon DEF CheckOnly
  <2>2. k \in pos..L /\ k \in 1..L /\ files[k] \in Row /\ k \in Nat
    BY <1>1
  <2>3. [row |-> files[k], check |-> check, loop |-> TRUE] \in Request
    BY <2>2, Zenon
  <2>4. wire' \in Seq(Request)
    <3> HIDE DEF Request
    <3>1. w \in Seq(Request)
      BY Zenon DEF Request
    <3>. QED BY <2>1, <2>3, <3>1, AppendIs, Zenon
  <2>5. status' \in [Row -> Status] /\ \A i \in Row : status'[i] = IF i = files[k] THEN "working" ELSE st[i]
    <3>1. "working" \in Status
      BY Zenon DEF Status
    <3>. QED BY <2>1, <2>2, <3>1, Zenon
  <2>6. AppTypes'
    BY <1>1, <2>1, <2>2, <2>4, <2>5 DEF AppInv, AppTypes, Row
  <2>7. ASSUME ~cut, NEW j \in DOMAIN files, j < k + 1 PROVE status'[files[j]] # "pending"
    <3>1. CASE j = k
      BY <2>2, <2>5, <3>1, Zenon
    <3>2. CASE j < pos
      BY <1>1, <2>5, <2>7, <3>2, Zenon
    <3>3. CASE j # k /\ ~(j < pos)
      <4>1. j \in pos..L /\ j < k
        BY <1>1, <2>2, <2>7, <3>3
      <4>2. j \notin todo
        BY <1>1, <2>1, <2>2, <4>1
      <4>3. st[files[j]] = "done"
        BY <4>1, <4>2, Zenon
      <4>. QED BY <1>1, <2>5, <4>3, Zenon
    <3>. QED BY <3>1, <3>2, <3>3, Zenon
  <2>8. k + 1 <= L + 1
    BY <1>1, <2>2
  <2>9. PassedTaken'
    BY <2>1, <2>7, <2>8, Zenon DEF PassedTaken
  <2>. QED BY <2>1, <2>6, <2>9, Zenon DEF AppInv
<1>. QED BY <1>2, <1>3, Zenon DEF Visit

\* An answer writes the status of its row, unless the row is no longer there.
LEMMA AnswerIs ==
  ASSUME AppInv, NEW k \in DOMAIN wire, NEW o \in Outcomes(wire[k])
  PROVE  LET st == IF wire[k].row \in Shown THEN [status EXCEPT ![wire[k].row] = o] ELSE status
         IN /\ st \in [Row -> Status] /\ \A i \in Row : st[i] = status[i] \/ st[i] # "pending"
            /\ Taken(k) \in Seq([row : Row, check : BOOLEAN, loop : BOOLEAN])
<1> DEFINE Request == [row : Row, check : BOOLEAN, loop : BOOLEAN]
<1>1. wire \in Seq(Request) /\ status \in [Row -> Status]
  BY Zenon DEF AppInv, AppTypes
<1>2. wire[k] \in Request
  <2> HIDE DEF Request
  <2>. QED BY <1>1
<1>3. wire[k].row \in Row
  BY <1>2, Zenon
<1>4. o \in Status /\ o # "pending"
  BY Zenon DEF Outcomes, Status
<1>5. Taken(k) \in Seq(Request)
  <2> HIDE DEF Request
  <2>. QED BY <1>1, WithoutIs, Zenon DEF Taken
<1>. QED BY <1>1, <1>3, <1>4, <1>5, Zenon

\* What the end of a run shows.
Covered == running /\ ~running' /\ ~cut => \A i \in Shown : status'[i] # "pending"

\* The answer to a request, of the run or of a row's button.
LEMMA AnswersKept == ASSUME AppInv, RowAnswers PROVE AppInv' /\ Covered
<1> DEFINE Request == [row : Row, check : BOOLEAN, loop : BOOLEAN]
<1>1. PICK k \in DOMAIN wire : RowAnswer(k)
  BY Zenon DEF RowAnswers, Due
<1>2. PICK o \in Outcomes(wire[k]) :
        LET st == IF wire[k].row \in Shown THEN [status EXCEPT ![wire[k].row] = o] ELSE status
        IN /\ IF wire[k].loop THEN Visit(pos, st, Taken(k))
              ELSE status' = st /\ wire' = Taken(k) /\ UNCHANGED <<running, pos, cut>>
           /\ UNCHANGED <<ready, lost, files, added>>
  BY <1>1, Zenon DEF RowAnswer
<1> DEFINE st == IF wire[k].row \in Shown THEN [status EXCEPT ![wire[k].row] = o] ELSE status
<1>3. st \in [Row -> Status] /\ (\A i \in Row : st[i] = status[i] \/ st[i] # "pending") /\ Taken(k) \in Seq(Request)
  BY AnswerIs, Zenon
<1>4. UNCHANGED <<files, added>> /\ (Visit(pos, st, Taken(k)) \/ (status' = st /\ wire' = Taken(k) /\ UNCHANGED <<running, pos, cut>>))
  BY <1>2, Zenon
<1> HIDE DEF st
<1>5. ~cut => \A j \in DOMAIN files : j < pos => st[files[j]] # "pending"
  <2>1. \A j \in DOMAIN files : files[j] \in Row
    BY DEF AppInv, AppTypes
  <2>. QED BY <1>3, <2>1, Zenon DEF AppInv, PassedTaken
<1>6. CASE Visit(pos, st, Taken(k))
  BY <1>3, <1>4, <1>5, <1>6, VisitKept, Zenon DEF Covered
<1>7. CASE status' = st /\ wire' = Taken(k) /\ UNCHANGED <<running, pos, cut>>
  <2>1. AppTypes'
    BY <1>3, <1>4, <1>7, Zenon DEF AppInv, AppTypes, Row, Status
  <2>2. PassedTaken'
    BY <1>4, <1>5, <1>7, Zenon DEF AppInv, PassedTaken
  <2>. QED BY <1>7, <2>1, <2>2, Zenon DEF AppInv, Covered
<1>. QED BY <1>4, <1>6, <1>7, Zenon

\* The run button.
LEMMA RunAllKept == ASSUME AppInv, RunAll PROVE AppInv' /\ Covered
<1>1. ~running /\ pos = 1 /\ Visit(pos, status, wire) /\ UNCHANGED <<files, added>>
  BY Zenon DEF RunAll, AppInv, AppTypes
<1>2. ~cut => \A k \in DOMAIN files : k < pos => status[files[k]] # "pending"
  BY Zenon DEF AppInv, PassedTaken
<1>3. status \in [Row -> Status] /\ wire \in Seq([row : Row, check : BOOLEAN, loop : BOOLEAN])
  BY Zenon DEF AppInv, AppTypes
<1>. QED BY <1>1, <1>2, <1>3, VisitKept, Zenon DEF Covered

\* A row is added behind the run's index.
LEMMA AddKept == ASSUME AppInv, AddFile PROVE AppInv' /\ Covered
<1> DEFINE L == Len(files)
<1>1. /\ added < MaxRows /\ added' = added + 1 /\ files' = Append(files, added + 1)
      /\ UNCHANGED <<wire, status, running, pos, cut>>
  BY Zenon DEF AddFile, site
<1>2. files \in Seq(Row) /\ added \in Nat /\ L \in Nat /\ DOMAIN files = 1..L /\ \A k \in 1..L : files[k] \in Row /\ files[k] <= added
  BY DEF AppInv, AppTypes
<1>3. added + 1 \in Row
  BY <1>1, <1>2, RowsAssumption DEF Row
<1>4. /\ files' \in Seq(Row) /\ Len(files') = L + 1 /\ DOMAIN files' = 1..(L + 1) /\ files'[L + 1] = added + 1
      /\ \A k \in 1..L : files'[k] = files[k]
  BY <1>1, <1>2, <1>3, AppendIs
<1>5. Row \subseteq Nat
  BY DEF Row
<1>6. \A k \in 1..(L + 1) : k = L + 1 \/ k \in 1..L
  BY <1>2
<1>7. \A k \in DOMAIN files' : files'[k] <= added'
  <2>1. ASSUME NEW k \in 1..L PROVE files[k] <= added + 1
    <3>1. files[k] \in Nat /\ files[k] <= added /\ added \in Nat
      BY <1>2, <1>5, Zenon
    <3>. QED BY <3>1
  <2>2. added + 1 <= added + 1
    BY <1>2
  <2>. QED BY <1>1, <1>4, <1>6, <2>1, <2>2, Zenon
<1>8. \A j, k \in DOMAIN files' : files'[j] = files'[k] => j = k
  <2>1. \A k \in 1..L : files'[k] # added + 1
    BY <1>2, <1>4, <1>5
  <2>2. \A j, k \in 1..L : files'[j] = files'[k] => j = k
    BY <1>2, <1>4, Zenon DEF AppInv, AppTypes
  <2>. QED BY <1>4, <1>6, <2>1, <2>2, Zenon
<1>9. AppTypes'
  BY <1>1, <1>2, <1>4, <1>7, <1>8 DEF AppInv, AppTypes, Row
<1>10. PassedTaken'
  <2>1. ASSUME ~cut PROVE pos <= L + 1 /\ pos \in Nat /\ \A k \in 1..L : k < pos => status[files[k]] # "pending"
    BY <1>2, <2>1, Zenon DEF AppInv, AppTypes, PassedTaken
  <2>2. ASSUME ~cut, NEW k \in 1..(L + 1), k < pos PROVE k \in 1..L
    BY <1>2, <2>1, <2>2
  <2>3. ~cut => pos <= (L + 1) + 1
    BY <1>2, <2>1
  <2>. QED BY <1>1, <1>4, <2>1, <2>2, <2>3, Zenon DEF PassedTaken
<1>. QED BY <1>1, <1>9, <1>10, Zenon DEF AppInv, Covered

\* A row is removed: the rows before the run's index stay where they are, or
\* the run is cut.
LEMMA RemoveKept == ASSUME AppInv, NEW i \in Row, Remove(i) PROVE AppInv' /\ Covered
<1> DEFINE L == Len(files)
<1>1. PICK m \in DOMAIN files : files[m] = i /\ files' = Without(files, m) /\ cut' = (cut \/ (running /\ m < pos))
  BY Zenon DEF Remove
<1>2. status' = [status EXCEPT ![i] = "pending"] /\ UNCHANGED <<wire, added, running, pos>>
  BY Zenon DEF Remove, site
<1>3. /\ files \in Seq(Row) /\ added \in Nat /\ L \in Nat \ {0} /\ DOMAIN files = 1..L /\ m \in 1..L /\ pos \in Nat \ {0}
      /\ running \in BOOLEAN /\ cut \in BOOLEAN /\ (~running => pos = 1)
  <2>1. files \in Seq(Row)
    BY Zenon DEF AppInv, AppTypes
  <2>. QED BY <1>1, <2>1 DEF AppInv, AppTypes
<1>4. /\ files' \in Seq(Row) /\ Len(files') = L - 1 /\ DOMAIN files' = 1..(L - 1)
      /\ \A j \in 1..(L - 1) : files'[j] = IF j < m THEN files[j] ELSE files[j + 1]
  BY <1>1, <1>3, WithoutIs, Zenon
<1> HIDE DEF L
<1> DEFINE Old(j) == IF j < m THEN j ELSE j + 1
<1>5. \A j \in 1..(L - 1) : Old(j) \in 1..L /\ Old(j) # m /\ files'[j] = files[Old(j)]
  BY <1>3, <1>4
<1>6. \A j, k \in 1..(L - 1) : Old(j) = Old(k) => j = k
  BY <1>3
<1> HIDE DEF Old
<1>7. \A j, k \in DOMAIN files' : files'[j] = files'[k] => j = k
  BY <1>3, <1>4, <1>5, <1>6 DEF AppInv, AppTypes
<1>8. \A j \in DOMAIN files' : files'[j] <= added /\ files'[j] # i /\ files'[j] \in Row
  BY <1>1, <1>3, <1>4, <1>5 DEF AppInv, AppTypes
<1>9. status' \in [Row -> Status] /\ \A r \in Row : r # i => status'[r] = status[r]
  <2>1. status \in [Row -> Status] /\ "pending" \in Status
    BY Zenon DEF AppInv, AppTypes, Status
  <2>. QED BY <1>2, <2>1, Zenon
<1>10. cut' \in BOOLEAN /\ (~running => ~cut')
  BY <1>1, <1>3, Zenon DEF AppInv, AppTypes
<1>11. AppTypes'
  BY <1>2, <1>3, <1>4, <1>7, <1>8, <1>9, <1>10, Zenon DEF AppInv, AppTypes
<1>12. ASSUME ~cut' PROVE pos <= L /\ \A j \in 1..(L - 1) : j < pos => status'[files'[j]] # "pending"
  <2>1. ~cut /\ (running => m >= pos)
    BY <1>1, <1>3, <1>12
  <2>2. m >= pos
    BY <1>3, <2>1
  <2>3. pos <= L
    BY <1>3, <2>2
  <2>4. \A j \in 1..(L - 1) : j < pos => files'[j] = files[j] /\ j \in 1..L
    BY <1>3, <1>4, <2>2
  <2>5. \A k \in 1..L : k < pos => status[files[k]] # "pending"
    BY <1>3, <2>1, Zenon DEF AppInv, PassedTaken
  <2>. QED BY <1>4, <1>8, <1>9, <2>3, <2>4, <2>5, Zenon
<1>13. PassedTaken'
  <2>1. (L - 1) + 1 = L
    BY <1>3
  <2>. QED BY <1>2, <1>4, <1>12, <2>1, Zenon DEF PassedTaken
<1>. QED BY <1>2, <1>11, <1>13, Zenon DEF AppInv, Covered

\* The buttons of a row.
LEMMA AskKept == ASSUME AppInv, NEW i \in Row, TryLevel(i) \/ ConvertRow(i) PROVE AppInv' /\ Covered
<1> DEFINE Request == [row : Row, check : BOOLEAN, loop : BOOLEAN]
<1>1. PICK check \in BOOLEAN : Ask(i, check) /\ UNCHANGED <<files, added, running, pos, cut>>
  BY Zenon DEF TryLevel, ConvertRow, CheckOnly
<1>2. wire' = Append(wire, [row |-> i, check |-> check, loop |-> FALSE]) /\ status' = [status EXCEPT ![i] = "working"]
  BY <1>1, Zenon DEF Ask, Post
<1>3. [row |-> i, check |-> check, loop |-> FALSE] \in Request
  BY Zenon
<1>4. wire' \in Seq(Request)
  <2> HIDE DEF Request
  <2>1. wire \in Seq(Request)
    BY Zenon DEF AppInv, AppTypes, Request
  <2>. QED BY <1>2, <1>3, <2>1, AppendIs, Zenon
<1>5. status' \in [Row -> Status] /\ \A r \in Row : status'[r] = IF r = i THEN "working" ELSE status[r]
  <2>1. "working" \in Status /\ status \in [Row -> Status]
    BY Zenon DEF Status, AppInv, AppTypes
  <2>. QED BY <1>2, <2>1, Zenon
<1>6. AppTypes'
  BY <1>1, <1>4, <1>5, Zenon DEF AppInv, AppTypes, Row
<1>7. ASSUME ~cut, NEW k \in DOMAIN files, k < pos PROVE status'[files[k]] # "pending"
  <2>1. files[k] \in Row /\ status[files[k]] # "pending"
    BY <1>7 DEF AppInv, AppTypes, PassedTaken
  <2>. QED BY <1>5, <2>1, Zenon
<1>8. PassedTaken'
  BY <1>1, <1>7, Zenon DEF AppInv, PassedTaken
<1>. QED BY <1>1, <1>6, <1>8, Zenon DEF AppInv, Covered

\* The list is emptied between runs.
LEMMA ClearKept == ASSUME AppInv, Clear PROVE AppInv' /\ Covered
<1>1. /\ ~running /\ files' = <<>> /\ status' = [i \in Row |-> "pending"]
      /\ UNCHANGED <<wire, added, running, pos, cut>>
  BY Zenon DEF Clear, site
<1>2. pos = 1 /\ ~cut
  BY <1>1, Zenon DEF AppInv, AppTypes
<1>3. files' \in Seq(Row) /\ Len(files') = 0 /\ DOMAIN files' = {}
  BY <1>1
<1>4. status' \in [Row -> Status]
  BY <1>1, Zenon DEF Status
<1>5. AppTypes'
  BY <1>1, <1>3, <1>4, Zenon DEF AppInv, AppTypes, Row
<1>6. 1 <= 0 + 1
  OBVIOUS
<1>7. PassedTaken'
  BY <1>1, <1>2, <1>3, <1>6, Zenon DEF PassedTaken
<1>. QED BY <1>1, <1>5, <1>7, Zenon DEF AppInv, Covered

\* A tab that shows the converter page keeps the invariant; the other page has
\* no list.
AppTab == tab = "app" => AppInv

\* Either page starts so.
LEMMA AppStart == ASSUME Init PROVE AppTab
<1>1. /\ wire = <<>> /\ files = <<>> /\ added = 0 /\ status = [i \in Row |-> "pending"]
      /\ running = FALSE /\ pos = 1 /\ cut = FALSE
  BY Zenon DEF Init, SiteInit, AppInit
<1>2. status \in [Row -> Status]
  BY <1>1, Zenon DEF Status
<1>3. Len(files) = 0 /\ DOMAIN files = {} /\ files \in Seq(Row)
  BY <1>1
<1>4. wire \in Seq([row : Row, check : BOOLEAN, loop : BOOLEAN])
  BY <1>1
<1>5. AppTypes
  <2>1. 0 \in Nat /\ 1 \in Nat \ {0}
    OBVIOUS
  <2>. QED BY <1>1, <1>2, <1>3, <1>4, <2>1, Zenon DEF AppTypes
<1>6. PassedTaken
  BY <1>1, <1>3 DEF PassedTaken
<1>. QED BY <1>5, <1>6, Zenon DEF AppTab, AppInv

\* Every step of the tab keeps it, and covers the list when it ends a run.
LEMMA AppStep == ASSUME AppTab, Next PROVE AppTab' /\ Covered
<1>1. CASE OnPreflight(PreNext)
  BY <1>1, Zenon DEF OnPreflight, AppTab, Covered, app
<1>2. CASE OnApp(AppNext)
  <2>1. AppInv /\ AppNext /\ tab' = tab
    BY <1>2, Zenon DEF OnApp, AppTab
  <2>2. CASE AppState
    <3>1. UNCHANGED <<wire, files, added, status, running, pos, cut>>
      BY <2>2, Zenon DEF AppState, app
    <3>. QED BY <2>1, <3>1, Zenon DEF AppTab, AppInv, AppTypes, PassedTaken, Covered, Row
  <2>3. CASE AddFile
    BY <2>1, <2>3, AddKept, Zenon DEF AppTab
  <2>4. CASE RunAll
    BY <2>1, <2>4, RunAllKept, Zenon DEF AppTab
  <2>5. CASE RowAnswers
    BY <2>1, <2>5, AnswersKept, Zenon DEF AppTab
  <2>6. CASE Clear
    BY <2>1, <2>6, ClearKept, Zenon DEF AppTab
  <2>7. ASSUME NEW i \in Row, TryLevel(i) \/ ConvertRow(i) PROVE AppInv' /\ Covered
    BY <2>1, <2>7, AskKept, Zenon
  <2>8. ASSUME NEW i \in Row, Remove(i) PROVE AppInv' /\ Covered
    BY <2>1, <2>8, RemoveKept, Zenon
  <2>. QED BY <2>1, <2>2, <2>3, <2>4, <2>5, <2>6, <2>7, <2>8, Zenon DEF AppNext, AppTab
<1>. QED BY <1>1, <1>2, Zenon DEF Next

\* A run that ends without having lost a passed row has taken up every row of
\* the list, for every number of rows, every order of the answers and every
\* button pressed during it (runAll, convertOne, addFiles and the x of a row).
THEOREM RunsCoverList == FairSpec => RunCoversList
<1>1. Init => AppTab
  BY AppStart, Zenon
<1>2. AppTab /\ [Next]_vars => AppTab'
  <2>1. ASSUME AppTab, UNCHANGED vars PROVE AppTab'
    BY <2>1, Zenon DEF vars, site, app, AppTab, AppInv, AppTypes, PassedTaken, Row
  <2>. QED BY <2>1, AppStep, Zenon
<1>3. AppTab /\ [Next]_vars => [running /\ ~running' /\ ~cut => \A i \in Shown : status'[i] # "pending"]_<<site, app>>
  <2>1. ASSUME UNCHANGED vars PROVE UNCHANGED <<site, app>>
    BY <2>1, Zenon DEF vars
  <2>. QED BY <2>1, AppStep, Zenon DEF Covered
<1>. QED BY <1>1, <1>2, <1>3, PTL DEF FairSpec, RunCoversList

-----------------------------------------------------------------------------
\* The preflight page has at most one run on the wire, and none unless busy.
\* While no other run is queued, that run is of the file and the profile shown,
\* unless the file waits for its password.
Request == [file : Files \cup {None}, profile : Profiles \cup {None}, pw : Files \cup {None}, verify : BOOLEAN]

PreTypes ==
  /\ wire \in Seq(Request) /\ ready \in BOOLEAN /\ busy \in BOOLEAN /\ queued \in BOOLEAN
  /\ reading \subseteq Files /\ file \in Files \cup {None} /\ selected \in Profiles /\ password \in Files \cup {None}
  /\ encrypted \in BOOLEAN /\ verified \in BOOLEAN

OneRun(w, b) == \A j, k \in DOMAIN w : ~w[j].verify /\ ~w[k].verify => j = k /\ b

RunCurrent ==
  ready /\ ~queued /\ file # None /\ ~IsLocked =>
    \A k \in DOMAIN wire : ~wire[k].verify => wire[k].file = file /\ wire[k].profile = selected

NotYet == ~ready /\ ~lost => ~busy

PreInv == PreTypes /\ OneRun(wire, busy) /\ RunCurrent /\ NotYet /\ ResultsBelong

\* An answered request leaves the wire, and with it the run if it was one.
LEMMA TakenIs ==
  ASSUME NEW w \in Seq(Request), NEW b, OneRun(w, b), NEW k \in DOMAIN w
  PROVE  /\ Without(w, k) \in Seq(Request) /\ OneRun(Without(w, k), b)
         /\ ~w[k].verify => OneRun(Without(w, k), FALSE)
         /\ \A j \in DOMAIN Without(w, k) : \E m \in DOMAIN w : Without(w, k)[j] = w[m]
<1> DEFINE L == Len(w)
           u == Without(w, k)
           Old(j) == IF j < k THEN j ELSE j + 1
<1>1. L \in Nat \ {0} /\ DOMAIN w = 1..L /\ k \in 1..L
  <2>1. Len(w) \in Nat /\ DOMAIN w = 1..Len(w)
    OBVIOUS
  <2>. QED BY <2>1
<1>2. u \in Seq(Request) /\ DOMAIN u = 1..(L - 1) /\ \A j \in 1..(L - 1) : u[j] = IF j < k THEN w[j] ELSE w[j + 1]
  BY WithoutIs, Zenon
<1> HIDE DEF L, u
<1>3. \A j \in DOMAIN u : Old(j) \in DOMAIN w /\ Old(j) # k /\ u[j] = w[Old(j)]
  BY <1>1, <1>2
<1>4. \A i, j \in DOMAIN u : Old(i) = Old(j) => i = j
  BY <1>1, <1>2
<1> HIDE DEF Old
<1>5. OneRun(u, b)
  BY <1>3, <1>4, Zenon DEF OneRun
<1>6. ASSUME ~w[k].verify PROVE OneRun(u, FALSE)
  BY <1>3, <1>6, Zenon DEF OneRun
<1>7. \A j \in DOMAIN u : \E m \in DOMAIN w : u[j] = w[m]
  BY <1>3, Zenon
<1>. QED BY <1>2, <1>5, <1>6, <1>7, Zenon DEF u

\* run is called with the page as it is.
RunCalled(fl, prof, pw, isReady, isBusy, isQueued, w) ==
  /\ fl \in Files \cup {None} /\ prof \in Profiles /\ pw \in Files \cup {None}
  /\ isReady \in BOOLEAN /\ isBusy \in BOOLEAN /\ isQueued \in BOOLEAN /\ w \in Seq(Request)
  /\ file' = fl /\ selected' = prof /\ ready' = isReady /\ OneRun(w, isBusy) /\ (~isReady /\ ~lost' => ~isBusy)
  /\ Begin(fl, prof, pw, isReady, isBusy, isQueued, w)

\* Whoever calls run with the page as it is leaves it with a run of the file
\* and the profile shown, with another one queued, or with nothing to run.
LEMMA BeginKept ==
  ASSUME NEW fl, NEW prof, NEW pw, NEW isReady, NEW isBusy, NEW isQueued, NEW w,
         RunCalled(fl, prof, pw, isReady, isBusy, isQueued, w)
  PROVE  /\ wire' \in Seq(Request) /\ busy' \in BOOLEAN /\ queued' \in BOOLEAN
         /\ OneRun(wire', busy') /\ RunCurrent' /\ NotYet' /\ ResultsBelong'
<1> USE DEF RunCalled
<1>1. CASE (fl = None \/ ~isReady) /\ busy' = isBusy /\ queued' = isQueued /\ wire' = w
  BY <1>1, Zenon DEF RunCurrent, NotYet, ResultsBelong
<1>2. CASE isReady /\ isBusy /\ busy' = TRUE /\ queued' = TRUE /\ wire' = w
  <2>1. OneRun(w, TRUE)
    BY Zenon DEF OneRun
  <2>. QED BY <1>2, <2>1, Zenon DEF RunCurrent, NotYet, ResultsBelong
<1>3. CASE /\ isReady /\ ~isBusy /\ busy' = TRUE /\ queued' = isQueued
           /\ wire' = Append(w, [file |-> fl, profile |-> prof, pw |-> pw, verify |-> FALSE])
  <2> DEFINE q == [file |-> fl, profile |-> prof, pw |-> pw, verify |-> FALSE]
             L == Len(w)
  <2>1. q \in Request /\ q.file = fl /\ q.profile = prof
    BY Zenon DEF Request
  <2>2. wire' = Append(w, q)
    BY <1>3, Zenon
  <2> HIDE DEF q
  <2>3. /\ wire' \in Seq(Request) /\ L \in Nat /\ DOMAIN w = 1..L /\ DOMAIN wire' = 1..(L + 1)
        /\ wire'[L + 1] = q /\ \A j \in 1..L : wire'[j] = w[j]
    BY <2>1, <2>2, AppendIs
  <2>4. \A j \in DOMAIN wire' : j = L + 1 \/ j \in DOMAIN w
    BY <2>3
  <2>5. \A j \in DOMAIN w : w[j].verify
    BY <1>3, Zenon DEF OneRun
  <2>6. \A j \in DOMAIN wire' : ~wire'[j].verify => j = L + 1
    BY <2>3, <2>4, <2>5, Zenon
  <2>7. OneRun(wire', TRUE)
    BY <2>6, Zenon DEF OneRun
  <2>8. \A j \in DOMAIN wire' : ~wire'[j].verify => wire'[j].file = fl /\ wire'[j].profile = prof
    BY <2>1, <2>3, <2>6, Zenon
  <2>. QED BY <1>3, <2>3, <2>7, <2>8, Zenon DEF RunCurrent, NotYet, ResultsBelong
<1>. QED BY <1>1, <1>2, <1>3, Zenon DEF Begin

\* The callback of createEngine: a file picked before the engine was there is
\* run now.
LEMMA StateKept == ASSUME PreInv, FileState PROVE PreInv'
<1>1. /\ (~ready /\ ~lost /\ ready' = TRUE /\ lost' = FALSE) \/ (lost' = TRUE /\ ready' = FALSE)
      /\ Begin(file, selected, password, ready', busy, queued, wire)
      /\ UNCHANGED <<reading, file, selected, encrypted, verified, password, results>>
  BY Zenon DEF FileState, Loaded, Breaks
<1>2. PreTypes /\ OneRun(wire, busy) /\ ready' \in BOOLEAN /\ (~ready' /\ ~lost' => ~busy)
  BY <1>1, Zenon DEF PreInv
<1>3. /\ wire' \in Seq(Request) /\ busy' \in BOOLEAN /\ queued' \in BOOLEAN
      /\ OneRun(wire', busy') /\ RunCurrent' /\ NotYet' /\ ResultsBelong'
  <2>1. RunCalled(file, selected, password, ready', busy, queued, wire)
    BY <1>1, <1>2, Zenon DEF PreTypes, RunCalled
  <2>. QED BY <2>1, BeginKept, Zenon
<1>. QED BY <1>1, <1>2, <1>3, Zenon DEF PreInv, PreTypes, Request

\* Another profile is selected.
LEMMA SelectKept == ASSUME PreInv, NEW p \in Profiles, Select(p) PROVE PreInv'
<1>1. /\ selected' = p /\ Begin(file, p, password, ready, busy, queued, wire)
      /\ UNCHANGED <<ready, lost, reading, file, encrypted, verified, password, results>>
  BY Zenon DEF Select
<1>2. PreTypes /\ OneRun(wire, busy) /\ (~ready /\ ~lost' => ~busy)
  BY <1>1, Zenon DEF PreInv, NotYet
<1>3. /\ wire' \in Seq(Request) /\ busy' \in BOOLEAN /\ queued' \in BOOLEAN
      /\ OneRun(wire', busy') /\ RunCurrent' /\ NotYet' /\ ResultsBelong'
  <2>1. RunCalled(file, p, password, ready, busy, queued, wire)
    BY <1>1, <1>2, Zenon DEF PreTypes, RunCalled
  <2>. QED BY <2>1, BeginKept, Zenon
<1>. QED BY <1>1, <1>2, <1>3, Zenon DEF PreInv, PreTypes, Request

\* A button is pressed.
LEMMA ButtonKept == ASSUME PreInv, Button PROVE PreInv'
<1>1. /\ Begin(file, selected, password, ready, busy, queued, wire)
      /\ UNCHANGED <<ready, lost, reading, file, selected, encrypted, verified, password, results>>
  BY Zenon DEF Button
<1>2. PreTypes /\ OneRun(wire, busy) /\ (~ready /\ ~lost' => ~busy)
  BY <1>1, Zenon DEF PreInv, NotYet
<1>3. /\ wire' \in Seq(Request) /\ busy' \in BOOLEAN /\ queued' \in BOOLEAN
      /\ OneRun(wire', busy') /\ RunCurrent' /\ NotYet' /\ ResultsBelong'
  <2>1. RunCalled(file, selected, password, ready, busy, queued, wire)
    BY <1>1, <1>2, Zenon DEF PreTypes, RunCalled
  <2>. QED BY <2>1, BeginKept, Zenon
<1>. QED BY <1>1, <1>2, <1>3, Zenon DEF PreInv, PreTypes, Request

\* A file is picked; nothing shows it before it is read.
LEMMA PickKept == ASSUME PreInv, NEW f \in Files, Pick(f) PROVE PreInv'
<1>1. /\ reading' = reading \cup {f} /\ UNCHANGED <<ready, lost, wire>>
      /\ UNCHANGED <<file, selected, busy, queued, encrypted, verified, password, results>>
  BY Zenon DEF Pick, site
<1>2. reading' \subseteq Files
  BY <1>1, Zenon DEF PreInv, PreTypes
<1>. QED BY <1>1, <1>2, Zenon DEF PreInv, PreTypes, Request, OneRun, RunCurrent, NotYet, ResultsBelong, IsLocked, Current

\* The file is there: it waits for its password, or it is run.
LEMMA SetKept == ASSUME PreInv, NEW f \in reading, SetFile(f) PROVE PreInv'
<1>1. /\ reading' = reading \ {f} /\ file' = f /\ encrypted' = (f \in Looks) /\ verified' = FALSE /\ password' = None
      /\ results' = NoResults /\ UNCHANGED <<ready, lost, selected>>
      /\ (f \in Looks /\ UNCHANGED <<busy, queued, wire>>) \/ Begin(f, selected, None, ready, busy, queued, wire)
  BY Zenon DEF SetFile, NoBegin
<1>2. PreTypes /\ OneRun(wire, busy) /\ (~ready /\ ~lost' => ~busy) /\ f \in Files
  BY <1>1, Zenon DEF PreInv, NotYet, PreTypes
<1>3. CASE Begin(f, selected, None, ready, busy, queued, wire)
  <2>0. RunCalled(f, selected, None, ready, busy, queued, wire)
    BY <1>1, <1>2, <1>3, Zenon DEF PreTypes, RunCalled
  <2>1. /\ wire' \in Seq(Request) /\ busy' \in BOOLEAN /\ queued' \in BOOLEAN
        /\ OneRun(wire', busy') /\ RunCurrent' /\ NotYet' /\ ResultsBelong'
    BY <2>0, BeginKept, Zenon
  <2>2. encrypted' \in BOOLEAN /\ reading' \subseteq Files
    BY <1>1, <1>2 DEF PreTypes
  <2>. QED BY <1>1, <1>2, <2>1, <2>2, Zenon DEF PreInv, PreTypes, Request
<1>4. CASE f \in Looks /\ UNCHANGED <<busy, queued, wire>>
  <2>1. IsLocked'
    BY <1>1, <1>4, Zenon DEF IsLocked
  <2>2. RunCurrent' /\ ResultsBelong' /\ NotYet'
    BY <1>1, <1>4, <2>1, Zenon DEF RunCurrent, ResultsBelong, NotYet, PreInv
  <2>3. encrypted' \in BOOLEAN /\ reading' \subseteq Files
    BY <1>1, <1>2 DEF PreTypes
  <2>4. PreTypes'
    BY <1>1, <1>2, <1>4, <2>3, Zenon DEF PreTypes, Request
  <2>. QED BY <1>2, <1>4, <2>2, <2>4, Zenon DEF PreInv, OneRun
<1>. QED BY <1>1, <1>3, <1>4, Zenon

\* The file is put away, maybe with its run on the wire.
LEMMA PutAwayKept == ASSUME PreInv, ClearFile PROVE PreInv'
<1>1. /\ file' = None /\ encrypted' = FALSE /\ verified' = FALSE /\ password' = None
      /\ UNCHANGED <<ready, lost, wire, reading, selected, busy, queued>>
  BY Zenon DEF ClearFile, site
<1>. QED BY <1>1, Zenon DEF PreInv, PreTypes, Request, OneRun, RunCurrent, NotYet, ResultsBelong

\* The lock badge puts the lock back.
LEMMA RelockKept == ASSUME PreInv, Relock PROVE PreInv'
<1>1. /\ encrypted /\ verified' = FALSE
      /\ UNCHANGED <<ready, lost, wire, reading, file, selected, busy, queued, encrypted, password, results>>
  BY Zenon DEF Relock, site
<1>2. IsLocked'
  BY <1>1, Zenon DEF IsLocked
<1>. QED BY <1>1, <1>2, Zenon DEF PreInv, PreTypes, Request, OneRun, RunCurrent, NotYet, ResultsBelong

\* A password is tried: a request that is not a run.
LEMMA UnlockKept == ASSUME PreInv, NEW pw \in Files, Unlock(pw) PROVE PreInv'
<1> DEFINE q == [file |-> file, profile |-> None, pw |-> pw, verify |-> TRUE]
           L == Len(wire)
<1>1. /\ IsLocked /\ password' = pw /\ wire' = Append(wire, q)
      /\ UNCHANGED <<ready, lost, reading, file, selected, busy, queued, encrypted, verified, results>>
  BY Zenon DEF Unlock, Post
<1>2. PreTypes /\ OneRun(wire, busy) /\ wire \in Seq(Request)
  BY Zenon DEF PreInv, PreTypes
<1>3. q \in Request /\ q.verify
  BY Zenon DEF Request, PreInv, PreTypes
<1> HIDE DEF q
<1>4. /\ wire' \in Seq(Request) /\ L \in Nat /\ DOMAIN wire = 1..L /\ DOMAIN wire' = 1..(L + 1)
      /\ wire'[L + 1] = q /\ \A j \in 1..L : wire'[j] = wire[j]
  BY <1>1, <1>2, <1>3, AppendIs
<1>5. \A j \in DOMAIN wire' : j = L + 1 \/ j \in DOMAIN wire
  BY <1>4
<1>6. \A j \in DOMAIN wire' : ~wire'[j].verify => j \in DOMAIN wire /\ wire'[j] = wire[j]
  BY <1>3, <1>4, <1>5, Zenon
<1>7. OneRun(wire', busy')
  BY <1>1, <1>2, <1>6, Zenon DEF OneRun
<1>8. IsLocked'
  BY <1>1, Zenon DEF IsLocked
<1>9. PreTypes'
  BY <1>1, <1>2, <1>4, Zenon DEF PreTypes, Request
<1>. QED BY <1>1, <1>7, <1>8, <1>9, Zenon DEF PreInv, RunCurrent, NotYet, ResultsBelong

\* The engine says whether the password opens the file.
LEMMA VerifiedKept == ASSUME PreInv, NEW k \in DOMAIN wire, Verified(k) PROVE PreInv'
<1>1. /\ verified' \in {Opens(wire[k]), FALSE}
      /\ UNCHANGED <<ready, lost, reading, file, selected, encrypted, password, results>>
      /\ \/ verified' /\ Begin(file, selected, password, ready, busy, queued, Taken(k))
         \/ ~verified' /\ wire' = Taken(k) /\ UNCHANGED <<busy, queued>>
  BY Zenon DEF Verified
<1>2. PreTypes /\ OneRun(wire, busy) /\ wire \in Seq(Request) /\ (~ready /\ ~lost' => ~busy)
  BY <1>1, Zenon DEF PreInv, PreTypes, NotYet
<1>3. /\ Taken(k) \in Seq(Request) /\ OneRun(Taken(k), busy)
      /\ \A j \in DOMAIN Taken(k) : \E m \in DOMAIN wire : Taken(k)[j] = wire[m]
  BY <1>2, TakenIs, Zenon DEF Taken
<1>4. verified' \in BOOLEAN
  BY <1>1, Zenon DEF Opens
<1>5. CASE verified' /\ Begin(file, selected, password, ready, busy, queued, Taken(k))
  <2>1. RunCalled(file, selected, password, ready, busy, queued, Taken(k))
    BY <1>1, <1>2, <1>3, <1>5, Zenon DEF PreTypes, RunCalled
  <2>2. /\ wire' \in Seq(Request) /\ busy' \in BOOLEAN /\ queued' \in BOOLEAN
        /\ OneRun(wire', busy') /\ RunCurrent' /\ NotYet' /\ ResultsBelong'
    BY <2>1, BeginKept, Zenon
  <2>. QED BY <1>1, <1>2, <1>4, <2>2, Zenon DEF PreInv, PreTypes, Request
<1>6. CASE ~verified' /\ wire' = Taken(k) /\ UNCHANGED <<busy, queued>>
  <2>1. ~IsLocked' => ~IsLocked
    BY <1>1, <1>6, Zenon DEF IsLocked
  <2>2. RunCurrent'
    BY <1>1, <1>3, <1>6, <2>1, Zenon DEF PreInv, RunCurrent
  <2>3. ResultsBelong' /\ NotYet'
    BY <1>1, <1>6, <2>1, Zenon DEF PreInv, ResultsBelong, NotYet, Current
  <2>4. PreTypes'
    BY <1>1, <1>2, <1>3, <1>4, <1>6, Zenon DEF PreTypes, Request
  <2>5. OneRun(wire', busy')
    BY <1>3, <1>6, Zenon
  <2>. QED BY <2>2, <2>3, <2>4, <2>5, Zenon DEF PreInv
<1>. QED BY <1>1, <1>5, <1>6, Zenon

\* A run is answered: it is thrown away for the one that is queued, or shown,
\* and then it is of the file and the profile that are there.
LEMMA AnswerKept == ASSUME PreInv, ~lost, NEW k \in DOMAIN wire, FileAnswer(k) PROVE PreInv'
<1>1. /\ ~wire[k].verify /\ UNCHANGED <<ready, lost, reading, file, selected, password>>
      /\ \/ /\ queued /\ Begin(file, selected, password, ready, FALSE, FALSE, Taken(k))
            /\ UNCHANGED <<encrypted, verified, results>>
         \/ ~queued /\ busy' = FALSE /\ queued' = FALSE /\ wire' = Taken(k) /\ Show(wire[k])
  BY Zenon DEF FileAnswer
<1>2. PreTypes /\ OneRun(wire, busy) /\ wire \in Seq(Request)
  BY Zenon DEF PreInv, PreTypes
<1>3. busy /\ ready
  BY <1>1, <1>2, Zenon DEF PreInv, OneRun, NotYet
<1>4. Taken(k) \in Seq(Request) /\ OneRun(Taken(k), FALSE)
  BY <1>1, <1>2, TakenIs, Zenon DEF Taken
<1>5. CASE queued /\ Begin(file, selected, password, ready, FALSE, FALSE, Taken(k)) /\ UNCHANGED <<encrypted, verified, results>>
  <2>1. RunCalled(file, selected, password, ready, FALSE, FALSE, Taken(k))
    BY <1>1, <1>2, <1>4, <1>5, Zenon DEF PreTypes, RunCalled
  <2>2. /\ wire' \in Seq(Request) /\ busy' \in BOOLEAN /\ queued' \in BOOLEAN
        /\ OneRun(wire', busy') /\ RunCurrent' /\ NotYet' /\ ResultsBelong'
    BY <2>1, BeginKept, Zenon
  <2>. QED BY <1>1, <1>2, <1>5, <2>2, Zenon DEF PreInv, PreTypes, Request
<1>6. CASE ~queued /\ busy' = FALSE /\ queued' = FALSE /\ wire' = Taken(k) /\ Show(wire[k])
  <2>1. PreTypes'
    BY <1>1, <1>2, <1>4, <1>6, Zenon DEF PreTypes, Request, Show
  <2>2. OneRun(wire', busy')
    BY <1>4, <1>6, Zenon
  <2>3. \A j \in DOMAIN wire' : wire'[j].verify
    BY <1>6, <2>2, Zenon DEF OneRun
  <2>4. RunCurrent' /\ NotYet'
    BY <1>6, <2>3, Zenon DEF RunCurrent, NotYet
  <2>5. ASSUME file # None, ~IsLocked' PROVE Current'
    <3>1. results' = [file |-> wire[k].file, profile |-> wire[k].profile] /\ UNCHANGED <<encrypted, verified>>
      BY <1>6, <2>5, Zenon DEF Show, IsLocked
    <3>2. ~IsLocked
      BY <2>5, <3>1, Zenon DEF IsLocked
    <3>3. wire[k].file = file /\ wire[k].profile = selected
      BY <1>1, <1>3, <1>6, <2>5, <3>2, Zenon DEF PreInv, RunCurrent
    <3>. QED BY <1>1, <3>1, <3>3, Zenon DEF Current
  <2>6. ResultsBelong'
    BY <1>1, <2>5, Zenon DEF ResultsBelong
  <2>. QED BY <2>1, <2>2, <2>4, <2>6, Zenon DEF PreInv
<1>. QED BY <1>1, <1>5, <1>6, Zenon

\* A tab that shows the preflight page keeps the invariant; the other page has
\* no file.
PreTab == IF tab = "preflight" THEN PreInv ELSE file = None

\* Either page starts so.
LEMMA PreStart == ASSUME Init PROVE PreTab
<1>1. /\ wire = <<>> /\ ready = FALSE /\ reading = {} /\ file = None /\ selected \in Profiles /\ busy = FALSE
      /\ queued = FALSE /\ encrypted = FALSE /\ verified = FALSE /\ password = None
  BY Zenon DEF Init, SiteInit, PreInit
<1>2. wire \in Seq(Request) /\ DOMAIN wire = {}
  BY <1>1
<1>3. PreTypes
  BY <1>1, <1>2, Zenon DEF PreTypes
<1>. QED BY <1>1, <1>2, <1>3, Zenon DEF PreTab, PreInv, OneRun, RunCurrent, NotYet, ResultsBelong

\* Every step of the tab keeps it.
LEMMA PreStep == ASSUME PreTab, Next PROVE PreTab'
<1>1. CASE OnApp(AppNext)
  BY <1>1, Zenon DEF OnApp, PreTab, pre
<1>2. CASE OnPreflight(PreNext)
  <2>1. PreInv /\ PreNext /\ tab' = tab /\ tab = "preflight"
    BY <1>2, Zenon DEF OnPreflight, PreTab
  <2> SUFFICES PreInv'
    BY <2>1, Zenon DEF PreTab
  <2>2. CASE FileState
    BY <2>1, <2>2, StateKept, Zenon
  <2>3. CASE ClearFile
    BY <2>1, <2>3, PutAwayKept, Zenon
  <2>4. CASE Relock
    BY <2>1, <2>4, RelockKept, Zenon
  <2>5. CASE Button
    BY <2>1, <2>5, ButtonKept, Zenon
  <2>6. CASE FileAnswers
    <3>1. PICK k \in DOMAIN wire : ~lost /\ (Verified(k) \/ FileAnswer(k))
      BY <2>6, Zenon DEF FileAnswers, Due
    <3>. QED BY <2>1, <3>1, VerifiedKept, AnswerKept, Zenon
  <2>7. CASE Reads
    BY <2>1, <2>7, SetKept, Zenon DEF Reads
  <2>8. ASSUME NEW p \in Profiles, Select(p) PROVE PreInv'
    BY <2>1, <2>8, SelectKept, Zenon
  <2>9. ASSUME NEW f \in Files, Pick(f) \/ Unlock(f) PROVE PreInv'
    BY <2>1, <2>9, PickKept, UnlockKept, Zenon
  <2>. QED BY <2>1, <2>2, <2>3, <2>4, <2>5, <2>6, <2>7, <2>8, <2>9, Zenon DEF PreNext
<1>. QED BY <1>1, <1>2, Zenon DEF Next

\* The results the preflight page shows of an open file, with no run on its
\* way, are those of that file with the selected profile, for all files,
\* profiles and passwords and every order of reads, clicks and answers (run,
\* setFile, unlock and the callback of createEngine).
THEOREM ResultsOfCurrent == FairSpec => []ResultsBelong
<1>1. Init => PreTab
  BY PreStart, Zenon
<1>2. PreTab /\ [Next]_vars => PreTab'
  <2>1. ASSUME PreTab, UNCHANGED vars PROVE PreTab'
    BY <2>1, Zenon DEF vars, site, pre, PreTab, PreInv, PreTypes, Request, OneRun, RunCurrent, NotYet, ResultsBelong,
                       IsLocked, Current, NoResults
  <2>. QED BY <2>1, PreStep, Zenon
<1>3. PreTab => ResultsBelong
  BY Zenon DEF PreTab, PreInv, ResultsBelong
<1>. QED BY <1>1, <1>2, <1>3, PTL DEF FairSpec
=============================================================================
