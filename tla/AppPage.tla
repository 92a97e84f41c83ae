------------------------------- MODULE AppPage -------------------------------
(* The converter page, site/app.js: a list of files that can be added to and  *)
(* cut at any time, the run that goes through it with an await per file, and  *)
(* the buttons of a row that start a conversion of their own beside it.       *)
(* Passwords, levels and the invoice file are left out: they decide what the  *)
(* engine answers, which is any answer here.                                  *)
EXTENDS SiteEngine

CONSTANTS MaxRows,  \* bounds: files added,
          MaxWire   \* requests on the wire when a row's button is pressed

ASSUME RowsAssumption == MaxRows \in Nat

VARIABLES files,      \* the list, of row numbers
          added,      \* nextId
          status,     \* of each row of the list
          running,
          pos,        \* the array iterator of runAll: the index it reads next
          cut         \* history: a row the run had passed was removed during it
app == <<files, added, status, running, pos, cut>>

Row == 1..MaxRows
\* "checked" with findings and "error" with a suggested level give the row a
\* button; without, they are "plain".
Status == {"pending", "working", "done", "findings", "suggest", "plain"}

AppInit ==
  /\ files = <<>> /\ added = 0 /\ status = [i \in Row |-> "pending"]
  /\ running = FALSE /\ pos = 1 /\ cut = FALSE

Shown == {files[k] : k \in DOMAIN files}

\* addFiles pushes a file when it has been read, whatever goes on.
AddFile ==
  /\ added < MaxRows /\ added' = added + 1 /\ files' = Append(files, added')
  /\ UNCHANGED <<site, status, running, pos, cut>>

CheckOnly == BOOLEAN  \* the switch, which can be flipped between any two steps

\* convertOne up to its await
Ask(i, check) == Post([row |-> i, check |-> check, loop |-> FALSE]) /\ status' = [status EXCEPT ![i] = "working"]

\* The loop is over.
Ends(st, w) == running' = FALSE /\ pos' = 1 /\ cut' = FALSE /\ status' = st /\ wire' = w

VisitEverySecond(from, st, w) ==
  LET todo == {k \in from..Len(files) : st[files[k]] # "done"}
  IN \/ todo = {} /\ Ends(st, w)
     \/ \E k \in todo, check \in CheckOnly :
          /\ \A j \in todo : k <= j
          /\ status' = [st EXCEPT ![files[k]] = "working"] /\ pos' = k + 2
          /\ wire' = Append(w, [row |-> files[k], check |-> check, loop |-> TRUE])
          /\ running' = TRUE /\ UNCHANGED cut

\* The loop of runAll from one await to the next, or to its end.
Visit(from, st, w) ==
  LET todo == {k \in from..Len(files) : st[files[k]] # "done"}
  IN \/ todo = {} /\ Ends(st, w)
     \/ \E k \in todo, check \in CheckOnly :
          /\ \A j \in todo : k <= j
          /\ status' = [st EXCEPT ![files[k]] = "working"] /\ pos' = k + 1
          /\ wire' = Append(w, [row |-> files[k], check |-> check, loop |-> TRUE])
          /\ running' = TRUE /\ UNCHANGED cut

RunAll ==
  /\ ready /\ ~running /\ files # <<>>
  /\ Visit(1, status, wire)
  /\ UNCHANGED <<ready, lost, files, added>>

\* The buttons of a row.  They work during a run too.
TryLevel(i) ==
  /\ i \in Shown /\ status[i] = "suggest" /\ Len(wire) < MaxWire /\ (\E check \in CheckOnly : Ask(i, check))
  /\ UNCHANGED <<ready, lost, files, added, running, pos, cut>>

ConvertRow(i) ==
  /\ i \in Shown /\ status[i] = "findings" /\ Len(wire) < MaxWire /\ Ask(i, FALSE)
  /\ UNCHANGED <<ready, lost, files, added, running, pos, cut>>

\* What the row shows of an answer
Outcomes(q) == {"plain", "suggest", IF q.check THEN "findings" ELSE "done"}

RowAnswerStopsOnError(k) ==
  \E o \in Outcomes(wire[k]) :
    LET st == IF wire[k].row \in Shown THEN [status EXCEPT ![wire[k].row] = o] ELSE status
    IN /\ IF wire[k].loop /\ o # "plain" THEN Visit(pos, st, Taken(k))
          ELSE status' = st /\ wire' = Taken(k) /\ UNCHANGED <<running, pos, cut>>
       /\ UNCHANGED <<ready, lost, files, added>>

\* convertOne after its await; runAll goes on with the next file.
RowAnswer(k) ==
  \E o \in Outcomes(wire[k]) :
    LET st == IF wire[k].row \in Shown THEN [status EXCEPT ![wire[k].row] = o] ELSE status
    IN /\ IF wire[k].loop THEN Visit(pos, st, Taken(k))
          ELSE status' = st /\ wire' = Taken(k) /\ UNCHANGED <<running, pos, cut>>
       /\ UNCHANGED <<ready, lost, files, added>>

RowAnswers == ~lost /\ \E k \in Due : RowAnswer(k)
LoopAnswer == ~lost /\ \E k \in Due : wire[k].loop /\ RowAnswer(k)

\* The x of a row: splice, while the run's iterator keeps its index.  Nothing
\* looks at the row again, whatever its status says.
Remove(i) ==
  /\ \E k \in DOMAIN files :
       files[k] = i /\ files' = Without(files, k) /\ cut' = (cut \/ (running /\ k < pos))
  /\ status' = [status EXCEPT ![i] = "pending"]
  /\ UNCHANGED <<site, added, running, pos>>

Clear ==
  /\ ~running /\ files # <<>> /\ files' = <<>> /\ status' = [i \in Row |-> "pending"]
  /\ UNCHANGED <<site, added, running, pos, cut>>

AppState == (Loaded \/ Breaks) /\ UNCHANGED <<wire, app>>

AppNext ==
  \/ AppState \/ AddFile \/ RunAll \/ RowAnswers \/ Clear
  \/ \E i \in Row : TryLevel(i) \/ ConvertRow(i) \/ Remove(i)

-----------------------------------------------------------------------------
\* A run that ends has converted, checked or been refused every file that is in
\* the list by then, the ones added meanwhile included; only when a file the
\* run had passed was removed does the iterator of runAll step over another.
RunCoversList ==
  [][running /\ ~running' /\ ~cut => \A i \in Shown : status'[i] # "pending"]_<<site, app>>

\* A run ends as long as the engine answers, whatever is added, removed and
\* refused meanwhile.
RunEnds == running ~> (~running \/ lost)

\* A finished row stays finished, also when its "try" button was pressed
\* before the run that takes the row up again.
DoneAlwaysStays == [][\A i \in Row : status[i] = "done" /\ i \in Shown' => status'[i] = "done"]_<<site, app>>

\* The run converts every file that is in the list at its end.
RunCoversAll == [][running /\ ~running' => \A i \in Shown : status'[i] # "pending"]_<<site, app>>
=============================================================================
