------------------------------- MODULE JobArgs -------------------------------
(* One API request from its parameters to the engine and back: build_args and *)
(* validate_job make the engine's argument list (server/src/api.rs), the list  *)
(* travels with its files to whoever runs the job (exec.rs, coord.rs,          *)
(* worker.rs), the engine's main reads it (pdfa-engine/cli/main.cpp), and      *)
(* outcome and engine_failure turn its exit status into an HTTP answer.        *)
(*                                                                             *)
(* A parameter's key stands for its flag as well, "lang" for --lang, and the   *)
(* name of a file field for the file it is stored in.  Values are a few        *)
(* representative texts; one of them may be spelled like a flag.               *)
EXTENDS Integers, Sequences, FiniteSets, Functions

CONSTANTS BoolFlags, TextFlags, FileFields,  \* the tables, as sequences of keys
          Levels, CheckOnly,                 \* the level names
          Library,                           \* profiles of the API's machine
          FarLibrary,                        \* and of the machine that runs the job
          Arriving                           \* the requests that may arrive

VARIABLES req,   \* the request
          stage, \* how far it has come
          args,  \* the argument list
          dir,   \* the files beside the one who has the job
          cli,   \* what the engine's main made of the list
          run,   \* the RunResult
          answer \* the HTTP answer

jobVars == <<req, stage, args, dir, cli, run, answer>>

Absent == "(absent)"
Keys == Range(BoolFlags) \cup Range(TextFlags) \cup Range(FileFields)
          \cup {"level", "password", "profile", "report"}

\* Keys and flags that are in none of the tables.
Reserved == {"level", "password", "profile", "report", "check", "verify-password", "batch", "version", ""}

ASSUME TablesAssumption ==
  /\ BoolFlags \in Seq(STRING) /\ TextFlags \in Seq(STRING) /\ FileFields \in Seq(STRING)
  /\ Range(BoolFlags) \cap (Range(TextFlags) \cup Range(FileFields) \cup Reserved) = {}
  /\ Range(TextFlags) \cap (Range(FileFields) \cup Reserved) = {} /\ Range(FileFields) \cap Reserved = {}
  /\ {"rasterDpi", "imageMaxPpi"} \subseteq Range(TextFlags)
  /\ {Absent, ""} \cap (Levels \cup CheckOnly) = {}

ASSUME RequestsAssumption ==
  Arriving \subseteq [kind : {"convert", "check", "verify"}, body : {"in.pdf", "in.jpg", "other", "none"}, pw : STRING,
                     q : [Keys -> STRING], f : [Keys -> [t : {"none", "text", "file"}, v : STRING]]]

Lit(v) == [t |-> "Lit", v |-> v]
File(v) == [t |-> "File", v |-> v]
Out == [t |-> "Out", v |-> "out.pdf"]
Profile(v) == [t |-> "Profile", v |-> v]

-----------------------------------------------------------------------------
(* api.rs: from the request to the list *)

\* Lists one after the other: what the entries of a table push.
Joined(lists) ==
  LET upto[n \in 0..Len(lists)] == IF n = 0 THEN <<>> ELSE upto[n - 1] \o lists[n]
  IN upto[Len(lists)]

\* Query parameters win over text fields.
TextOf(r, k) == IF r.f[k].t = "text" THEN r.f[k].v ELSE Absent
Get(r, k) == IF r.q[k] # Absent THEN r.q[k] ELSE TextOf(r, k)

Numbers == {"5", "300", "99999"}
IsTrue(v) == v \in {"true", "1", "on"}
TextValue(v) == v \notin {"", "nul"}
NumericOnly == {"rasterDpi", "imageMaxPpi", "vtRecords"}
ValueOk(k, v) == TextValue(v) /\ (k \in NumericOnly => v \in Numbers)
PasswordOk(v) == v \notin {"", "nul"}

LevelOk(kind, l) == l \in Levels \/ (kind = "check" /\ l \in CheckOnly)

Password(r) == IF r.pw # Absent THEN r.pw ELSE TextOf(r, "password")

\* build_args gives up on the first of these.
BadArgs(r) ==
  IF ~LevelOk(r.kind, Get(r, "level")) THEN "BAD_LEVEL"
  ELSE IF \E k \in Range(TextFlags) : Get(r, k) \notin {Absent, ""} /\ ~ValueOk(k, Get(r, k))
  THEN "BAD_REQUEST"
  ELSE IF r.q["profile"] \notin {Absent, ""} \cup Library THEN "BAD_PROFILE"
  ELSE "none"

BoolArgs(r) ==
  Joined([i \in DOMAIN BoolFlags |->
    IF IsTrue(Get(r, BoolFlags[i])) THEN <<Lit(BoolFlags[i])>> ELSE <<>>])

TextArgsEmpty(r) ==
  Joined([i \in DOMAIN TextFlags |->
    LET v == Get(r, TextFlags[i]) IN
    IF v = Absent THEN <<>> ELSE IF v = "" THEN <<Lit(TextFlags[i])>>
    ELSE <<Lit(TextFlags[i]), Lit(v)>>])

TextArgs(r) ==
  Joined([i \in DOMAIN TextFlags |->
    LET v == Get(r, TextFlags[i]) IN
    IF v \in {Absent, ""} THEN <<>> ELSE <<Lit(TextFlags[i]), Lit(v)>>])

PasswordArgs(p) == IF p \in {Absent, ""} THEN <<>> ELSE <<Lit("password"), Lit(p)>>

ProfileArgs(r) ==
  IF r.q["profile"] \notin {Absent, ""} THEN <<Lit("profile"), Profile(r.q["profile"])>>
  ELSE IF r.f["profile"].t # "none" THEN <<Lit("profile"), File("profile")>>
  ELSE <<>>

FileArgs(r) ==
  Joined([i \in DOMAIN FileFields |->
    IF r.f[FileFields[i]].t # "none" THEN <<Lit(FileFields[i]), File(FileFields[i])>> ELSE <<>>])

\* The file fields of the request, stored under their names.
Stored(r) == {k \in Range(FileFields) : r.f[k].t # "none"}
               \cup (IF File("profile") \in Range(ProfileArgs(r)) THEN {"profile"} ELSE {})

BuildArgs(r) ==
  (IF r.kind = "check" THEN <<Lit("check")>> ELSE <<>>)
    \o <<Lit("level"), Lit(Get(r, "level"))>>
    \o BoolArgs(r) \o TextArgs(r) \o PasswordArgs(Password(r)) \o ProfileArgs(r) \o FileArgs(r)

\* What job() makes of a request, input and output included.
JobArgs(r) ==
  IF r.kind = "verify"
  THEN <<Lit("verify-password")>> \o PasswordArgs(r.pw) \o <<File("in.pdf")>>
  ELSE BuildArgs(r) \o <<File(r.body)>> \o (IF r.kind = "convert" THEN <<Out>> ELSE <<>>)

-----------------------------------------------------------------------------
(* api.rs: validate_job, run by the API, the coordinator and the worker *)

OperandOk(flag, a, files, lib) ==
  \/ flag \in Range(TextFlags) /\ a.t = "Lit" /\ ValueOk(flag, a.v)
  \/ flag = "password" /\ a.t = "Lit" /\ PasswordOk(a.v)
  \/ flag = "profile" /\ a.t = "Profile" /\ a.v \in lib
  \/ flag \in Range(FileFields) \cup {"profile"} /\ a = File(flag) /\ flag \in files

\* One round of the option loop at place s.i, with the flags seen so far.
OptionRound(l, s, files, lib) ==
  IF s.i = 0 \/ s.i > Len(l) \/ l[s.i].t # "Lit" THEN s
  ELSE LET flag == l[s.i].v IN
       IF flag \in s.seen THEN [s EXCEPT !.i = 0]
       ELSE IF flag \in Range(BoolFlags) THEN [i |-> s.i + 1, seen |-> s.seen \cup {flag}]
       ELSE IF s.i < Len(l) /\ OperandOk(flag, l[s.i + 1], files, lib)
       THEN [i |-> s.i + 2, seen |-> s.seen \cup {flag}]
       ELSE [s EXCEPT !.i = 0]

\* The place behind the options that start at place i, 0 if one is refused.  A
\* list has no more options than entries.
Options(l, i, files, lib) ==
  LET round[n \in 0..Len(l)] ==
        IF n = 0 THEN [i |-> i, seen |-> {}] ELSE OptionRound(l, round[n - 1], files, lib)
  IN round[Len(l)].i

ValidVerify(l, files) ==
  /\ l # <<>> /\ l[1] = Lit("verify-password")
  /\ LET rest == IF Len(l) > 2 /\ l[2] = Lit("password") /\ l[3].t = "Lit" /\ PasswordOk(l[3].v)
                 THEN SubSeq(l, 4, Len(l)) ELSE Tail(l)
     IN rest = <<File("in.pdf")>> /\ "in.pdf" \in files

ValidateJob(kind, l, files, lib) ==
  IF kind = "verify" THEN ValidVerify(l, files)
  ELSE LET o == IF kind = "check" THEN 1 ELSE 0 IN
       /\ kind = "check" => l # <<>> /\ l[1] = Lit("check")
       /\ Len(l) > o + 2 /\ l[o + 1] = Lit("level") /\ l[o + 2].t = "Lit" /\ LevelOk(kind, l[o + 2].v)
       /\ LET e == Options(l, o + 3, files, lib)
          IN /\ e > 0 /\ e <= Len(l)
             /\ l[e] \in {File("in.pdf"), File("in.jpg")} /\ l[e].v \in files
             /\ SubSeq(l, e + 1, Len(l)) = IF kind = "convert" THEN <<Out>> ELSE <<>>

-----------------------------------------------------------------------------
(* cli/main.cpp: the option loop and the checks behind it *)

NoValue == [t |-> "None", v |-> ""]
Switches == Range(BoolFlags) \cup {"check", "verify-password", "batch"}
Paths == Range(FileFields) \cup {"profile"}
Valued == Range(TextFlags) \cup Paths \cup {"level", "password"}

Atof(v) == CASE v = "5" -> 5 [] v = "300" -> 300 [] v = "99999" -> 99999 [] OTHER -> 0

\* The status the loop leaves main with at a flag and its operand, Running if
\* it goes on.
Running == 255
Leaves(flag, a, files, lib) ==
  IF flag = "level" /\ a.v \notin Levels \cup CheckOnly THEN 64
  ELSE IF flag \in Paths /\ ~(a.t = "File" /\ a.v \in files) /\ ~(a.t = "Profile" /\ a.v \in lib)
  THEN 1
  ELSE IF flag = "rasterDpi" /\ (Atof(a.v) < 24 \/ Atof(a.v) > 1200) THEN 1
  ELSE IF flag = "imageMaxPpi" /\ Atof(a.v) > 10000 THEN 64
  ELSE Running

NoCli == [opts |-> [f \in Switches \cup Valued |-> NoValue], pos |-> <<>>, exit |-> Running]

\* One round of main's loop at place s.i, with what it has made of the list.
LoopRound(l, s, files, lib) ==
  LET flag == IF l[s.i].t = "Lit" THEN l[s.i].v ELSE "" IN
  IF s.i > Len(l) \/ s.c.exit # Running THEN s
  ELSE IF flag = "version" THEN [s EXCEPT !.c.exit = 0]
  ELSE IF flag \in Switches THEN [i |-> s.i + 1, c |-> [s.c EXCEPT !.opts[flag] = Lit("on")]]
  ELSE IF flag \in Valued /\ s.i < Len(l)
  THEN IF Leaves(flag, l[s.i + 1], files, lib) # Running
       THEN [s EXCEPT !.c.exit = Leaves(flag, l[s.i + 1], files, lib)]
       ELSE [i |-> s.i + 2, c |-> [s.c EXCEPT !.opts[flag] = l[s.i + 1]]]
  ELSE [i |-> s.i + 1, c |-> [s.c EXCEPT !.pos = Append(@, l[s.i])]]

Loop(l, files, lib) ==
  LET round[n \in 0..Len(l)] ==
        IF n = 0 THEN [i |-> 1, c |-> NoCli] ELSE LoopRound(l, round[n - 1], files, lib)
  IN round[Len(l)].c

\* What main is going to do after the loop.
Mode(c) ==
  LET set(f) == c.opts[f] # NoValue IN
  CASE c.exit # Running -> "left"
    [] c.exit = Running /\ Len(c.pos) > 2 -> "usage"
    [] c.exit = Running /\ Len(c.pos) <= 2 /\ set("verify-password") ->
         IF c.pos = <<>> THEN "usage" ELSE "verify"
    [] OTHER ->
         IF (~set("level") /\ ~set("profile")) \/ c.pos = <<>> THEN "usage"
         ELSE IF Len(c.pos) = 2 /\ (set("batch") \/ set("check")) THEN "usage"
         ELSE IF set("batch") THEN "batch" ELSE IF set("check") THEN "check" ELSE "convert"

Result(code, report, pdf) == [code |-> code, report |-> report, pdf |-> pdf, timedOut |-> FALSE]
TimedOut == [code |-> -2, report |-> FALSE, pdf |-> FALSE, timedOut |-> TRUE]

\* How main may end: by its verdict, by the watchdog (3), by a signal (-2).
Endings(c) ==
  CASE Mode(c) = "left" -> {Result(c.exit, FALSE, FALSE)}
    [] Mode(c) = "usage" -> {Result(64, FALSE, FALSE)}
    [] Mode(c) = "verify" -> {Result(0, TRUE, FALSE), Result(1, TRUE, FALSE), Result(2, FALSE, FALSE)}
    [] Mode(c) = "check" -> {Result(0, TRUE, FALSE), Result(1, TRUE, FALSE), Result(2, TRUE, FALSE),
                             Result(2, FALSE, FALSE)}
    [] Mode(c) = "convert" -> {Result(0, TRUE, TRUE), Result(2, TRUE, FALSE), Result(2, FALSE, FALSE)}
    [] Mode(c) = "batch" -> {Result(x, TRUE, FALSE) : x \in 0..2}
KilledEndings == {Result(3, FALSE, FALSE), Result(-2, FALSE, FALSE), TimedOut}

-----------------------------------------------------------------------------
(* api.rs: the answer *)

Json(s) == [status |-> s, body |-> "json"]
NoAnswer == [status |-> 0, body |-> "none"]
NoRun == Result(-3, FALSE, FALSE)

EngineFailure(r) ==
  IF r.timedOut \/ r.code = 3 THEN Json(504)
  ELSE IF r.code = 2 /\ r.report THEN Json(422)
  ELSE IF r.code = 64 THEN Json(400)
  ELSE Json(500)

OutcomeNoReport(kind, r) ==
  IF kind # "convert" /\ r.code \in {0, 1} THEN Json(200)
  ELSE IF kind = "convert" /\ r.code = 0 THEN [status |-> 200, body |-> "pdf"]
  ELSE EngineFailure(r)

Outcome(kind, r) ==
  IF kind = "convert" /\ r.code = 0 THEN [status |-> 200, body |-> "pdf"]
  ELSE IF kind = "check" /\ r.code \in {0, 1}
  THEN IF r.report THEN Json(200) ELSE EngineFailure([r EXCEPT !.code = -1])
  ELSE IF kind = "verify" /\ r.code \in {0, 1} THEN Json(200)
  ELSE EngineFailure(r)

Respond(kind, r, reportJson) ==
  LET o == Outcome(kind, r) IN
  IF o.body # "pdf" THEN o
  ELSE IF ~r.pdf THEN Json(500)
  ELSE IF reportJson THEN Json(200) ELSE o

-----------------------------------------------------------------------------
JobInit ==
  /\ req \in Arriving
  /\ stage = "arrived" /\ args = <<>> /\ dir = {} /\ cli = NoCli /\ run = NoRun /\ answer = NoAnswer

Reply(a) == stage' = "answered" /\ answer' = a

\* job: the early returns before there is a list
Reject ==
  /\ stage = "arrived" /\ req.kind # "verify"
  /\ req.body \in {"none", "other"} \/ BadArgs(req) # "none"
  /\ Reply(Json(400))
  /\ UNCHANGED <<req, args, dir, cli, run>>

\* job: the request or one of its files cannot be read, stored or renamed
DiskFails ==
  /\ stage = "arrived"
  /\ Reply(Json(500))
  /\ UNCHANGED <<req, args, dir, cli, run>>

Prepare ==
  /\ stage = "arrived"
  /\ req.kind = "verify" \/ (req.body \in {"in.pdf", "in.jpg"} /\ BadArgs(req) = "none")
  /\ args' = JobArgs(req)
  /\ dir' = IF req.kind = "verify" THEN {"in.pdf"} ELSE Stored(req) \cup {req.body}
  /\ IF ValidateJob(req.kind, args', dir', Library)
     THEN stage' = "accepted" /\ UNCHANGED answer
     ELSE Reply(Json(400))
  /\ UNCHANGED <<req, cli, run>>

InputFilesNoProfile(l) == {l[i].v : i \in {j \in DOMAIN l : j > 1 /\ l[j].t = "File" /\ l[j - 1] # Lit("profile")}}

InputFiles(l) == {l[i].v : i \in {j \in DOMAIN l : l[j].t = "File"}}

\* App::run with Exec::Local
RunHere ==
  /\ stage = "accepted" /\ stage' = "starts"
  /\ cli' = Loop(args, dir, Library)
  /\ UNCHANGED <<req, args, dir, run, answer>>

\* App::run with Exec::Queue: submit moves the directory
Enqueue ==
  /\ stage = "accepted" /\ stage' = "queued"
  /\ UNCHANGED <<req, args, dir, cli, run, answer>>

\* remote_run up to the coordinator's answer
SubmitFar ==
  /\ stage = "accepted"
  /\ dir' = dir \cap InputFiles(args)
  /\ IF ValidateJob(req.kind, args, dir', FarLibrary)
     THEN stage' = "queued" /\ UNCHANGED answer
     ELSE Reply(Json(500))
  /\ UNCHANGED <<req, args, cli, run>>

\* the lease carries the list and its input files; run_checked
WorkerStarts ==
  /\ stage = "queued"
  /\ dir' = dir \cap InputFiles(args)
  /\ IF ValidateJob(req.kind, args, dir', FarLibrary)
     THEN stage' = "starts" /\ cli' = Loop(args, dir', FarLibrary) /\ UNCHANGED run
     ELSE stage' = "ran" /\ run' = Result(64, FALSE, FALSE) /\ UNCHANGED cli
  /\ UNCHANGED <<req, args, answer>>

\* run_kura
EngineEnds ==
  /\ stage = "starts" /\ stage' = "ran"
  /\ run' \in Endings(cli) \cup KilledEndings
  /\ UNCHANGED <<req, args, dir, cli, answer>>

Answer ==
  /\ stage = "ran"
  /\ Reply(Respond(req.kind, run, req.q["report"] = "json"))
  /\ UNCHANGED <<req, args, dir, cli, run>>

Done == stage = "answered" /\ UNCHANGED jobVars

JobNext ==
  \/ Reject \/ DiskFails \/ Prepare \/ RunHere \/ Enqueue \/ SubmitFar
  \/ WorkerStarts \/ EngineEnds \/ Answer \/ Done

JobSpec == JobInit /\ [][JobNext]_jobVars

-----------------------------------------------------------------------------
Started == stage \in {"starts", "ran", "answered"} /\ cli # NoCli

\* What the documentation promises the engine is asked for: every option of
\* the request, the query's before the form's, and nothing else.
Wanted(r) ==
  [f \in Switches \cup Valued |->
    LET given == IF r.kind = "verify" \/ f \notin Keys THEN Absent ELSE Get(r, f) IN
    CASE f = "check" -> IF r.kind = "check" THEN Lit("on") ELSE NoValue
      [] f = "verify-password" -> IF r.kind = "verify" THEN Lit("on") ELSE NoValue
      [] f = "batch" -> NoValue
      [] f = "password" -> LET p == IF r.kind = "verify" THEN r.pw ELSE Password(r)
                           IN IF p \in {Absent, ""} THEN NoValue ELSE Lit(p)
      [] f \in Range(BoolFlags) -> IF IsTrue(given) THEN Lit("on") ELSE NoValue
      [] f \in Range(TextFlags) \cup {"level"} -> IF given \in {Absent, ""} THEN NoValue ELSE Lit(given)
      [] f = "profile" -> IF r.kind = "verify" THEN NoValue
                          ELSE IF r.q[f] \notin {Absent, ""} THEN Profile(r.q[f])
                          ELSE IF r.f[f].t # "none" THEN File(f) ELSE NoValue
      [] OTHER -> IF r.kind # "verify" /\ r.f[f].t # "none" THEN File(f) ELSE NoValue]

\* The engine reads from its argument list exactly the options of the request,
\* its document and its output, wherever the job runs and even when a value is
\* spelled like a flag (build_args against main's option loop).  Only a loop
\* that leaves main early has read less.
EngineSeesRequest ==
  Started /\ cli.exit = Running =>
    /\ cli.opts = Wanted(req)
    /\ cli.pos = (IF req.kind = "verify" THEN <<File("in.pdf")>> ELSE <<File(req.body)>>)
                   \o (IF req.kind = "convert" THEN <<Out>> ELSE <<>>)

\* A number main's own range check refuses although validate_job let it pass.
OutOfRange(r) ==
  \E f \in {"rasterDpi", "imageMaxPpi"} : Leaves(f, Lit(Get(r, f)), {}, {}) # Running /\ Get(r, f) \notin {Absent, ""}

\* A list the API accepted is never refused later: validate_job accepts it at
\* the coordinator and at the worker with the files that travelled, and main
\* finds every file the list names and starts what was asked for, the range of
\* a number apart.
AcceptedEverywhere ==
  /\ args # <<>> /\ answer.status = 500 => run # NoRun
  /\ stage = "ran" => cli # NoCli
  /\ Started => Mode(cli) = req.kind \/ OutOfRange(req)

\* 200 is answered only when the engine ran what was asked for and reported on
\* it, and with the PDF when one was asked for (outcome, respond).
AnswerFromVerdict ==
  answer.status = 200 => Mode(cli) = req.kind /\ run.report /\ run.pdf = (req.kind = "convert")

\* docs/http-api.md: a malformed option is answered 400, so 500 is left for
\* faults of the machine: the disk, or an engine that died or could not read or write.
OnlyFaultsAre500 ==
  answer.status = 500 => run = NoRun \/ run \in KilledEndings \/ run.code = 2

\* docs/http-api.md:70: "Any query parameter may also be sent as a text field."
ReportFieldHonoured ==
  answer.status = 200 /\ Get(req, "report") = "json" => answer.body = "json"
=============================================================================
