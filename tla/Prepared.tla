------------------------------- MODULE Prepared -------------------------------
(* One document after another through runOne (pdfa-engine/cli/main.cpp),      *)
(* convert and runPrepared (pdfa-engine/core/src/jobs.cpp): the settings of a *)
(* profile's convert section merged in, the second tries a conversion gets    *)
(* when its result does not pass the checker, the cutting of a check's        *)
(* findings to the first one or to a page range, the last check of            *)
(* --only-pdfa, the output file, the certificate and the exit status.  The    *)
(* conversions themselves are those of module Convert.                        *)
EXTENDS Convert

CONSTANT Jobs  \* the calls: their options, and the convert section of their profile

Opt ==
  [verifyOnly : BOOLEAN, fam : {"A", "X"}, dualPart : BOOLEAN, dual : BOOLEAN, ua : BOOLEAN, checkLevel : BOOLEAN,
   sign : BOOLEAN, rasterizer : BOOLEAN, raster : BOOLEAN, levelFromProfile : BOOLEAN, reconvert : BOOLEAN,
   dpi : BOOLEAN, quick : BOOLEAN, range : BOOLEAN, onlyPdfa : BOOLEAN, certify : BOOLEAN]
Prof == [given : BOOLEAN, level : {"none", "A", "X"}, also : BOOLEAN, reconvert : BOOLEAN, rasterFallback : BOOLEAN]

ASSUME JobsAssumption == Jobs \subseteq [opt : Opt, prof : Prof]

VARIABLES depth,  \* thread_local jobDepth
          job,    \* the call
          opt,    \* its options, the profile's merged in
          pc,     \* the next step, or the call of convertOnce that is awaited
          r,      \* the Result
          again,  \* r2, the result of a second conversion
          check,  \* the checker's last verdict, and of which try's file
          disk,   \* the output file; "torn" when it was not written whole
          exit,   \* runOne's exit status
          found,  \* what a check found before its findings were cut
          refused \* the errors of the runs so far

call == <<job, opt, pc, r, again, check, disk, exit, found, refused>>
vars == <<engine, depth, call>>

Page == {1, 2}
InRange(p) == p = 1  \* the page range, when one is given, is page 1

NoResult == [ok |-> FALSE, pdf |-> NoFile, compliant |-> FALSE, issues |-> <<>>, level |-> {}]
NoCheck == [of |-> "none", compliant |-> FALSE]
NoExit == 255

Init ==
  /\ EngineInit /\ depth = 0
  /\ job = <<>> /\ opt = <<>> /\ pc = "idle" /\ r = NoResult /\ again = NoResult /\ check = NoCheck
  /\ disk = NoFile /\ exit = NoExit /\ found = <<>> /\ refused = {}

Core(x) == [ok |-> x.ok, pdf |-> x.pdf, compliant |-> x.compliant, issues |-> x.issues, level |-> x.level]
Awaited(p) == pc = p /\ ret.on /\ ~ret.thrown
Learn == refused' = IF ret.ok THEN refused ELSE refused \cup {ret.err}

-----------------------------------------------------------------------------
\* applyConvert; the profile's level counts only when none was asked for
Merged(o, p) ==
  [o EXCEPT
     !.fam = IF o.levelFromProfile /\ p.level \in {"A", "X"} THEN p.level ELSE @,
     !.dual = @ \/ p.also,
     !.reconvert = @ \/ p.reconvert,
     !.dpi = @ \/ p.rasterFallback]

\* runOne, convert with jobDepth 0, and runPrepared up to its first convertOnce
Start(j) ==
  /\ pc = "idle" /\ pc' = "first" /\ job' = j /\ depth' = depth + 1
  /\ opt' = IF j.prof.given THEN Merged(j.opt, j.prof) ELSE j.opt
  /\ Begin("first", opt', Input)
  /\ UNCHANGED <<r, again, check, disk, exit, found, refused>>

\* runOne for a file that cannot be opened
CannotOpen(j) ==
  /\ pc = "idle" /\ pc' = "done" /\ job' = j /\ opt' = j.opt /\ exit' = 2
  /\ UNCHANGED <<engine, depth, r, again, check, disk, found, refused>>

WantsFallback == ~opt.verifyOnly /\ (opt.reconvert \/ opt.dpi) /\ opt.fam = "A"
\* verifyBytes: no rasterizer, whatever pages the options ask to be images
CheckOf(o) == [o EXCEPT !.verifyOnly = TRUE, !.sign = FALSE, !.rasterizer = FALSE]

First ==
  /\ Awaited("first") /\ r' = Core(ret) /\ Learn
  /\ found' = IF opt.verifyOnly THEN ret.issues ELSE <<>>
  /\ IF WantsFallback /\ ret.ok
     THEN pc' = "check1" /\ Begin("check", CheckOf(opt), ret.pdf)
     ELSE /\ pc' = (IF WantsFallback THEN "fallback" ELSE "trim")
          /\ ret' = NoRet /\ UNCHANGED <<inDual, outer, f>>
  /\ UNCHANGED <<depth, job, opt, again, check, disk, exit>>

VerdictOn(name) == [of |-> name, compliant |-> ret.compliant]

Check1AlwaysAgain ==
  /\ Awaited("check1") /\ check' = VerdictOn("first") /\ Learn
  /\ pc' = "fallback"
  /\ ret' = NoRet /\ UNCHANGED <<inDual, outer, f, depth, job, opt, r, again, disk, exit, found>>

Check1 ==
  /\ Awaited("check1") /\ check' = VerdictOn("first") /\ Learn
  /\ pc' = IF ret.compliant THEN "trim" ELSE "fallback"
  /\ ret' = NoRet /\ UNCHANGED <<inDual, outer, f, depth, job, opt, r, again, disk, exit, found>>

ReconvertUnsigned ==
  /\ pc = "fallback" /\ opt.reconvert /\ r.ok
  /\ pc' = "second" /\ Begin("second", [opt EXCEPT !.sign = FALSE], r.pdf)
  /\ UNCHANGED <<depth, job, opt, r, again, check, disk, exit, found, refused>>

Reconvert ==
  /\ pc = "fallback" /\ opt.reconvert /\ r.ok
  /\ pc' = "second" /\ Begin("second", opt, r.pdf)
  /\ UNCHANGED <<depth, job, opt, r, again, check, disk, exit, found, refused>>

NoReconvert ==
  /\ pc = "fallback" /\ ~(opt.reconvert /\ r.ok) /\ pc' = "raster"
  /\ UNCHANGED <<engine, depth, job, opt, r, again, check, disk, exit, found, refused>>

Second ==
  /\ Awaited("second") /\ again' = Core(ret) /\ Learn
  /\ IF ret.ok THEN pc' = "check2" /\ Begin("check", CheckOf(opt), ret.pdf)
     ELSE pc' = "raster" /\ ret' = NoRet /\ UNCHANGED <<inDual, outer, f>>
  /\ UNCHANGED <<depth, job, opt, r, check, disk, exit, found>>

Check2 ==
  /\ Awaited("check2") /\ check' = VerdictOn("second") /\ Learn
  /\ IF ret.compliant THEN r' = again /\ pc' = "trim" ELSE r' = r /\ pc' = "raster"
  /\ ret' = NoRet /\ UNCHANGED <<inDual, outer, f, depth, job, opt, again, disk, exit, found>>

\* From the input once more.  Whether the pages the checker named or all of
\* them become images changes the file, not the course.
Raster ==
  /\ pc = "raster" /\ opt.dpi /\ opt.rasterizer
  /\ pc' = "image" /\ Begin("raster", [opt EXCEPT !.raster = TRUE], Input)
  /\ UNCHANGED <<depth, job, opt, r, again, check, disk, exit, found, refused>>

NoRaster ==
  /\ pc = "raster" /\ ~(opt.dpi /\ opt.rasterizer) /\ pc' = "trim"
  /\ UNCHANGED <<engine, depth, job, opt, r, again, check, disk, exit, found, refused>>

ImageTakesAll ==
  /\ Awaited("image") /\ r' = Core(ret) /\ Learn /\ pc' = "trim"
  /\ ret' = NoRet /\ UNCHANGED <<inDual, outer, f, depth, job, opt, again, check, disk, exit, found>>

\* Taken without another check.
Image ==
  /\ Awaited("image") /\ r' = (IF ret.ok THEN Core(ret) ELSE r) /\ Learn /\ pc' = "trim"
  /\ ret' = NoRet /\ UNCHANGED <<inDual, outer, f, depth, job, opt, again, check, disk, exit, found>>

-----------------------------------------------------------------------------
\* quickCheck keeps the first finding alone
Quick(s) == IF NoFinding(s) THEN s ELSE <<SelectSeq(s, Finding)[1]>>

\* filterRange: issues without pages stay, the others lose the pages outside
Asked(i) == i.pages = {} \/ \E p \in i.pages : InRange(p)
FilterRange(s) ==
  LET kept[n \in 0..Len(s)] ==
        IF n = 0 THEN <<>>
        ELSE IF Asked(s[n]) THEN Append(kept[n - 1], [s[n] EXCEPT !.pages = {p \in @ : InRange(p)}]) ELSE kept[n - 1]
  IN kept[Len(s)]

TrimKeepsVerdict ==
  /\ pc = "trim" /\ pc' = "only" /\ depth' = depth - 1
  /\ LET a == IF opt.quick /\ opt.verifyOnly THEN Quick(r.issues) ELSE r.issues
         b == IF opt.range THEN FilterRange(a) ELSE a
     IN r' = [r EXCEPT !.issues = b]
  /\ UNCHANGED <<engine, job, opt, again, check, disk, exit, found, refused>>

\* The end of runPrepared and of convert.
Trim ==
  /\ pc = "trim" /\ pc' = "only" /\ depth' = depth - 1
  /\ LET a == IF opt.quick /\ opt.verifyOnly THEN Quick(r.issues) ELSE r.issues
         b == IF opt.range THEN FilterRange(a) ELSE a
     IN r' = [r EXCEPT !.issues = b,
                       !.compliant = IF opt.range /\ opt.verifyOnly /\ r.ok THEN NoFinding(b) ELSE @]
  /\ UNCHANGED <<engine, job, opt, again, check, disk, exit, found, refused>>

\* --only-pdfa: convert once more, to check the result with options of its own
PlainCheck(o) ==
  [o EXCEPT !.verifyOnly = TRUE, !.sign = FALSE, !.rasterizer = FALSE, !.raster = FALSE, !.ua = FALSE, !.dual = FALSE]

OnlyPdfa ==
  /\ pc = "only"
  /\ IF opt.onlyPdfa /\ r.ok /\ ~opt.verifyOnly /\ opt.fam = "A"
     THEN pc' = "recheck" /\ depth' = depth + 1 /\ Begin("check", PlainCheck(opt), r.pdf)
     ELSE pc' = "write" /\ UNCHANGED <<depth, engine>>
  /\ UNCHANGED <<job, opt, r, again, check, disk, exit, found, refused>>

Recheck ==
  /\ Awaited("recheck") /\ pc' = "write" /\ depth' = depth - 1
  /\ r' = IF ret.compliant THEN r ELSE [r EXCEPT !.ok = FALSE, !.pdf = NoFile]
  /\ ret' = NoRet /\ UNCHANGED <<inDual, outer, f, job, opt, again, check, disk, exit, found, refused>>

\* The output file, if it can be opened; the outcome of out.write is not looked
\* at, and the disk may be full.
Write ==
  /\ pc = "write"
  /\ \/ /\ pc' = "certify" /\ UNCHANGED exit
        /\ IF r.ok /\ ~opt.verifyOnly
           THEN disk' \in {r.pdf, [r.pdf EXCEPT !.try = "torn"]}
           ELSE UNCHANGED disk
     \/ r.ok /\ ~opt.verifyOnly /\ pc' = "done" /\ exit' = 2 /\ UNCHANGED disk
  /\ UNCHANGED <<engine, depth, job, opt, r, again, check, found, refused>>

Exit == IF ~r.ok THEN 2 ELSE IF opt.verifyOnly /\ ~r.compliant THEN 1 ELSE 0

\* --certify: the tool checks the output and writes it anew with a certificate
\* in it, or fails and leaves it alone; then the report and the exit status.
Certify ==
  /\ pc = "certify" /\ pc' = "done" /\ exit' = Exit
  /\ \/ UNCHANGED disk
     \/ opt.certify /\ r.ok /\ ~opt.verifyOnly /\ disk' = [disk EXCEPT !.signed = FALSE]
  /\ UNCHANGED <<engine, depth, job, opt, r, again, check, found, refused>>

Fresh ==
  /\ pc' = "idle" /\ job' = <<>> /\ opt' = <<>> /\ r' = NoResult /\ again' = NoResult /\ check' = NoCheck
  /\ disk' = NoFile /\ exit' = NoExit /\ found' = <<>> /\ refused' = {}

\* The next document of a batch, or the next call of the library.
Again == pc = "done" /\ Fresh /\ UNCHANGED <<engine, depth>>

\* convert passes an exception on, its own depth restored.
Rethrow ==
  /\ ret.on /\ ret.thrown /\ ret' = NoRet /\ depth' = depth - 1 /\ Fresh
  /\ UNCHANGED <<inDual, outer, f>>

Run == Engine /\ UNCHANGED <<depth, call>>
Next ==
  \/ Run \/ (\E j \in Jobs : Start(j) \/ CannotOpen(j))
  \/ First \/ Check1 \/ Reconvert \/ NoReconvert \/ Second \/ Check2 \/ Raster \/ NoRaster \/ Image \/ Trim
  \/ OnlyPdfa \/ Recheck \/ Write \/ Certify \/ Again \/ Rethrow

Spec == Init /\ [][Next]_vars

-----------------------------------------------------------------------------
Ends == pc = "done" /\ ~opt.verifyOnly

\* The file the checker has just passed is the file the caller gets: no later
\* try replaces it (the good flag of runPrepared's fallbacks).
GoodIsFinal == [][check.compliant /\ check.of = r.pdf.try /\ pc # "done" /\ pc' # "idle" => r'.pdf \in {r.pdf, NoFile}]_vars

\* A try that is refused never costs the result of an earlier one (the r2.ok
\* and r3.ok tests); only the last check of --only-pdfa takes a result away.
TriesOnlyGain == [][r.ok /\ pc' \notin {"idle", "write"} => r'.ok]_vars

\* What the caller asked to be told of: a finding on a page of the range, if one
\* is given, or one that names no page.
AskedFinding(s) == \E i \in DOMAIN s : Finding(s[i]) /\ (opt.range => s[i].pages = {} \/ \E p \in s[i].pages : InRange(p))

\* main.cpp's usage text: "exit status: 0 ok, 1 check found findings".  A check
\* exits 1 exactly when the document has a finding on the pages it was asked
\* about, or one that names no page.
ExitTellsFindings == pc = "done" /\ opt.verifyOnly /\ r.ok => exit = IF AskedFinding(found) THEN 1 ELSE 0

\* A conversion that exits 0 has written a file with everything that was asked
\* for, whichever try it came from: both standards, as the report has it, and
\* the signature.
OutputAsAsked ==
  Ends /\ exit = 0 =>
    /\ disk.std = IF WantsDual(opt) THEN {"A", "X"} ELSE {opt.fam}
    /\ r.level = disk.std
    /\ opt.sign /\ ~opt.certify => disk.signed

\* Every call is handled alike, whatever came of the calls before it in the
\* thread: no flag of theirs is left, also after an exception.
CallsIndependent == pc = "idle" => depth = 0 /\ ~inDual

\* docs/preflight.md:171: "`reconvert` runs the conversion once more on the
\* result when it is not yet compliant."
ReconvertsWhenAsked ==
  Ends /\ r.ok /\ opt.reconvert /\ r.pdf.try = "first" => check.of # "none"

\* docs/cli.md:120: "`--sign <cert.p12>` applies a PKCS#7 detached signature
\* over the whole file in the same pass, so the signed output is still conformant."
SignedOutput == Ends /\ exit = 0 /\ opt.sign => disk.signed

\* core/src/pages.cpp:1391: "--rasterize-pages needs a renderer; this build has
\* none linked in".  So a build that has one never says so.
RendererFound == pc = "done" /\ "RASTERIZER_UNAVAILABLE" \in refused => ~job.opt.rasterizer

\* README.md:150: "Exit status is 0 on success".
ExitZeroHasFile == Ends /\ exit = 0 => disk.try # "torn"
=============================================================================
