---------------------------- MODULE PreparedProofs ----------------------------
(* What runOne, convert, runPrepared and convertOnce keep for every set of    *)
(* calls, however many documents follow one another and whatever the passes   *)
(* make of them.                                                              *)
EXTENDS Prepared, Plan, WellFoundedInduction, TLAPS

Tries == {"none", "input", "first", "second", "raster", "check", "torn"}
File == [try : Tries, std : SUBSET {"A", "X"}, signed : BOOLEAN]
Stages == {"open", "early", "pages", "middle", "placeholder", "late", "serialize", "sign", "verdict", "return"}

\* The calls of convertOnce that are awaited; the first three convert.
Converting == {"first", "second", "image"}
Waits == Converting \cup {"check1", "check2", "recheck"}
Outside == {"idle", "only", "write", "certify", "done"}
Steps == Waits \cup Outside \cup {"fallback", "raster", "trim"}

Frames(x) ==
  [at : Stages, name : Tries, opt : Opt, src : File, err : {x.err}, issues : {x.issues}, placed : {x.placed}, pdf : File]
Outers == [stage : {"first", "second"}, opt : Opt, name : Tries]
Rets(x) ==
  [on : {TRUE}, thrown : {FALSE}, ok : BOOLEAN, err : {x.err}, pdf : File, compliant : {x.compliant},
   issues : {x.issues}, level : SUBSET {"A", "X"}]
Results(x) == [ok : BOOLEAN, pdf : File, compliant : {x.compliant}, issues : {x.issues}, level : SUBSET {"A", "X"}]

\* The two flags of the thread say what is on the stack: jobDepth a convert,
\* inDualPass a convertOnce that runs two conversions.
EngineTypes ==
  /\ f = NoRun \/ f \in Frames(f)
  /\ outer = NoOuter \/ outer \in Outers
  /\ ret = NoRet \/ ret = Thrown \/ ret \in Rets(ret)
  /\ inDual = (outer # NoOuter)
  /\ outer # NoOuter => f # NoRun
  /\ f = NoRun \/ ret = NoRet

CallTypes ==
  /\ pc \in Steps
  /\ pc \in Waits <=> (f # NoRun \/ ret # NoRet)
  /\ depth = IF pc \in Outside THEN 0 ELSE 1
  /\ r \in Results(r) /\ again \in Results(again)
  /\ disk \in File
  /\ pc # "idle" => opt \in Opt

CallOpt == IF pc = "image" THEN [opt EXCEPT !.raster = TRUE] ELSE opt
FullStd(o) == IF WantsDual(o) THEN {"A", "X"} ELSE {o.fam}

\* The conversion at work is the one that was asked for, or one of its two.
Working ==
  pc \in Converting /\ f # NoRun =>
    \/ outer = NoOuter /\ f.opt = CallOpt /\ ~WantsDual(CallOpt)
    \/ /\ outer # NoOuter /\ outer.opt = CallOpt /\ WantsDual(CallOpt)
       /\ \/ outer.stage = "first" /\ f.opt = DualX(CallOpt)
          \/ outer.stage = "second" /\ f.opt = DualA(CallOpt) /\ f.src.std = {"X"}

\* A conversion that has come to its end without an error has its file.
Made ==
  f # NoRun /\ ~f.opt.verifyOnly =>
    /\ f.at = "sign" => f.pdf.std = Standards
    /\ f.at \in {"verdict", "return"} /\ f.err = "" => f.pdf.std = Standards /\ (f.opt.sign => f.pdf.signed)

\* x is the result of a conversion with all that was asked for, or refused.
Good(x) ==
  x.ok /\ ~opt.verifyOnly =>
    x.pdf.std = FullStd(opt) /\ x.level = FullStd(opt) /\ (opt.sign => x.pdf.signed)

Kept ==
  /\ pc \in Converting /\ ret # NoRet /\ ret # Thrown => Good(ret)
  /\ Good(r)
  /\ pc = "check2" => Good(again)
  /\ pc = "idle" => ~r.ok

\* A call that was not given up for a file it cannot open has its output.
Written ==
  pc = "certify" \/ (pc = "done" /\ exit # 2) =>
    /\ r.ok /\ ~opt.verifyOnly => disk.std = r.pdf.std /\ (opt.certify \/ disk.signed = r.pdf.signed)
    /\ pc = "done" => exit = Exit

EInv == EngineTypes /\ Working /\ Made
CInv == CallTypes /\ Kept /\ Written
PInv == EInv /\ CInv

-----------------------------------------------------------------------------
\* What DualX and DualA change of the options of a conversion.
LEMMA DualOpts ==
  ASSUME NEW o \in Opt
  PROVE  /\ DualX(o) \in Opt /\ DualX(o).fam = "X" /\ DualX(o).sign = FALSE /\ DualX(o).verifyOnly = o.verifyOnly
         /\ DualA(o) \in Opt /\ DualA(o).fam = o.fam /\ DualA(o).sign = o.sign /\ DualA(o).verifyOnly = o.verifyOnly
         /\ DualA(o).dual = o.dual /\ DualA(o).dualPart = o.dualPart
BY Zenon DEF Opt, DualX, DualA

\* The options of the checks and of the try with images.
LEMMA OtherOpts ==
  ASSUME NEW o \in Opt
  PROVE  /\ CheckOf(o) \in Opt /\ PlainCheck(o) \in Opt
         /\ [o EXCEPT !.raster = TRUE] \in Opt
         /\ FullStd([o EXCEPT !.raster = TRUE]) = FullStd(o)
         /\ [o EXCEPT !.raster = TRUE].sign = o.sign
         /\ [o EXCEPT !.raster = TRUE].verifyOnly = o.verifyOnly
BY DEF Opt, CheckOf, PlainCheck, FullStd, WantsDual

\* The options of a call, the profile's merged in.
LEMMA MergedOpt ==
  ASSUME NEW o \in Opt, NEW p \in Prof
  PROVE  Merged(o, p) \in Opt
<1>1. (IF o.levelFromProfile /\ p.level \in {"A", "X"} THEN p.level ELSE o.fam) \in {"A", "X"}
  BY Zenon DEF Opt, Prof
<1>2. (o.dual \/ p.also) \in BOOLEAN /\ (o.reconvert \/ p.reconvert) \in BOOLEAN /\ (o.dpi \/ p.rasterFallback) \in BOOLEAN
  BY Zenon
<1>3. ASSUME NEW a \in {"A", "X"}, NEW b \in BOOLEAN, NEW c \in BOOLEAN, NEW d \in BOOLEAN
      PROVE  [o EXCEPT !.fam = a, !.dual = b, !.reconvert = c, !.dpi = d] \in Opt
  BY Zenon DEF Opt
<1> QED BY <1>1, <1>2, <1>3, Zenon DEF Merged

\* A profile's convert section cuts no findings.
LEMMA MergedCut ==
  ASSUME NEW o \in Opt, NEW p
  PROVE  Merged(o, p).quick = o.quick /\ Merged(o, p).range = o.range
<1>1. PICK a, b, c, d : Merged(o, p) = [o EXCEPT !.fam = a, !.dual = b, !.reconvert = c, !.dpi = d]
  BY Zenon DEF Merged
<1> QED BY <1>1, Zenon DEF Opt

\* A call of convertOnce begins with the options it is given, or with those of
\* the first of two conversions.
LEMMA Began ==
  ASSUME NEW n \in Tries, NEW o \in Opt, NEW s \in File, outer = NoOuter, inDual = FALSE, Begin(n, o, s)
  PROVE  /\ ret' = NoRet /\ f' \in Frames(f') /\ f' # NoRun /\ f'.at = "open"
         /\ outer' = NoOuter \/ outer' \in Outers
         /\ inDual' = (outer' # NoOuter)
         /\ \/ outer' = NoOuter /\ f'.opt = o /\ ~WantsDual(o)
            \/ /\ outer' # NoOuter /\ outer'.opt = o /\ WantsDual(o)
               /\ outer'.stage = "first" /\ f'.opt = DualX(o)
<1>1. DualX(o) \in Opt
  BY DualOpts, Zenon
<1>2. NoFile \in File
  BY Zenon DEF NoFile, File, Tries
<1>3. ASSUME NEW q \in Opt, f' = Frame(n, q, s) PROVE f' \in Frames(f') /\ f' # NoRun /\ f'.at = "open" /\ f'.opt = q
  <2>1. f' = [at |-> "open", name |-> n, opt |-> q, src |-> s, err |-> f'.err, issues |-> f'.issues, placed |-> f'.placed, pdf |-> NoFile]
    BY <1>3, Zenon DEF Frame
  <2>2. f'.at = "open" /\ f'.opt = q /\ f' # NoRun
    BY <2>1 DEF NoRun
  <2> QED BY <1>2, <2>1, <2>2 DEF Frames, Stages
<1>4. CASE WantsDual(o)
  <2>1. /\ ret' = NoRet /\ outer' = [stage |-> "first", opt |-> o, name |-> n]
        /\ f' = Frame(n, DualX(o), s) /\ inDual' = TRUE
    BY <1>4, Zenon DEF Begin
  <2>2. outer' \in Outers /\ outer' # NoOuter /\ outer'.opt = o /\ outer'.stage = "first"
    BY <2>1, Zenon DEF Outers, NoOuter
  <2> QED BY <1>1, <1>3, <1>4, <2>1, <2>2, Zenon
<1>5. CASE ~WantsDual(o)
  BY <1>3, <1>5, Zenon DEF Begin
<1> QED BY <1>4, <1>5, Zenon

\* A pass keeps the options and the source, and ends without an error only with
\* the file written and, where asked for, signed.
LEMMA PassMade ==
  ASSUME f \in Frames(f), f # NoRun, Made, Pass
  PROVE  f' \in Frames(f') /\ f' # NoRun /\ f'.opt = f.opt /\ f'.src = f.src /\ Made'
<1> DEFINE Same == f' \in Frames(f') /\ f' # NoRun /\ f'.opt = f.opt /\ f'.src = f.src /\ f'.pdf = f.pdf
<1>1. ASSUME NEW a \in Stages, Goto(a) PROVE Same /\ f'.at = a /\ f'.err = f.err
  BY <1>1, Zenon DEF Goto, Frames, NoRun, Stages
<1>2. ASSUME NEW e, NEW a \in Stages, Fatal(e, a) PROVE Same /\ f'.at = a /\ f'.err = e
  BY <1>2, Zenon DEF Fatal, Frames, NoRun, Stages
<1>3. ASSUME Catch PROVE Same /\ f'.at = "return" /\ f'.err # ""
  BY <1>3, Zenon DEF Catch, Frames, NoRun, Stages
<1>4. ASSUME NEW a \in Stages, Record(a) PROVE Same /\ f'.at = a /\ f'.err = f.err
  BY <1>4, Zenon DEF Record, Frames, NoRun, Stages
<1> DEFINE Concl == f' \in Frames(f') /\ f' # NoRun /\ f'.opt = f.opt /\ f'.src = f.src /\ Made'
<1>5. ASSUME Same, f'.at # "sign", f'.at \in {"verdict", "return"} => f'.err # "" \/ f.opt.verifyOnly
      PROVE  Concl
  BY <1>5, Zenon DEF Made
<1> DEFINE Inner == Stages \ {"sign", "verdict", "return"}
<1>a. ASSUME NEW a \in Inner, Goto(a) \/ Record(a) PROVE Concl
  <2>1. a \in Stages /\ a # "sign" /\ a \notin {"verdict", "return"}
    BY <1>a, Zenon
  <2>2. Same /\ f'.at = a
    BY <1>a, <1>1, <1>4, <2>1, Zenon
  <2> QED BY <2>1, <2>2, <1>5, Zenon
<1>b. ASSUME NEW e, e # "", NEW a \in Stages \ {"sign"}, Fatal(e, a) PROVE Concl
  <2>1. Same /\ f'.at = a /\ f'.err = e
    BY <1>b, <1>2, Zenon
  <2> QED BY <1>b, <2>1, <1>5, Zenon
<1>c. ASSUME Catch PROVE Concl
  <2>1. Same /\ f'.at = "return" /\ f'.err # ""
    BY <1>c, <1>3, Zenon
  <2> QED BY <2>1, <1>5, Zenon
<1>d. ASSUME Goto("verdict"), f.err # "" \/ f.opt.verifyOnly PROVE Concl
  <2>1. Same /\ f'.at = "verdict" /\ f'.err = f.err
    BY <1>d, <1>1, Zenon DEF Stages
  <2> QED BY <1>d, <2>1, <1>5, Zenon
<1>e. {"early", "pages", "middle", "placeholder", "late", "serialize"} \subseteq Inner /\ {"pages", "verdict", "return"} \subseteq Stages \ {"sign"}
  BY Zenon DEF Stages
<1> SUFFICES Concl
  BY Zenon
<1> HIDE DEF Concl, Same, Inner
<1>6. CASE Open
  BY <1>6, <1>a, <1>b, <1>c, <1>e, Zenon DEF Open
<1>7. CASE Early
  BY <1>7, <1>a, <1>b, <1>c, <1>e, Zenon DEF Early
<1>8. CASE Pages
  BY <1>8, <1>a, <1>b, <1>c, <1>d, <1>e, Zenon DEF Pages
<1>9. CASE Middle
  BY <1>9, <1>a, <1>b, <1>c, <1>e, Zenon DEF Middle
<1>10. CASE Placeholder
  <2>1. CASE f' = [f EXCEPT !.placed = Signs, !.at = "late"]
    <3>1. Same /\ f'.at = "late"
      BY <2>1, Zenon DEF Frames, NoRun, Stages, Same
    <3> QED BY <3>1, <1>5, Zenon
  <2>2. CASE Catch \/ Fatal("SIGN_NO_PAGES", "verdict")
    BY <2>2, <1>b, <1>c, <1>e, Zenon
  <2> QED BY <2>1, <2>2, <1>10, Zenon DEF Placeholder
<1>11. CASE Late
  BY <1>11, <1>a, <1>b, <1>c, <1>d, <1>e, Zenon DEF Late
<1>12. CASE Serialize
  <2>1. CASE Catch \/ Fatal("SERIALIZE_ERROR", "verdict")
    BY <2>1, <1>b, <1>c, <1>e, Zenon
  <2>2. CASE f' = [f EXCEPT !.pdf = [try |-> f.name, std |-> Standards, signed |-> FALSE],
                            !.at = IF Signs THEN "sign" ELSE "verdict"]
    <3>1. Standards \in SUBSET {"A", "X"}
      BY Zenon DEF Standards, Frames, Opt, File
    <3>2. [try |-> f.name, std |-> Standards, signed |-> FALSE] \in File
      BY <3>1, Zenon DEF File, Frames
    <3>3. /\ f' \in Frames(f') /\ f' # NoRun /\ f'.opt = f.opt /\ f'.src = f.src
          /\ f'.pdf.std = Standards /\ f'.at = IF Signs THEN "sign" ELSE "verdict"
      BY <2>2, <3>2, Zenon DEF Frames, NoRun, Stages
    <3>4. Standards' = Standards
      BY <3>3, Zenon DEF Standards
    <3> QED BY <3>3, <3>4, Zenon DEF Made, Signs, Concl
  <2> QED BY <2>1, <2>2, <1>12, Zenon DEF Serialize
<1>13. CASE Sign
  <2>1. CASE Catch \/ Fatal("SIGN_FAILED", "verdict")
    BY <2>1, <1>b, <1>c, <1>e, Zenon
  <2>2. CASE f' = [f EXCEPT !.pdf.signed = TRUE, !.at = "verdict"]
    <3>1. /\ f' \in Frames(f') /\ f' # NoRun /\ f'.opt = f.opt /\ f'.src = f.src
          /\ f'.pdf.std = f.pdf.std /\ f'.pdf.signed = TRUE /\ f'.at = "verdict"
      BY <2>2, Zenon DEF Frames, File, NoRun, Stages
    <3>2. Standards' = Standards
      BY <3>1, Zenon DEF Standards
    <3> QED BY <3>1, <3>2, <1>13, Zenon DEF Made, Sign, Concl
  <2> QED BY <2>1, <2>2, <1>13, Zenon DEF Sign
<1>14. CASE Verdict
  <2>1. Same /\ f'.at = "return" /\ f'.err = f.err
    BY <1>14, <1>1, Zenon DEF Verdict, Stages
  <2>2. Standards' = Standards
    BY <2>1, Zenon DEF Standards, Same
  <2> QED BY <2>1, <2>2, <1>14, Zenon DEF Made, Verdict, Concl, Same
<1> QED BY <1>6, <1>7, <1>8, <1>9, <1>10, <1>11, <1>12, <1>13, <1>14, Zenon DEF Pass

\* After the call of a convertOnce the engine is at work on it.
LEMMA BeginE ==
  ASSUME NEW n \in Tries, NEW o \in Opt, NEW s \in File, outer = NoOuter, inDual = FALSE, Begin(n, o, s),
         pc' \in Converting => o = CallOpt'
  PROVE  EInv' /\ f' # NoRun /\ ret' = NoRet
<1>1. /\ ret' = NoRet /\ f' \in Frames(f') /\ f' # NoRun /\ f'.at = "open"
      /\ outer' = NoOuter \/ outer' \in Outers
      /\ inDual' = (outer' # NoOuter)
      /\ \/ outer' = NoOuter /\ f'.opt = o /\ ~WantsDual(o)
         \/ /\ outer' # NoOuter /\ outer'.opt = o /\ WantsDual(o)
            /\ outer'.stage = "first" /\ f'.opt = DualX(o)
  BY Began, Zenon
<1>2. EngineTypes'
  BY <1>1, Zenon DEF EngineTypes
<1>3. Working'
  BY <1>1, Zenon DEF Working
<1>4. Made'
  BY <1>1, Zenon DEF Made
<1> QED BY <1>1, <1>2, <1>3, <1>4, Zenon DEF EInv

\* While no convertOnce is at work, the flag of the two conversions is clear.
LEMMA Idle ==
  ASSUME EInv, f = NoRun
  PROVE  outer = NoOuter /\ inDual = FALSE
BY Zenon DEF EInv, EngineTypes

\* A step that calls no convertOnce, or takes the result of one.
LEMMA QuietE ==
  ASSUME EInv, f = NoRun, ret' = NoRet, UNCHANGED <<inDual, outer, f>>
  PROVE  EInv' /\ f' = NoRun /\ ret' = NoRet
<1>1. EngineTypes'
  BY Idle, Zenon DEF EInv, EngineTypes
<1> QED BY <1>1, Zenon DEF EInv, Working, Made

\* A result that is awaited and has come.
LEMMA Came ==
  ASSUME PInv, NEW p, Awaited(p)
  PROVE  /\ ret \in Rets(ret) /\ ret # NoRet /\ ret # Thrown /\ f = NoRun /\ pc = p
         /\ Core(ret) \in Results(Core(ret)) /\ Core(ret).ok = ret.ok
         /\ ret.pdf \in File /\ ret.ok \in BOOLEAN
         /\ p \in Converting => Good(ret) /\ Good(Core(ret))
<1>1. ret \in Rets(ret) /\ ret # NoRet /\ ret # Thrown /\ pc = p
  BY DEF PInv, EInv, EngineTypes, Awaited, NoRet, Thrown
<1>2. f = NoRun
  BY <1>1, Zenon DEF PInv, EInv, EngineTypes
<1>3. /\ Core(ret).ok = ret.ok /\ Core(ret).pdf = ret.pdf /\ Core(ret).level = ret.level
      /\ ret.pdf \in File /\ ret.ok \in BOOLEAN /\ ret.level \in SUBSET {"A", "X"}
  BY <1>1, Zenon DEF Core, Rets
<1>4. Core(ret) \in Results(Core(ret))
  <2>1. Core(ret) = [ok |-> ret.ok, pdf |-> ret.pdf, compliant |-> Core(ret).compliant, issues |-> Core(ret).issues, level |-> ret.level]
    BY Zenon DEF Core
  <2> QED BY <1>3, <2>1, Zenon DEF Results
<1>5. ASSUME p \in Converting PROVE Good(ret) /\ Good(Core(ret))
  BY <1>1, <1>3, <1>5, Zenon DEF PInv, CInv, Kept, Good
<1> QED BY <1>1, <1>2, <1>3, <1>4, <1>5, Zenon

\* Between two awaits nothing is at work.
LEMMA Between ==
  ASSUME PInv, pc \in Steps \ Waits
  PROVE  f = NoRun /\ ret = NoRet
BY Zenon DEF PInv, CInv, CallTypes

-----------------------------------------------------------------------------
\* The initial state satisfies the invariant.
LEMMA InitInv == Init => PInv
<1> SUFFICES ASSUME Init PROVE PInv
  BY Zenon
<1>1. EInv
  BY Zenon DEF Init, EngineInit, EInv, EngineTypes, Working, Made, NoRun
<1>2. NoResult \in Results(NoResult) /\ NoFile \in File /\ ~NoResult.ok
  <2>1. NoFile \in File
    BY Zenon DEF NoFile, File, Tries
  <2> QED BY <2>1, Zenon DEF NoResult, Results
<1>3. CallTypes
  BY <1>2, Zenon DEF Init, EngineInit, CallTypes, Steps, Waits, Converting, Outside
<1>4. Kept /\ Written
  BY <1>2, Zenon DEF Init, EngineInit, Kept, Written, Good, Converting
<1> QED BY <1>1, <1>3, <1>4, Zenon DEF PInv, CInv

\* A step of convertOnce is one of a convertOnce at work.
LEMMA AtWork == ASSUME PInv, Run PROVE f # NoRun /\ f \in Frames(f)
<1>0. Pass \/ Return \/ Escape
  BY Zenon DEF Run, Engine
<1>1. Pass => f.at \in Stages
  <2>1. Pass => \/ f.at = "open" \/ f.at = "early" \/ f.at = "pages" \/ f.at = "middle" \/ f.at = "placeholder"
                \/ f.at = "late" \/ f.at = "serialize" \/ f.at = "sign" \/ f.at = "verdict"
    BY Zenon DEF Pass, Open, Early, Pages, Middle, Placeholder, Late, Serialize, Sign, Verdict
  <2> QED BY <2>1, Zenon DEF Stages
<1>2. Return \/ Escape => f.at \in Stages
  BY Zenon DEF Return, Escape, Stages
<1> QED BY <1>0, <1>1, <1>2 DEF Stages, NoRun, PInv, EInv, EngineTypes

\* A step of convertOnce keeps the invariant.
LEMMA RunInv == ASSUME PInv, Run PROVE PInv'
<1>0. /\ UNCHANGED <<depth, pc, r, again, disk, exit, opt, job, check, found, refused>>
      /\ (Pass /\ UNCHANGED <<inDual, outer, ret>>) \/ Return \/ Escape
  BY Zenon DEF Run, Engine, call
<1>1. /\ f \in Frames(f) /\ f # NoRun /\ ret = NoRet /\ pc \in Waits
      /\ pc \in Steps /\ opt \in Opt /\ (outer = NoOuter \/ outer \in Outers) /\ inDual = (outer # NoOuter)
  <2>1. f # NoRun
    BY AtWork, Zenon
  <2> QED BY <2>1, Zenon DEF PInv, EInv, EngineTypes, CInv, CallTypes, Waits, Converting
<1>2. pc' = pc /\ opt' = opt /\ CallOpt' = CallOpt /\ r' = r /\ again' = again /\ disk' = disk
  BY <1>0, Zenon DEF CallOpt
<1>3. Written' /\ Good(r)' /\ (pc' = "check2" => Good(again)') /\ (pc' = "idle" => ~r'.ok)
  BY <1>0, Zenon DEF PInv, CInv, Written, Kept, Good, Exit
<1>4. ASSUME f' # NoRun \/ ret' # NoRet PROVE CallTypes'
  BY <1>0, <1>1, <1>4, Zenon DEF PInv, CInv, CallTypes
<1>5. CASE Pass /\ UNCHANGED <<inDual, outer, ret>>
  <2>1. f' \in Frames(f') /\ f' # NoRun /\ f'.opt = f.opt /\ f'.src = f.src /\ Made'
    BY <1>1, <1>5, PassMade, Zenon DEF PInv, EInv
  <2>2. EngineTypes'
    BY <1>1, <1>5, <2>1, Zenon DEF EngineTypes
  <2>3. Working'
    BY <1>1, <1>2, <1>5, <2>1, Zenon DEF PInv, EInv, Working
  <2>4. Kept'
    BY <1>1, <1>3, <1>5, Zenon DEF Kept
  <2> QED BY <1>3, <1>4, <2>1, <2>2, <2>3, <2>4, Zenon DEF PInv, EInv, CInv
<1>6. CASE Return /\ outer.stage = "first" /\ Ok
  <2>1. outer \in Outers /\ outer # NoOuter
    BY <1>1, <1>6 DEF NoOuter
  <2>2. /\ f' = Frame(outer.name, DualA(outer.opt), f.pdf) /\ outer' = [outer EXCEPT !.stage = "second"]
        /\ inDual' = TRUE /\ ret' = ret
    BY <1>6, Zenon DEF Return
  <2>3. outer' \in Outers /\ outer' # NoOuter /\ outer'.opt = outer.opt /\ outer'.stage = "second"
    BY <2>1, <2>2, Zenon DEF Outers, NoOuter
  <2>4. DualA(outer.opt) \in Opt /\ outer.name \in Tries /\ f.pdf \in File /\ NoFile \in File
    BY <1>1, <2>1, DualOpts, Zenon DEF Outers, Frames, NoFile, File, Tries
  <2>5. f' \in Frames(f') /\ f' # NoRun /\ f'.at = "open" /\ f'.opt = DualA(outer.opt) /\ f'.src = f.pdf
    <3>1. f' = [at |-> "open", name |-> outer.name, opt |-> DualA(outer.opt), src |-> f.pdf, err |-> f'.err,
                issues |-> f'.issues, placed |-> f'.placed, pdf |-> NoFile]
      BY <2>2, Zenon DEF Frame
    <3>2. f'.at = "open" /\ f'.opt = DualA(outer.opt) /\ f'.src = f.pdf /\ f' # NoRun
      BY <3>1 DEF NoRun
    <3> QED BY <2>4, <3>1, <3>2 DEF Frames, Stages
  <2>6. EngineTypes' /\ Made'
    BY <1>1, <2>2, <2>3, <2>5, Zenon DEF EngineTypes, Made
  <2>7. Working'
    <3> SUFFICES ASSUME pc \in Converting PROVE Working'
      BY <1>2, Zenon DEF Working
    <3>1. outer.opt = CallOpt /\ WantsDual(CallOpt) /\ f.opt = DualX(CallOpt)
      BY <1>1, <1>6, <2>1, Zenon DEF PInv, EInv, Working
    <3>2. f.opt.fam = "X" /\ ~f.opt.verifyOnly
      <4>1. CallOpt \in Opt /\ ~CallOpt.verifyOnly
        BY <3>1, <2>1, Zenon DEF Outers, WantsDual
      <4>2. DualX(CallOpt).fam = "X" /\ DualX(CallOpt).verifyOnly = CallOpt.verifyOnly
        BY <4>1, DualOpts, Zenon
      <4> QED BY <3>1, <4>1, <4>2, Zenon
    <3>3. f.pdf.std = {"X"}
      BY <1>1, <1>6, <3>2, Zenon DEF PInv, EInv, Made, Return, Ok, Standards
    <3> QED BY <1>2, <2>3, <2>5, <3>1, <3>3, Zenon DEF Working
  <2>8. Kept'
    BY <1>1, <1>3, <2>2, Zenon DEF Kept
  <2> QED BY <1>3, <1>4, <2>5, <2>6, <2>7, <2>8, Zenon DEF PInv, EInv, CInv
<1>7. CASE f' = NoRun /\ outer' = NoOuter /\ inDual' = (IF outer.stage = "none" THEN inDual ELSE FALSE)
           /\ (ret' = Result \/ ret' = Thrown) /\ f.at = "return" /\ (ret' = Result => ~(outer.stage = "first" /\ Ok))
  <2>1. inDual' = FALSE
    BY <1>1, <1>7, Zenon DEF Outers, NoOuter
  <2>2. ret' = Result => ret' \in Rets(ret') /\ ret' # NoRet /\ ret' # Thrown
    <3> SUFFICES ASSUME ret' = Result PROVE ret' \in Rets(ret') /\ ret' # NoRet /\ ret' # Thrown
      BY Zenon
    <3>1. f.pdf \in File /\ f.opt.fam \in {"A", "X"} /\ NoFile \in File
      BY <1>1, Zenon DEF Frames, Opt, NoFile, File, Tries
    <3>2. (IF Ok THEN f.pdf ELSE NoFile) \in File /\ Ok \in BOOLEAN
          /\ (IF outer.stage = "second" /\ Ok THEN {"A", "X"} ELSE {f.opt.fam}) \in SUBSET {"A", "X"}
      BY <3>1, Zenon DEF Ok
    <3>3. ASSUME NEW a \in BOOLEAN, NEW b \in File, NEW c \in SUBSET {"A", "X"}, NEW e, NEW m, NEW i,
                 NEW y, y = [on |-> TRUE, thrown |-> FALSE, ok |-> a, err |-> e, pdf |-> b, compliant |-> m,
                             issues |-> i, level |-> c]
          PROVE  y \in Rets(y) /\ y # NoRet /\ y # Thrown
      <4>1. y.err = e /\ y.compliant = m /\ y.issues = i
        BY <3>3, Zenon
      <4>2. y \in [on : {TRUE}, thrown : {FALSE}, ok : BOOLEAN, err : {e}, pdf : File, compliant : {m},
                   issues : {i}, level : SUBSET {"A", "X"}]
        BY <3>3, Zenon
      <4>3. y # NoRet /\ y # Thrown
        BY <3>3, Zenon DEF NoRet, Thrown
      <4> QED BY <4>1, <4>2, <4>3, Zenon DEF Rets
    <3> DEFINE p == IF Ok THEN f.pdf ELSE NoFile
    <3> DEFINE v == IF outer.stage = "second" /\ Ok THEN {"A", "X"} ELSE {f.opt.fam}
    <3>4. p \in File /\ v \in SUBSET {"A", "X"} /\ Ok \in BOOLEAN
      BY <3>2, Zenon
    <3>5. PICK e, m, i : Result = [on |-> TRUE, thrown |-> FALSE, ok |-> Ok, err |-> e, pdf |-> p, compliant |-> m, issues |-> i, level |-> v]
      BY Zenon DEF Result
    <3> HIDE DEF p, v
    <3> QED BY <3>3, <3>4, <3>5, Zenon
  <2>3. EngineTypes' /\ Working' /\ Made' /\ ret' # NoRet
    <3>1. ret' # NoRet /\ (ret' = Thrown \/ ret' \in Rets(ret'))
      BY <1>7, <2>2 DEF NoRet, Thrown
    <3>2. EngineTypes'
      BY <1>7, <2>1, <3>1, Zenon DEF EngineTypes
    <3> QED BY <1>7, <3>1, <3>2, Zenon DEF Working, Made
  <2>4. ASSUME pc \in Converting, ret' = Result PROVE Good(ret)'
    <3> SUFFICES ASSUME Ok, ~opt.verifyOnly
        PROVE  f.pdf.std = FullStd(opt) /\ ret'.level = FullStd(opt) /\ (opt.sign => f.pdf.signed)
      <4>1. ret'.ok = Ok /\ ret'.pdf = (IF Ok THEN f.pdf ELSE NoFile)
        BY <2>4, Zenon DEF Result
      <4>2. FullStd(opt)' = FullStd(opt)
        BY <1>2, Zenon DEF FullStd, WantsDual
      <4> QED BY <1>2, <4>1, <4>2, Zenon DEF Good
    <3>1. CallOpt \in Opt /\ FullStd(CallOpt) = FullStd(opt) /\ CallOpt.sign = opt.sign /\ CallOpt.verifyOnly = opt.verifyOnly
      BY <1>1, OtherOpts, Zenon DEF CallOpt
    <3>2. ret'.level = IF outer.stage = "second" THEN {"A", "X"} ELSE {f.opt.fam}
      BY <2>4, Zenon DEF Result
    <3>3. ASSUME ~f.opt.verifyOnly PROVE f.pdf.std = Standards /\ (f.opt.sign => f.pdf.signed)
      BY <1>1, <1>7, <3>3, Zenon DEF PInv, EInv, Made, Ok
    <3>4. CASE outer = NoOuter /\ f.opt = CallOpt /\ ~WantsDual(CallOpt)
      <4>1. Standards = {CallOpt.fam} /\ FullStd(CallOpt) = {CallOpt.fam}
        BY <3>1, <3>4, Zenon DEF Standards, FullStd, WantsDual
      <4> QED BY <3>1, <3>2, <3>3, <3>4, <4>1, Zenon DEF NoOuter
    <3>5. CASE outer.stage = "second" /\ outer.opt = CallOpt /\ WantsDual(CallOpt) /\ f.opt = DualA(CallOpt) /\ f.src.std = {"X"}
      <4>1. f.opt.fam = "A" /\ f.opt.dual /\ f.opt.dualPart /\ ~f.opt.verifyOnly /\ f.opt.sign = opt.sign
        <5>1. CallOpt.fam = "A" /\ CallOpt.dual /\ CallOpt.dualPart /\ ~CallOpt.verifyOnly
          BY <3>5, Zenon DEF WantsDual
        <5>2. /\ f.opt.fam = CallOpt.fam /\ f.opt.sign = CallOpt.sign /\ f.opt.verifyOnly = CallOpt.verifyOnly
              /\ f.opt.dual = CallOpt.dual /\ f.opt.dualPart = CallOpt.dualPart
          <6> DEFINE d == DualA(CallOpt)
          <6>1. /\ d.fam = CallOpt.fam /\ d.sign = CallOpt.sign /\ d.verifyOnly = CallOpt.verifyOnly
                /\ d.dual = CallOpt.dual /\ d.dualPart = CallOpt.dualPart
            BY <3>1, DualOpts, Zenon
          <6>2. f.opt = d
            BY <3>5, Zenon
          <6> HIDE DEF d
          <6> QED BY <6>1, <6>2, Zenon
        <5> QED BY <3>1, <5>1, <5>2, Zenon
      <4>2. Standards = {"A", "X"} /\ FullStd(CallOpt) = {"A", "X"}
        BY <3>5, <4>1, Zenon DEF Standards, FullStd
      <4> QED BY <3>1, <3>2, <3>3, <3>5, <4>1, <4>2, Zenon
    <3> QED BY <1>1, <1>7, <2>4, <3>4, <3>5, Zenon DEF PInv, EInv, Working
  <2>5. Kept'
    BY <1>2, <1>3, <1>7, <2>4, Zenon DEF Kept
  <2> QED BY <1>3, <1>4, <2>3, <2>5, Zenon DEF PInv, EInv, CInv
<1>8. Return => (outer.stage = "first" /\ Ok) \/ (f' = NoRun /\ outer' = NoOuter /\ ret' = Result
                 /\ inDual' = (IF outer.stage = "none" THEN inDual ELSE FALSE) /\ f.at = "return")
  BY Zenon DEF Return
<1>9. Escape => /\ f' = NoRun /\ outer' = NoOuter /\ ret' = Thrown /\ f.at = "return"
                /\ inDual' = (IF outer.stage = "none" THEN inDual ELSE FALSE)
  BY Zenon DEF Escape
<1>10. Result # Thrown
  BY Zenon DEF Result, Thrown
<1> QED BY <1>0, <1>5, <1>6, <1>7, <1>8, <1>9, <1>10, Zenon

-----------------------------------------------------------------------------
\* A step between the call of convert and the writing of its file.
LEMMA StepC ==
  ASSUME PInv, opt' = opt, pc # "idle", pc' \in Steps \ {"idle", "certify", "done"}, ret' = NoRet,
         pc' \in Waits <=> f' # NoRun, depth' = IF pc' \in Outside THEN 0 ELSE 1, disk' = disk,
         r' \in Results(r'), again' \in Results(again'), Good(r'), pc' = "check2" => Good(again')
  PROVE  CInv'
<1>1. CallTypes'
  BY Zenon DEF PInv, CInv, CallTypes
<1>2. Kept'
  BY Zenon DEF Kept, Good
<1>3. Written'
  BY Zenon DEF Written
<1> QED BY <1>1, <1>2, <1>3, Zenon DEF CInv

\* What the steps below use of the invariant.
LEMMA Facts ==
  ASSUME PInv
  PROVE  /\ pc \in Steps /\ EInv /\ (pc # "idle" => opt \in Opt) /\ Good(r)
         /\ r \in Results(r) /\ again \in Results(again) /\ r.pdf \in File
         /\ depth = IF pc \in Outside THEN 0 ELSE 1
BY Zenon DEF PInv, CInv, CallTypes, Kept, Results

\* The files and the names of the tries are what the types say.
LEMMA Files == Input \in File /\ NoFile \in File /\ {"first", "second", "raster", "check"} \subseteq Tries
BY Zenon DEF Input, NoFile, File, Tries

\* The call of convert.
LEMMA StartInv == ASSUME PInv, NEW j \in Jobs, Start(j) PROVE PInv'
<1>1. pc = "idle" /\ pc' = "first" /\ f = NoRun /\ outer = NoOuter /\ inDual = FALSE /\ depth = 0
  BY Facts, Between, Idle, Zenon DEF Start, Steps, Outside, Waits, Converting
<1>2. opt' \in Opt
  <2>1. j.opt \in Opt /\ j.prof \in Prof
    BY JobsAssumption, Zenon
  <2> QED BY <2>1, MergedOpt, Zenon DEF Start
<1>3. CallOpt' = opt'
  BY <1>1, Zenon DEF CallOpt
<1>4. EInv' /\ f' # NoRun /\ ret' = NoRet
  BY <1>1, <1>2, <1>3, Files, BeginE, Zenon DEF Start
<1>5. CallTypes'
  BY <1>1, <1>2, <1>4 DEF Start, PInv, CInv, CallTypes, Steps, Waits, Converting, Outside
<1>6. Kept' /\ Written'
  BY <1>1, <1>4, Zenon DEF Start, PInv, CInv, Kept, Written, Good
<1> QED BY <1>4, <1>5, <1>6, Zenon DEF PInv, CInv

\* A file that cannot be opened.
LEMMA CannotOpenInv == ASSUME PInv, NEW j \in Jobs, CannotOpen(j) PROVE PInv'
<1>1. /\ pc = "idle" /\ pc' = "done" /\ exit' = 2 /\ opt' = j.opt
      /\ UNCHANGED <<inDual, outer, f, ret, depth, r, again, disk>>
  BY Zenon DEF CannotOpen, engine
<1>2. f = NoRun /\ ret = NoRet
  BY <1>1, Facts, Between, Zenon DEF Steps, Waits, Converting, Outside
<1>3. EInv' /\ f' = NoRun /\ ret' = NoRet
  BY <1>1, <1>2, Facts, QuietE, Zenon
<1>4. CallTypes'
  BY <1>1, <1>3, JobsAssumption, Zenon DEF PInv, CInv, CallTypes, Steps, Waits, Converting, Outside
<1>5. Kept' /\ Written'
  BY <1>1, <1>3, Zenon DEF PInv, CInv, Kept, Written, Good
<1> QED BY <1>3, <1>4, <1>5, Zenon DEF PInv, CInv

\* The first conversion has returned.
LEMMA FirstInv == ASSUME PInv, First PROVE PInv'
<1>1. /\ Awaited("first") /\ r' = Core(ret)
      /\ UNCHANGED <<depth, opt, again, disk>>
      /\ \/ pc' = "check1" /\ Begin("check", CheckOf(opt), ret.pdf)
         \/ pc' \in {"fallback", "trim"} /\ ret' = NoRet /\ UNCHANGED <<inDual, outer, f>>
  BY Zenon DEF First
<1>2. /\ pc = "first" /\ f = NoRun /\ ret.pdf \in File /\ r' \in Results(r') /\ Good(r')
      /\ outer = NoOuter /\ inDual = FALSE /\ depth = 1 /\ CheckOf(opt) \in Opt
  <2>1. /\ pc = "first" /\ f = NoRun /\ ret.pdf \in File
        /\ Core(ret) \in Results(Core(ret)) /\ Good(Core(ret))
    BY <1>1, Came, Zenon DEF Converting
  <2>2. outer = NoOuter /\ inDual = FALSE
    BY <2>1, Facts, Idle, Zenon
  <2>3. depth = 1 /\ CheckOf(opt) \in Opt
    BY <2>1, Facts, OtherOpts, Zenon DEF Outside
  <2> QED BY <1>1, <2>1, <2>2, <2>3, Zenon
<1>3. EInv' /\ ret' = NoRet /\ (pc' \in Waits <=> f' # NoRun)
  <2>1. CASE pc' = "check1" /\ Begin("check", CheckOf(opt), ret.pdf)
    BY <1>2, <2>1, Files, BeginE, Zenon DEF Converting, Waits
  <2>2. CASE pc' \in {"fallback", "trim"} /\ ret' = NoRet /\ UNCHANGED <<inDual, outer, f>>
    BY <1>2, <2>2, Facts, QuietE, Zenon DEF Converting, Waits
  <2> QED BY <1>1, <2>1, <2>2, Zenon
<1>4. pc' \in Steps \ {"idle", "certify", "done"} /\ pc' \notin Outside /\ pc' # "check2"
  BY <1>1, Zenon DEF Steps, Waits, Converting, Outside
<1>5. CInv'
  BY <1>1, <1>2, <1>3, <1>4, Facts, StepC, Zenon
<1> QED BY <1>3, <1>5, Zenon DEF PInv

\* The second conversion has returned.
LEMMA SecondInv == ASSUME PInv, Second PROVE PInv'
<1>1. /\ Awaited("second") /\ again' = Core(ret)
      /\ UNCHANGED <<depth, opt, r, disk>>
      /\ \/ pc' = "check2" /\ Begin("check", CheckOf(opt), ret.pdf)
         \/ pc' = "raster" /\ ret' = NoRet /\ UNCHANGED <<inDual, outer, f>>
  BY Zenon DEF Second
<1>2. /\ pc = "second" /\ f = NoRun /\ ret.pdf \in File /\ again' \in Results(again') /\ Good(again')
      /\ outer = NoOuter /\ inDual = FALSE /\ depth = 1 /\ CheckOf(opt) \in Opt
  <2>1. /\ pc = "second" /\ f = NoRun /\ ret.pdf \in File
        /\ Core(ret) \in Results(Core(ret)) /\ Good(Core(ret))
    BY <1>1, Came, Zenon DEF Converting
  <2>2. outer = NoOuter /\ inDual = FALSE
    BY <2>1, Facts, Idle, Zenon
  <2>3. depth = 1 /\ CheckOf(opt) \in Opt
    BY <2>1, Facts, OtherOpts, Zenon DEF Outside
  <2> QED BY <1>1, <2>1, <2>2, <2>3, Zenon
<1>3. EInv' /\ ret' = NoRet /\ (pc' \in Waits <=> f' # NoRun)
  <2>1. CASE pc' = "check2" /\ Begin("check", CheckOf(opt), ret.pdf)
    BY <1>2, <2>1, Files, BeginE, Zenon DEF Converting, Waits
  <2>2. CASE pc' = "raster" /\ ret' = NoRet /\ UNCHANGED <<inDual, outer, f>>
    BY <1>2, <2>2, Facts, QuietE, Zenon DEF Converting, Waits
  <2> QED BY <1>1, <2>1, <2>2, Zenon
<1>4. pc' \in Steps \ {"idle", "certify", "done"} /\ pc' \notin Outside
  BY <1>1, Zenon DEF Steps, Waits, Converting, Outside
<1>5. CInv'
  BY <1>1, <1>2, <1>3, <1>4, Facts, StepC, Zenon
<1> QED BY <1>3, <1>5, Zenon DEF PInv

\* The two checks and the try with images end a fallback.
LEMMA TakenInv == ASSUME PInv, Check1 \/ Check2 \/ Image PROVE PInv'
<1>1. /\ ret' = NoRet /\ UNCHANGED <<inDual, outer, f, depth, opt, again, disk>>
      /\ pc' \in {"trim", "fallback", "raster"}
      /\ \/ Awaited("check1") /\ r' = r
         \/ Awaited("check2") /\ r' \in {r, again}
         \/ Awaited("image") /\ r' \in {r, Core(ret)}
  BY Zenon DEF Check1, Check2, Image
<1>2. /\ pc \in {"check1", "check2", "image"} /\ f = NoRun /\ depth = 1 /\ r' \in Results(r') /\ Good(r')
  <2>1. CASE Awaited("check1") /\ r' = r
    BY <2>1, Came, Facts DEF Outside
  <2>2. CASE Awaited("check2") /\ r' \in {r, again}
    <3>1. pc = "check2" /\ f = NoRun /\ Good(again)
      BY <2>2, Came, Zenon DEF PInv, CInv, Kept
    <3> QED BY <2>2, <3>1, Facts, Zenon DEF Outside
  <2>3. CASE Awaited("image") /\ r' \in {r, Core(ret)}
    <3>1. pc = "image" /\ f = NoRun /\ Good(Core(ret)) /\ Core(ret) \in Results(Core(ret))
      BY <2>3, Came, Zenon DEF Converting
    <3> QED BY <2>3, <3>1, Facts, Zenon DEF Outside
  <2> QED BY <1>1, <2>1, <2>2, <2>3, Zenon
<1>3. EInv' /\ f' = NoRun
  BY <1>1, <1>2, Facts, QuietE, Zenon
<1>4. pc' \in Steps \ {"idle", "certify", "done"} /\ pc' \notin Outside /\ pc' # "check2" /\ pc' \notin Waits
  BY <1>1, Zenon DEF Steps, Waits, Converting, Outside
<1>5. CInv'
  BY <1>1, <1>2, <1>3, <1>4, Facts, StepC, Zenon
<1> QED BY <1>3, <1>5, Zenon DEF PInv

\* The second conversion and the one with images are called.
LEMMA TryInv == ASSUME PInv, Reconvert \/ Raster PROVE PInv'
<1>1. /\ UNCHANGED <<depth, opt, r, again, disk>>
      /\ \/ pc = "fallback" /\ pc' = "second" /\ Begin("second", opt, r.pdf)
         \/ pc = "raster" /\ pc' = "image" /\ Begin("raster", [opt EXCEPT !.raster = TRUE], Input)
  BY Zenon DEF Reconvert, Raster
<1>2. f = NoRun /\ outer = NoOuter /\ inDual = FALSE /\ depth = 1 /\ opt \in Opt /\ pc # "idle" /\ [opt EXCEPT !.raster = TRUE] \in Opt
  BY <1>1, Facts, Between, Idle, OtherOpts, Zenon DEF Steps, Waits, Converting, Outside
<1>3. EInv' /\ f' # NoRun /\ ret' = NoRet
  <2>1. CASE pc' = "second" /\ Begin("second", opt, r.pdf)
    <3>1. CallOpt' = opt
      BY <1>1, <2>1, Zenon DEF CallOpt
    <3> QED BY <1>2, <2>1, <3>1, Facts, Files, BeginE, Zenon
  <2>2. CASE pc' = "image" /\ Begin("raster", [opt EXCEPT !.raster = TRUE], Input)
    <3>1. CallOpt' = [opt EXCEPT !.raster = TRUE]
      BY <1>1, <2>2, Zenon DEF CallOpt
    <3> QED BY <1>2, <2>2, <3>1, Files, BeginE, Zenon
  <2> QED BY <1>1, <2>1, <2>2, Zenon
<1>4. pc' \in Steps \ {"idle", "certify", "done"} /\ pc' \notin Outside /\ pc' # "check2" /\ pc' \in Waits
  BY <1>1, Zenon DEF Steps, Waits, Converting, Outside
<1>5. CInv'
  BY <1>1, <1>2, <1>3, <1>4, Facts, StepC, Zenon
<1> QED BY <1>3, <1>5, Zenon DEF PInv

\* A fallback that was not asked for.
LEMMA SkipInv == ASSUME PInv, NoReconvert \/ NoRaster PROVE PInv'
<1>1. /\ UNCHANGED <<inDual, outer, f, ret, depth, opt, r, again, disk>>
      /\ pc \in {"fallback", "raster"} /\ pc' \in {"raster", "trim"}
  BY Zenon DEF NoReconvert, NoRaster, engine
<1>2. f = NoRun /\ ret = NoRet /\ depth = 1
  BY <1>1, Facts, Between, Zenon DEF Steps, Waits, Converting, Outside
<1>3. EInv' /\ f' = NoRun /\ ret' = NoRet
  BY <1>1, <1>2, Facts, QuietE, Zenon
<1>4. pc' \in Steps \ {"idle", "certify", "done"} /\ pc' \notin Outside /\ pc' # "check2" /\ pc' \notin Waits
  BY <1>1, Zenon DEF Steps, Waits, Converting, Outside
<1>5. CInv'
  BY <1>1, <1>2, <1>3, <1>4, Facts, StepC, Zenon
<1> QED BY <1>3, <1>5, Zenon DEF PInv

\* The end of runPrepared changes the findings and the verdict alone.
LEMMA TrimmedSame ==
  ASSUME PInv, Trim
  PROVE  r' \in Results(r') /\ r'.ok = r.ok /\ r'.pdf = r.pdf /\ r'.level = r.level
<1>1. PICK b, c : r' = [r EXCEPT !.issues = b, !.compliant = c]
  BY Zenon DEF Trim
<1>2. r'.issues = b /\ r'.compliant = c
  BY <1>1, Facts, Zenon DEF Results
<1>3. r' \in [ok : BOOLEAN, pdf : File, compliant : {c}, issues : {b}, level : SUBSET {"A", "X"}]
  BY <1>1, Facts, Zenon DEF Results
<1> QED BY <1>1, <1>2, <1>3, Facts, Zenon DEF Results

\* The end of runPrepared.
LEMMA TrimInv == ASSUME PInv, Trim PROVE PInv'
<1>1. /\ UNCHANGED <<inDual, outer, f, ret, opt, again, disk>>
      /\ pc = "trim" /\ pc' = "only" /\ depth' = depth - 1
  BY Zenon DEF Trim, engine
<1>2. f = NoRun /\ ret = NoRet /\ depth = 1
  BY <1>1, Facts, Between, Zenon DEF Steps, Waits, Converting, Outside
<1>3. EInv' /\ f' = NoRun /\ ret' = NoRet
  BY <1>1, <1>2, Facts, QuietE, Zenon
<1>4. r' \in Results(r') /\ r'.ok = r.ok /\ r'.pdf = r.pdf /\ r'.level = r.level
  BY TrimmedSame, Zenon
<1>5. Good(r')
  BY <1>4, Facts, Zenon DEF Good
<1>6. pc' \in Steps \ {"idle", "certify", "done"} /\ pc' \in Outside /\ pc' # "check2" /\ pc' \notin Waits /\ depth' = 0
  BY <1>1, <1>2 DEF Steps, Waits, Converting, Outside
<1>7. CInv'
  BY <1>1, <1>2, <1>3, <1>4, <1>5, <1>6, Facts, StepC, Zenon
<1> QED BY <1>3, <1>7, Zenon DEF PInv

\* The last check is called, or is not asked for.
LEMMA OnlyPdfaInv == ASSUME PInv, OnlyPdfa PROVE PInv'
<1>1. /\ UNCHANGED <<opt, r, again, disk>> /\ pc = "only"
      /\ \/ pc' = "recheck" /\ depth' = depth + 1 /\ Begin("check", PlainCheck(opt), r.pdf)
         \/ pc' = "write" /\ UNCHANGED <<depth, inDual, outer, f, ret>>
  BY Zenon DEF OnlyPdfa, engine
<1>2. f = NoRun /\ ret = NoRet /\ outer = NoOuter /\ inDual = FALSE /\ depth = 0 /\ PlainCheck(opt) \in Opt
  BY <1>1, Facts, Between, Idle, OtherOpts, Zenon DEF Steps, Waits, Converting, Outside
<1>3. /\ EInv' /\ ret' = NoRet /\ (pc' \in Waits <=> f' # NoRun) /\ depth' = IF pc' \in Outside THEN 0 ELSE 1
  <2>1. CASE pc' = "recheck" /\ depth' = depth + 1 /\ Begin("check", PlainCheck(opt), r.pdf)
    <3>1. pc' \notin Converting /\ pc' \in Waits /\ pc' \notin Outside /\ depth' = 1
      BY <1>2, <2>1 DEF Converting, Waits, Outside
    <3>2. EInv' /\ f' # NoRun /\ ret' = NoRet
      BY <1>2, <2>1, <3>1, Facts, Files, BeginE, Zenon
    <3> QED BY <3>1, <3>2, Zenon
  <2>2. CASE pc' = "write" /\ UNCHANGED <<depth, inDual, outer, f, ret>>
    BY <1>2, <2>2, Facts, QuietE, Zenon DEF Converting, Waits, Outside
  <2> QED BY <1>1, <2>1, <2>2, Zenon
<1>4. pc' \in Steps \ {"idle", "certify", "done"} /\ pc' # "check2"
  BY <1>1, Zenon DEF Steps, Waits, Converting, Outside
<1>5. CInv'
  BY <1>1, <1>2, <1>3, <1>4, Facts, StepC, Zenon
<1> QED BY <1>3, <1>5, Zenon DEF PInv

\* The last check keeps the result or takes it away.
LEMMA RecheckInv == ASSUME PInv, Recheck PROVE PInv'
<1>1. /\ UNCHANGED <<inDual, outer, f, opt, again, disk>> /\ ret' = NoRet
      /\ Awaited("recheck") /\ pc' = "write" /\ depth' = depth - 1
      /\ r' = r \/ r' = [r EXCEPT !.ok = FALSE, !.pdf = NoFile]
  BY Zenon DEF Recheck
<1>2. pc = "recheck" /\ f = NoRun /\ depth = 1
  BY <1>1, Came, Facts DEF Outside
<1>3. EInv' /\ f' = NoRun
  BY <1>1, <1>2, Facts, QuietE, Zenon
<1>4. r' \in Results(r') /\ Good(r')
  BY <1>1, Facts, Files, Zenon DEF Results, Good
<1>5. pc' \in Steps \ {"idle", "certify", "done"} /\ pc' \in Outside /\ pc' # "check2" /\ pc' \notin Waits /\ depth' = 0
  BY <1>1, <1>2 DEF Steps, Waits, Converting, Outside
<1>6. CInv'
  BY <1>1, <1>2, <1>3, <1>4, <1>5, Facts, StepC, Zenon
<1> QED BY <1>3, <1>6, Zenon DEF PInv

\* The output file and its certificate.
LEMMA OutputInv == ASSUME PInv, Write \/ Certify PROVE PInv'
<1>1. /\ UNCHANGED <<inDual, outer, f, ret, depth, opt, r, again>>
      /\ pc \in {"write", "certify"} /\ pc' \in {"certify", "done"} /\ (pc' = "done" /\ exit' # 2 => pc = "certify" /\ exit' = Exit)
  BY Zenon DEF Write, Certify, engine
<1>2. f = NoRun /\ ret = NoRet
  BY <1>1, Facts, Between, Zenon DEF Steps, Waits, Converting, Outside
<1>3. EInv' /\ f' = NoRun /\ ret' = NoRet
  BY <1>1, <1>2, Facts, QuietE, Zenon
<1>4. /\ disk' \in File
      /\ r.ok /\ ~opt.verifyOnly /\ (pc' = "certify" \/ exit' # 2) =>
           disk'.std = r.pdf.std /\ (opt.certify \/ disk'.signed = r.pdf.signed)
  <2>1. CASE Write
    BY <2>1, Facts, Zenon DEF Write, PInv, CInv, CallTypes, File, Tries
  <2>2. CASE Certify
    <3>1. disk \in File /\ (r.ok /\ ~opt.verifyOnly => disk.std = r.pdf.std /\ (opt.certify \/ disk.signed = r.pdf.signed))
      BY <2>2, Zenon DEF Certify, PInv, CInv, CallTypes, Written
    <3>2. disk' = disk \/ (opt.certify /\ disk' = [disk EXCEPT !.signed = FALSE])
      BY <2>2, Zenon DEF Certify
    <3> QED BY <3>1, <3>2, Zenon DEF File
  <2> QED BY <2>1, <2>2, Zenon
<1>5. CallTypes'
  BY <1>1, <1>2, <1>3, <1>4, Zenon DEF PInv, CInv, CallTypes, Steps, Waits, Converting, Outside
<1>6. Kept'
  BY <1>1, <1>3, Zenon DEF PInv, CInv, Kept, Good
<1>7. Exit' = Exit
  BY <1>1, Zenon DEF Exit
<1>8. Written'
  BY <1>1, <1>4, <1>7, Zenon DEF Written
<1> QED BY <1>3, <1>5, <1>6, <1>8, Zenon DEF PInv, CInv

\* The call is over, or its exception is passed on.
LEMMA EndInv == ASSUME PInv, Again \/ Rethrow PROVE PInv'
<1>1. /\ Fresh /\ ret' = NoRet /\ UNCHANGED <<inDual, outer, f>> /\ f = NoRun /\ depth' = 0
  <2>1. CASE Again
    BY <2>1, Facts, Between, Zenon DEF Again, engine, Steps, Waits, Converting, Outside
  <2>2. CASE Rethrow
    <3>1. ret # NoRet
      BY <2>2 DEF Rethrow, NoRet
    <3>2. f = NoRun /\ pc \in Waits
      BY <3>1, Zenon DEF PInv, EInv, EngineTypes, CInv, CallTypes
    <3>3. depth = 1
      BY <3>2, Facts, Zenon DEF Waits, Converting, Outside
    <3> QED BY <2>2, <3>2, <3>3 DEF Rethrow
  <2> QED BY <2>1, <2>2, Zenon
<1>2. EInv' /\ f' = NoRun
  BY <1>1, Facts, QuietE, Zenon
<1>3. NoResult \in Results(NoResult) /\ ~NoResult.ok
  BY Files, Zenon DEF NoResult, Results
<1>4. CallTypes'
  BY <1>1, <1>2, <1>3, Files, Zenon DEF Fresh, CallTypes, Steps, Waits, Converting, Outside
<1>5. Kept' /\ Written'
  BY <1>1, <1>3, Zenon DEF Fresh, Kept, Written, Good, Converting
<1> QED BY <1>2, <1>4, <1>5, Zenon DEF PInv, CInv

\* A step that changes nothing.
LEMMA StutterInv == ASSUME PInv, UNCHANGED vars PROVE PInv'
<1>1. UNCHANGED <<inDual, outer, f, ret, depth, pc, r, again, disk, exit, opt>>
  BY Zenon DEF vars, engine, call
<1>2. EInv'
  BY <1>1, Zenon DEF PInv, EInv, EngineTypes, Working, Made, CallOpt, Standards
<1>3. CInv'
  BY <1>1 DEF PInv, CInv, CallTypes, Kept, Written, Good, Exit
<1> QED BY <1>2, <1>3, Zenon DEF PInv

-----------------------------------------------------------------------------
\* Every step keeps the invariant.
THEOREM Invariance == Spec => []PInv
<1>1. PInv /\ [Next]_vars => PInv'
  BY RunInv, StartInv, CannotOpenInv, FirstInv, SecondInv, TakenInv, TryInv, SkipInv, TrimInv, OnlyPdfaInv, RecheckInv, OutputInv,
     EndInv, StutterInv, Zenon DEF Next
<1> QED BY <1>1, InitInv, PTL DEF Spec

\* Whatever came of the calls before, returned or thrown, a call finds jobDepth
\* at zero and inDualPass clear (the guards of convert and of the two passes).
THEOREM NoFlagIsLeft == Spec => []CallsIndependent
<1>1. PInv => CallsIndependent
  <2> SUFFICES ASSUME PInv, pc = "idle" PROVE depth = 0 /\ ~inDual
    BY Zenon DEF CallsIndependent
  <2> QED BY Facts, Between, Idle, Zenon DEF Steps, Waits, Converting, Outside
<1> QED BY <1>1, Invariance, PTL

\* A conversion that exits 0 has written what was asked for, whichever of the
\* tries of runPrepared its file comes from, and whatever the options.
THEOREM WrittenAsAsked == Spec => []OutputAsAsked
<1>1. PInv => OutputAsAsked
  <2> SUFFICES ASSUME PInv, pc = "done", ~opt.verifyOnly, exit = 0
      PROVE  disk.std = FullStd(opt) /\ r.level = disk.std /\ (opt.sign /\ ~opt.certify => disk.signed)
    BY Zenon DEF OutputAsAsked, Ends, FullStd
  <2>1. r.ok
    BY DEF PInv, CInv, Written, Exit
  <2> QED BY <2>1, Facts DEF PInv, CInv, Written, Good
<1> QED BY <1>1, Invariance, PTL

-----------------------------------------------------------------------------
(* The order of the tries, and the verdict of a check.                         *)

\* The steps after the last try.
Settled == {"trim", "only", "recheck", "write", "certify", "done"}

\* No try has a result before the first one, the second one is checked only
\* when it has one, and no try is made of a file that has passed the checker.
TInv ==
  /\ pc \in {"idle", "first"} => ~r.ok
  /\ pc = "check2" => again.ok
  /\ check.compliant => pc \in Settled

\* A convertOnce records issues alone; the verdict of a check is that none of
\* those it was asked about is a finding, and the exit status follows it.
Recorded == f # NoRun => f.issues \in Seq(Issues)
Concluded ==
  pc = "first" /\ opt.verifyOnly /\ ret # NoRet /\ ret # Thrown =>
    ret.issues \in Seq(Issues) /\ ret.compliant = (ret.ok /\ NoFinding(ret.issues))
Checked ==
  pc # "idle" /\ opt.verifyOnly =>
    /\ pc \in {"first", "trim", "only", "write", "certify", "done"}
    /\ pc = "trim" => found \in Seq(Issues) /\ r.issues = found /\ r.compliant = (r.ok /\ NoFinding(found))
    /\ pc \in {"only", "write", "certify", "done"} /\ r.ok => r.compliant = ~AskedFinding(found)
    /\ pc = "done" /\ r.ok => exit = Exit
OneCut == pc # "idle" => ~(opt.quick /\ opt.range)
VInv == Recorded /\ Concluded /\ Checked /\ OneCut

\* No call asks for the first finding of a page range: what it would be told is
\* that of the first finding, not that of the range.
OneCutAsked == \A j \in Jobs : ~(j.opt.quick /\ j.opt.range)

\* What a step of the two action properties may do.
KeepsGood == check.compliant /\ check.of = r.pdf.try /\ pc # "done" /\ pc' # "idle" => r'.pdf \in {r.pdf, NoFile}
KeepsResult == r.ok /\ pc' \notin {"idle", "write"} => r'.ok

\* A step that leaves the result and the verdict of the checker alone, and does
\* not go back to a try once there is a verdict.
LEMMA SameResult ==
  ASSUME TInv, r' = r, check' = check, pc' \in {"idle", "first"} => pc \in {"idle", "first"}, pc' # "check2" \/ (pc = "check2" /\ again' = again),
         pc \in Settled => pc' \in Settled
  PROVE  TInv' /\ KeepsGood /\ KeepsResult
BY Zenon DEF TInv, KeepsGood, KeepsResult

\* The order of the tries is kept by every step, and so is a file that has
\* passed the checker, and a result once there is one.
LEMMA TriesInv == ASSUME PInv, TInv, [Next]_vars PROVE TInv' /\ KeepsGood /\ KeepsResult
<1>1. CASE Run \/ UNCHANGED vars
  <2>1. UNCHANGED <<pc, r, again, check>>
    BY <1>1, Zenon DEF Run, vars, call
  <2> QED BY <2>1, SameResult, Zenon
<1>2. ASSUME NEW j \in Jobs, Start(j) \/ CannotOpen(j) PROVE TInv' /\ KeepsGood /\ KeepsResult
  <2>1. pc = "idle" /\ pc' \in {"first", "done"} /\ UNCHANGED <<r, again, check>>
    BY <1>2, Zenon DEF Start, CannotOpen
  <2> QED BY <2>1, SameResult, Zenon DEF Settled
<1>3. CASE First
  <2>1. pc = "first" /\ pc' \in {"check1", "fallback", "trim"} /\ check' = check
    BY <1>3, Zenon DEF First, Awaited
  <2>2. ~r.ok /\ ~check.compliant
    BY <2>1, Zenon DEF TInv, Settled
  <2> QED BY <2>1, <2>2, Zenon DEF TInv, KeepsGood, KeepsResult
<1>4. CASE Check1
  <2>1. /\ pc = "check1" /\ r' = r /\ check'.compliant = ret.compliant
        /\ pc' = IF ret.compliant THEN "trim" ELSE "fallback"
    BY <1>4, Zenon DEF Check1, Awaited, VerdictOn
  <2> QED BY <2>1, Zenon DEF TInv, KeepsGood, KeepsResult, Settled
<1>5. CASE Reconvert \/ NoReconvert \/ Raster \/ NoRaster
  <2>1. /\ pc \in {"fallback", "raster"} /\ pc' \in {"second", "raster", "image", "trim"}
        /\ UNCHANGED <<r, again, check>>
    BY <1>5, Zenon DEF Reconvert, NoReconvert, Raster, NoRaster
  <2> QED BY <2>1, SameResult, Zenon DEF Settled
<1>6. CASE Second
  <2>1. pc = "second" /\ UNCHANGED <<r, check>> /\ again'.ok = ret.ok /\ pc' \in {"check2", "raster"} /\ (pc' = "check2" => ret.ok)
    BY <1>6, Zenon DEF Second, Awaited, Core
  <2> QED BY <2>1, Zenon DEF TInv, KeepsGood, KeepsResult, Settled
<1>7. CASE Check2
  <2>1. /\ pc = "check2" /\ check'.compliant = ret.compliant
        /\ IF ret.compliant THEN r' = again /\ pc' = "trim" ELSE r' = r /\ pc' = "raster"
    BY <1>7, Zenon DEF Check2, Awaited, VerdictOn
  <2> QED BY <2>1, Zenon DEF TInv, KeepsGood, KeepsResult, Settled
<1>8. CASE Image
  <2>1. pc = "image" /\ pc' = "trim" /\ check' = check /\ (r' = r \/ (ret.ok /\ r'.ok = ret.ok))
    BY <1>8, Zenon DEF Image, Awaited, Core
  <2> QED BY <2>1, Zenon DEF TInv, KeepsGood, KeepsResult, Settled
<1>9. CASE Trim
  <2>1. pc = "trim" /\ pc' = "only" /\ check' = check
    BY <1>9, Zenon DEF Trim
  <2>2. r'.ok = r.ok /\ r'.pdf = r.pdf
    BY <1>9, TrimmedSame, Zenon
  <2> QED BY <2>1, <2>2, Zenon DEF TInv, KeepsGood, KeepsResult, Settled
<1>10. CASE OnlyPdfa
  <2>1. pc = "only" /\ pc' \in {"recheck", "write"} /\ UNCHANGED <<r, again, check>>
    BY <1>10, Zenon DEF OnlyPdfa
  <2> QED BY <2>1, SameResult, Zenon DEF Settled
<1>11. CASE Recheck
  <2>1. pc = "recheck" /\ pc' = "write" /\ check' = check /\ (r' = r \/ r' = [r EXCEPT !.ok = FALSE, !.pdf = NoFile])
    BY <1>11, Zenon DEF Recheck, Awaited
  <2>2. r'.pdf \in {r.pdf, NoFile}
    BY <2>1, Facts, Zenon DEF Results
  <2> QED BY <2>1, <2>2, Zenon DEF TInv, KeepsGood, KeepsResult, Settled
<1>12. CASE Write \/ Certify
  <2>1. pc \in {"write", "certify"} /\ pc' \in {"certify", "done"} /\ UNCHANGED <<r, again, check>>
    BY <1>12, Zenon DEF Write, Certify
  <2> QED BY <2>1, SameResult, Zenon DEF Settled
<1>13. CASE Again \/ Rethrow
  <2>1. pc' = "idle" /\ ~r'.ok /\ ~check'.compliant
    BY <1>13 DEF Again, Rethrow, Fresh, NoResult, NoCheck
  <2> QED BY <2>1, Zenon DEF TInv, KeepsGood, KeepsResult
<1> QED BY <1>1, <1>2, <1>3, <1>4, <1>5, <1>6, <1>7, <1>8, <1>9, <1>10, <1>11, <1>12, <1>13, Zenon DEF Next

\* No try is made once the checker has passed a file, whatever the options and
\* whatever the passes make of the documents.
THEOREM TriesInOrder == Spec => []TInv
<1>1. Init => TInv
  BY DEF Init, TInv, NoResult, NoCheck
<1> QED BY <1>1, TriesInv, Invariance, PTL DEF Spec

\* The good flag of runPrepared: the file that has passed the checker is not
\* replaced by that of a later try.
THEOREM PassedIsFinal == Spec => GoodIsFinal
<1>1. PInv /\ TInv /\ [Next]_vars => [KeepsGood]_vars
  BY TriesInv, Zenon
<1> QED BY <1>1, TriesInOrder, Invariance, PTL DEF Spec, GoodIsFinal, KeepsGood

\* The r2.ok and r3.ok tests of runPrepared: a try that is refused does not
\* take the place of a result.
THEOREM TriesGain == Spec => TriesOnlyGain
<1>1. PInv /\ TInv /\ [Next]_vars => [KeepsResult]_vars
  BY TriesInv, Zenon
<1> QED BY <1>1, TriesInOrder, Invariance, PTL DEF Spec, TriesOnlyGain, KeepsResult

-----------------------------------------------------------------------------
\* Induction over the naturals, by a set: a set that is not all of them would
\* leave a least number out.
LEMMA Induct ==
  ASSUME NEW P, 0 \in P, \A n \in Nat : n \in P => n + 1 \in P
  PROVE  Nat \subseteq P
<1> SUFFICES ASSUME Nat \ P # {} PROVE FALSE
  BY Zenon
<1>1. IsWellFoundedOn(OpToRel(<, Nat), Nat)
  BY NatLessThanWellFounded, Zenon
<1>2. PICK n \in Nat \ P : \A m \in Nat \ P : ~(<<m, n>> \in OpToRel(<, Nat))
  <2>1. Nat \ P \subseteq Nat
    BY Zenon
  <2> QED BY <1>1, <2>1, WFMin, Zenon
<1>3. \A m \in Nat \ P : ~(m < n)
  BY <1>2, Zenon DEF OpToRel
<1>4. n - 1 \in Nat /\ n - 1 < n /\ (n - 1) + 1 = n
  <2>1. n \in Nat /\ n # 0
    BY <1>2, Zenon
  <2> QED BY <2>1
<1>5. n - 1 \in P
  BY <1>3, <1>4, Zenon
<1> QED BY <1>2, <1>4, <1>5, Zenon

Issue == [pages : SUBSET Nat, fixed : BOOLEAN, normalization : BOOLEAN]
Cut(i) == [i EXCEPT !.pages = {p \in @ : InRange(p)}]
KeptNext(s, q, n) == IF Asked(s[n]) THEN Append(q, Cut(s[n])) ELSE q
KeptStep(s, k) == [n \in 0..Len(s) |-> IF n = 0 THEN <<>> ELSE KeptNext(s, k[n - 1], n)]
KeptList(s) == CHOOSE k : k = KeptStep(s, k)

\* The loop of filterRange has a list after each of its rounds.
LEMMA KeptListStep ==
  ASSUME NEW s, Len(s) \in Nat
  PROVE  KeptList(s) = KeptStep(s, KeptList(s))
<1> DEFINE Upto(k, m) == /\ k = [n \in 0..m |-> k[n]] /\ k[0] = <<>>
                         /\ \A n \in 1..m : k[n] = KeptNext(s, k[n - 1], n)
           P == {m \in Nat : \E k : Upto(k, m)}
<1>1. 0 \in P
  <2> DEFINE k == [n \in 0..0 |-> <<>>]
  <2>1. k = [n \in 0..0 |-> k[n]] /\ k[0] = <<>> /\ \A n \in 1..0 : FALSE
    OBVIOUS
  <2>2. Upto(k, 0)
    BY <2>1, Zenon
  <2> QED BY <2>2, Zenon
<1>2. ASSUME NEW m \in Nat, m \in P PROVE m + 1 \in P
  <2>1. PICK k : Upto(k, m)
    BY <1>2, Zenon
  <2> DEFINE last == KeptNext(s, k[m], m + 1)
             g == [n \in 0..(m + 1) |-> IF n = m + 1 THEN last ELSE k[n]]
  <2>2. g = [n \in 0..(m + 1) |-> g[n]] /\ g[0] = k[0] /\ g[m + 1] = last /\ \A n \in 0..m : g[n] = k[n]
    <3> HIDE DEF last
    <3> QED OBVIOUS
  <2>3. ASSUME NEW n \in 1..(m + 1) PROVE g[n] = KeptNext(s, g[n - 1], n)
    <3> HIDE DEF g
    <3>1. CASE n = m + 1
      <4>1. n - 1 = m /\ m \in 0..m
        BY <3>1
      <4>2. g[n - 1] = k[m]
        BY <2>2, <4>1, Zenon
      <4> QED BY <2>2, <3>1, <4>2, Zenon
    <3>2. CASE n # m + 1
      <4>1. n \in 1..m /\ n \in 0..m /\ n - 1 \in 0..m
        BY <3>2
      <4>2. g[n - 1] = k[n - 1] /\ g[n] = k[n]
        BY <2>2, <4>1, Zenon
      <4> QED BY <2>1, <4>1, <4>2, Zenon
    <3> QED BY <3>1, <3>2, Zenon
  <2>4. Upto(g, m + 1)
    <3> HIDE DEF g
    <3> QED BY <2>1, <2>2, <2>3, Zenon
  <2> HIDE DEF Upto, g
  <2> QED BY <2>4
<1>3. Len(s) \in P
  <2> HIDE DEF P
  <2> QED BY <1>1, <1>2, Induct, Zenon
<1>4. PICK k : Upto(k, Len(s))
  BY <1>3, Zenon
<1>5. k = KeptStep(s, k)
  <2>1. \A n \in 0..Len(s) : k[n] = IF n = 0 THEN <<>> ELSE KeptNext(s, k[n - 1], n)
    BY <1>4
  <2> QED BY <1>4, <2>1, Zenon DEF KeptStep
<1> QED BY <1>5, Zenon DEF KeptList

\* The model's filterRange is that list after the last round.
LEMMA FilterIsKept ==
  ASSUME NEW s
  PROVE  FilterRange(s) = KeptList(s)[Len(s)]
BY Zenon DEF FilterRange, KeptList, KeptStep, KeptNext, Cut

\* Cutting the pages of an issue does not change whether it is a finding.
LEMMA CutSame ==
  ASSUME NEW i \in Issue
  PROVE  Cut(i) \in Issue /\ Finding(Cut(i)) = Finding(i)
BY Zenon DEF Cut, Issue, Finding, InRange

\* filterRange leaves a finding exactly when there was one on the pages asked for.
LEMMA FilterFindings ==
  ASSUME NEW s \in Seq(Issue)
  PROVE  NoFinding(FilterRange(s)) = ~(\E i \in DOMAIN s : Finding(s[i]) /\ Asked(s[i]))
<1> DEFINE k == KeptList(s)
           Has(q) == \E i \in DOMAIN q : Finding(q[i])
           Before(n) == \E i \in 1..n : Finding(s[i]) /\ Asked(s[i])
           P == {n \in Nat : n <= Len(s) => k[n] \in Seq(Issue) /\ (Has(k[n]) <=> Before(n))}
<1>1. k = KeptStep(s, k)
  BY KeptListStep
<1>2. k[0] = <<>> /\ \A n \in 1..Len(s) : k[n] = KeptNext(s, k[n - 1], n)
  <2> HIDE DEF k
  <2>1. \A n \in 0..Len(s) : k[n] = IF n = 0 THEN <<>> ELSE KeptNext(s, k[n - 1], n)
    BY <1>1, Zenon DEF KeptStep
  <2> QED BY <2>1
<1> HIDE DEF k
<1>3. 0 \in P
  <2>1. k[0] \in Seq(Issue) /\ ~Has(k[0]) /\ ~Before(0)
    BY <1>2
  <2> QED BY <2>1, Zenon
<1>4. ASSUME NEW n \in Nat, n \in P PROVE n + 1 \in P
  <2> SUFFICES ASSUME n + 1 <= Len(s) PROVE k[n + 1] \in Seq(Issue) /\ (Has(k[n + 1]) <=> Before(n + 1))
    OBVIOUS
  <2>1. k[n] \in Seq(Issue) /\ (Has(k[n]) <=> Before(n))
    BY <1>4
  <2>2. k[n + 1] = KeptNext(s, k[n], n + 1) /\ s[n + 1] \in Issue
    <3>1. n + 1 \in 1..Len(s) /\ (n + 1) - 1 = n
      OBVIOUS
    <3> QED BY <1>2, <3>1
  <2>3. Before(n + 1) <=> (Before(n) \/ (Finding(s[n + 1]) /\ Asked(s[n + 1])))
    OBVIOUS
  <2> DEFINE q == k[n]
             e == Cut(s[n + 1])
  <2>4. q \in Seq(Issue) /\ e \in Issue /\ Finding(e) = Finding(s[n + 1])
    BY <2>1, <2>2, CutSame, Zenon
  <2>5. Append(q, e) \in Seq(Issue) /\ (Has(Append(q, e)) <=> (Has(q) \/ Finding(e)))
    <3> HIDE DEF q, e
    <3>1. /\ Append(q, e) \in Seq(Issue) /\ DOMAIN q = 1..Len(q) /\ DOMAIN Append(q, e) = 1..(Len(q) + 1) /\ Len(q) \in Nat
          /\ Append(q, e)[Len(q) + 1] = e /\ \A i \in 1..Len(q) : Append(q, e)[i] = q[i]
      BY <2>4
    <3> DEFINE a == Append(q, e)
    <3> HIDE DEF a
    <3>2. /\ DOMAIN q = 1..Len(q) /\ DOMAIN a = 1..(Len(q) + 1) /\ Len(q) \in Nat
          /\ a[Len(q) + 1] = e /\ \A i \in 1..Len(q) : a[i] = q[i]
      BY <3>1, Zenon DEF a
    <3>3. Has(a) <=> (Has(q) \/ Finding(e))
      BY <3>2
    <3> QED BY <3>1, <3>3, Zenon DEF a
  <2> HIDE DEF Has, Before
  <2>6. CASE Asked(s[n + 1])
    <3>1. k[n + 1] = Append(q, e)
      BY <2>2, <2>6, Zenon DEF KeptNext
    <3> HIDE DEF q, e
    <3> QED BY <2>3, <2>4, <2>5, <2>6, <3>1, <2>1, Zenon DEF q
  <2>7. CASE ~Asked(s[n + 1])
    <3>1. k[n + 1] = k[n]
      BY <2>2, <2>7, Zenon DEF KeptNext
    <3> QED BY <2>1, <2>3, <2>7, <3>1, Zenon
  <2> QED BY <2>6, <2>7, Zenon
<1>5. Len(s) \in P
  <2> HIDE DEF P
  <2>1. Len(s) \in Nat
    OBVIOUS
  <2> QED BY <1>3, <1>4, <2>1, Induct, Zenon
<1>6. Has(FilterRange(s)) <=> Before(Len(s))
  <2>1. FilterRange(s) = k[Len(s)]
    BY FilterIsKept, Zenon DEF k
  <2>2. Has(k[Len(s)]) <=> Before(Len(s))
    BY <1>5
  <2> QED BY <2>1, <2>2, Zenon
<1>7. DOMAIN s = 1..Len(s)
  OBVIOUS
<1> QED BY <1>6, <1>7, Zenon DEF NoFinding

-----------------------------------------------------------------------------
\* A call of convertOnce has recorded nothing yet.
LEMMA BeganEmpty ==
  ASSUME NEW n, NEW o, NEW s, Begin(n, o, s)
  PROVE  Recorded'
<1>1. PICK q : f' = Frame(n, q, s)
  BY Zenon DEF Begin
<1>2. f'.issues = <<>>
  BY <1>1, Zenon DEF Frame
<1>3. <<>> \in Seq(Issues)
  OBVIOUS
<1> QED BY <1>2, <1>3, Zenon DEF Recorded

\* A pass records issues alone.
LEMMA PassRecords ==
  ASSUME f \in Frames(f), f.issues \in Seq(Issues), Pass
  PROVE  f'.issues \in Seq(Issues)
<1>1. ASSUME NEW a, Goto(a) PROVE f'.issues = f.issues
  BY <1>1, Zenon DEF Goto, Frames
<1>2. ASSUME NEW e, NEW a, Fatal(e, a) PROVE f'.issues = f.issues
  BY <1>2, Zenon DEF Fatal, Frames
<1>3. ASSUME Catch PROVE f'.issues = f.issues
  BY <1>3, Zenon DEF Catch, Frames
<1>4. ASSUME NEW a, Record(a) PROVE f'.issues \in Seq(Issues)
  <2>1. PICK i \in Issues : f' = [f EXCEPT !.issues = Append(@, i), !.at = a]
    BY <1>4, Zenon DEF Record
  <2>2. f'.issues = Append(f.issues, i)
    BY <2>1, Zenon DEF Frames
  <2> QED BY <2>2
<1>5. CASE Open \/ Early \/ Pages \/ Middle \/ Late \/ Verdict
  <2>1. Catch \/ (\E a : Goto(a) \/ Record(a)) \/ (\E e, a : Fatal(e, a))
    BY <1>5, Zenon DEF Open, Early, Pages, Middle, Late, Verdict
  <2> QED BY <2>1, <1>1, <1>2, <1>3, <1>4, Zenon
<1>6. CASE Placeholder
  <2>1. CASE f' = [f EXCEPT !.placed = Signs, !.at = "late"]
    BY <2>1, Zenon DEF Frames
  <2> QED BY <1>2, <1>3, <1>6, <2>1, Zenon DEF Placeholder
<1>7. CASE Serialize
  <2> DEFINE p == [try |-> f.name, std |-> Standards, signed |-> FALSE]
             a == IF Signs THEN "sign" ELSE "verdict"
  <2>1. CASE f' = [f EXCEPT !.pdf = p, !.at = a]
    <3> HIDE DEF p, a
    <3> QED BY <2>1, Zenon DEF Frames
  <2> QED BY <1>2, <1>3, <1>7, <2>1, Zenon DEF Serialize
<1>8. CASE Sign
  <2>1. CASE f' = [f EXCEPT !.pdf.signed = TRUE, !.at = "verdict"]
    BY <2>1, Zenon DEF Frames
  <2> QED BY <1>2, <1>3, <1>8, <2>1, Zenon DEF Sign
<1> QED BY <1>5, <1>6, <1>7, <1>8, Zenon DEF Pass

\* A step of a conversion after its call; a check takes none of them.
LEMMA ConvertV ==
  ASSUME VInv, pc # "idle", ~opt.verifyOnly, opt' = opt, pc' # "first", Recorded'
  PROVE  VInv'
BY Zenon DEF VInv, Concluded, Checked, OneCut

\* The page range, if there is one, decides which findings count.
LEMMA TrimVerdict ==
  ASSUME PInv, VInv, Trim, opt.verifyOnly, r.ok
  PROVE  r'.compliant = ~AskedFinding(found)
<1>0. pc = "trim" /\ pc # "idle" /\ opt \in Opt /\ r \in Results(r) /\ r.ok = TRUE
  BY Facts, Zenon DEF Trim, Results
<1>1. found \in Seq(Issues) /\ r.issues = found /\ r.compliant = NoFinding(found)
  <2>1. found \in Seq(Issues) /\ r.issues = found /\ r.compliant = (r.ok /\ NoFinding(found))
    BY <1>0, Zenon DEF VInv, Checked
  <2> HIDE DEF NoFinding
  <2>2. NoFinding(found) \in BOOLEAN
    BY Zenon DEF NoFinding
  <2> QED BY <1>0, <2>1, <2>2, Zenon
<1>2. found \in Seq(Issue)
  <2>1. Issues \subseteq Issue
    BY IssuesAssumption, Zenon DEF Issue
  <2> QED BY <1>1, <2>1
<1>3. CASE opt.range
  <2>1. ~opt.quick
    BY <1>0, <1>3, Zenon DEF VInv, OneCut
  <2> DEFINE b == FilterRange(found)
             c == NoFinding(b)
  <2>2. r' = [r EXCEPT !.issues = b, !.compliant = c]
    BY <1>0, <1>1, <1>3, <2>1, Zenon DEF Trim
  <2>3. r'.compliant = c
    <3> HIDE DEF b, c
    <3> QED BY <1>0, <2>2, Zenon DEF Results
  <2>4. c = ~(\E i \in DOMAIN found : Finding(found[i]) /\ Asked(found[i]))
    BY <1>2, FilterFindings, Zenon
  <2> QED BY <1>3, <2>3, <2>4, Zenon DEF AskedFinding, Asked
<1>4. CASE ~opt.range
  <2>1. PICK b : r' = [r EXCEPT !.issues = b, !.compliant = r.compliant]
    BY <1>4, Zenon DEF Trim
  <2>2. r'.compliant = r.compliant
    BY <1>0, <2>1, Zenon DEF Results
  <2> QED BY <1>1, <1>4, <2>2, Zenon DEF AskedFinding, NoFinding
<1> QED BY <1>3, <1>4, Zenon

\* Every step keeps the verdict of a check.
LEMMA VerdictInv == ASSUME OneCutAsked, PInv, TInv, VInv, [Next]_vars PROVE VInv'
<1>1. CASE UNCHANGED vars
  <2>1. UNCHANGED <<f, ret, pc, opt, r, exit, found>>
    BY <1>1, Zenon DEF vars, engine, call
  <2> QED BY <2>1, Zenon DEF VInv, Recorded, Concluded, Checked, OneCut, AskedFinding, Exit
<1>2. CASE Run
  <2>0. /\ UNCHANGED <<pc, opt, r, exit, found>>
        /\ (Pass /\ UNCHANGED <<inDual, outer, ret>>) \/ Return \/ Escape
    BY <1>2, Zenon DEF Run, Engine, call
  <2>1. Checked' /\ OneCut'
    BY <2>0, Zenon DEF VInv, Checked, OneCut, AskedFinding, Exit
  <2>2. f # NoRun /\ f \in Frames(f) /\ f.issues \in Seq(Issues)
    BY <1>2, AtWork, Zenon DEF VInv, Recorded
  <2>3. CASE Pass /\ UNCHANGED <<inDual, outer, ret>>
    <3>1. Recorded'
      BY <2>2, <2>3, PassRecords, Zenon DEF Recorded
    <3>2. Concluded'
      BY <2>0, <2>3, Zenon DEF VInv, Concluded
    <3> QED BY <2>1, <3>1, <3>2, Zenon DEF VInv
  <2>4. CASE Return /\ outer.stage = "first" /\ Ok
    <3>1. f' = Frame(outer.name, DualA(outer.opt), f.pdf) /\ ret' = ret
      BY <2>4, Zenon DEF Return
    <3>2. f'.issues = <<>>
      BY <3>1, Zenon DEF Frame
    <3>3. <<>> \in Seq(Issues)
      OBVIOUS
    <3> QED BY <2>0, <2>1, <3>1, <3>2, <3>3, Zenon DEF VInv, Recorded, Concluded
  <2>5. CASE Return /\ ~(outer.stage = "first" /\ Ok)
    <3>1. f' = NoRun /\ ret' = Result
      BY <2>5, Zenon DEF Return
    <3>2. ASSUME pc = "first", opt.verifyOnly
          PROVE  ret'.issues \in Seq(Issues) /\ ret'.compliant = (ret'.ok /\ NoFinding(ret'.issues))
      <4>1. f.opt = opt /\ f.opt.verifyOnly
        BY <2>2, <3>2, Zenon DEF PInv, EInv, Working, CallOpt, Converting, WantsDual
      <4>2. ret'.issues = f.issues /\ ret'.ok = Ok /\ ret'.compliant = (f.opt.verifyOnly /\ Ok /\ NoFinding(f.issues))
        BY <3>1, Zenon DEF Result
      <4> QED BY <2>2, <4>1, <4>2, Zenon
    <3> QED BY <2>0, <2>1, <3>1, <3>2, Zenon DEF VInv, Recorded, Concluded
  <2>6. CASE Escape
    BY <2>0, <2>1, <2>6, Zenon DEF Escape, VInv, Recorded, Concluded
  <2> QED BY <2>0, <2>3, <2>4, <2>5, <2>6, Zenon
<1>3. ASSUME NEW j \in Jobs, Start(j) PROVE VInv'
  <2>1. /\ pc' = "first" /\ Begin("first", opt', Input) /\ ret' = NoRet
        /\ opt' = IF j.prof.given THEN Merged(j.opt, j.prof) ELSE j.opt
    BY <1>3, Zenon DEF Start, Begin
  <2>2. j.opt \in Opt
    BY JobsAssumption, Zenon
  <2>3. opt'.quick = j.opt.quick /\ opt'.range = j.opt.range
    BY <2>1, <2>2, MergedCut, Zenon
  <2>4. OneCut'
    BY <2>3, Zenon DEF OneCut, OneCutAsked
  <2>5. Recorded'
    BY <2>1, BeganEmpty, Zenon
  <2> QED BY <2>1, <2>4, <2>5, Zenon DEF VInv, Concluded, Checked
<1>4. ASSUME NEW j \in Jobs, CannotOpen(j) PROVE VInv'
  <2>1. pc = "idle" /\ pc' = "done" /\ opt' = j.opt /\ UNCHANGED <<f, ret, r>> /\ ~r.ok
    BY <1>4, Zenon DEF CannotOpen, engine, TInv
  <2> QED BY <2>1, Zenon DEF VInv, Recorded, Concluded, Checked, OneCut, OneCutAsked
<1>5. CASE First
  <2>1. /\ pc = "first" /\ opt' = opt /\ f = NoRun /\ ret # NoRet /\ ret # Thrown
    BY <1>5, Came, Zenon DEF First
  <2>2. CASE opt.verifyOnly
    <3>1. /\ pc' = "trim" /\ f' = f /\ found' = ret.issues /\ r' = Core(ret)
      BY <1>5, <2>2, Zenon DEF First, WantsFallback
    <3>2. ret.issues \in Seq(Issues) /\ ret.compliant = (ret.ok /\ NoFinding(ret.issues))
      BY <2>1, <2>2, Zenon DEF VInv, Concluded
    <3>3. r'.issues = ret.issues /\ r'.ok = ret.ok /\ r'.compliant = ret.compliant
      BY <3>1, Zenon DEF Core
    <3>4. Recorded'
      BY <2>1, <3>1, Zenon DEF Recorded
    <3>5. Concluded' /\ OneCut'
      BY <2>1, <3>1, Zenon DEF VInv, Concluded, OneCut
    <3>6. Checked'
      BY <3>1, <3>2, <3>3, Zenon DEF Checked
    <3> QED BY <3>4, <3>5, <3>6, Zenon DEF VInv
  <2>3. CASE ~opt.verifyOnly
    <3>1. pc' # "first" /\ (f' = f \/ Begin("check", CheckOf(opt), ret.pdf))
      BY <1>5, Zenon DEF First
    <3>2. Recorded'
      BY <2>1, <3>1, BeganEmpty, Zenon DEF Recorded
    <3> QED BY <2>1, <2>3, <3>1, <3>2, ConvertV, Zenon
  <2> QED BY <2>2, <2>3, Zenon
<1>6. CASE Check1 \/ Check2 \/ Image \/ Recheck \/ Reconvert \/ NoReconvert \/ Second \/ Raster \/ NoRaster
  <2>1. /\ pc \in {"check1", "check2", "image", "recheck", "fallback", "second", "raster"} /\ opt' = opt /\ pc' # "first"
        /\ f' = f \/ \E n, o, s : Begin(n, o, s)
    BY <1>6, Zenon DEF Check1, Check2, Image, Recheck, Reconvert, NoReconvert, Second, Raster, NoRaster, Awaited, engine
  <2>2. ~opt.verifyOnly
    BY <2>1, Zenon DEF VInv, Checked
  <2>3. Recorded'
    BY <2>1, BeganEmpty, Zenon DEF VInv, Recorded
  <2> QED BY <2>1, <2>2, <2>3, ConvertV, Zenon
<1>7. CASE Trim
  <2>1. pc = "trim" /\ pc' = "only" /\ UNCHANGED <<opt, f, ret, found>> /\ r'.ok = r.ok
    BY <1>7, TrimmedSame, Zenon DEF Trim, engine
  <2>2. AskedFinding(found)' = AskedFinding(found)
    BY <2>1, Zenon DEF AskedFinding
  <2>3. Checked'
    BY <1>7, <2>1, <2>2, TrimVerdict, Zenon DEF Checked
  <2> QED BY <2>1, <2>3, Zenon DEF VInv, Recorded, Concluded, OneCut
<1>8. CASE OnlyPdfa
  <2>1. /\ pc = "only" /\ UNCHANGED <<opt, r, found>> /\ pc' \in {"recheck", "write"}
        /\ f' = f \/ Begin("check", PlainCheck(opt), r.pdf)
        /\ opt.verifyOnly => pc' = "write"
    BY <1>8, Zenon DEF OnlyPdfa, engine
  <2>2. Recorded'
    BY <2>1, BeganEmpty, Zenon DEF VInv, Recorded
  <2>3. Checked'
    BY <2>1, Zenon DEF VInv, Checked, AskedFinding
  <2> QED BY <2>1, <2>2, <2>3, Zenon DEF VInv, Concluded, OneCut
<1>9. CASE Write \/ Certify
  <2>1. /\ pc \in {"write", "certify"} /\ UNCHANGED <<opt, r, found, f>> /\ pc' \in {"certify", "done"}
        /\ opt.verifyOnly /\ pc' = "done" => exit' = Exit
    BY <1>9, Zenon DEF Write, Certify, engine
  <2>2. Exit' = Exit
    BY <2>1, Zenon DEF Exit
  <2>3. Checked'
    BY <2>1, <2>2, Zenon DEF VInv, Checked, AskedFinding
  <2> QED BY <2>1, <2>3, Zenon DEF VInv, Recorded, Concluded, OneCut
<1>10. CASE Again \/ Rethrow
  <2>1. pc' = "idle" /\ f' = f
    BY <1>10, Zenon DEF Again, Rethrow, Fresh, engine
  <2> QED BY <2>1, Zenon DEF VInv, Recorded, Concluded, Checked, OneCut
<1> QED BY <1>1, <1>2, <1>3, <1>4, <1>5, <1>6, <1>7, <1>8, <1>9, <1>10, Zenon DEF Next

\* The exit status of a check, for every call that does not ask for the first
\* finding of a page range, and for documents with any number of issues: 1 if
\* there is a finding it was asked about, else 0 (convertOnce's compliant,
\* filterRange and the end of runOne).
THEOREM ExitIsVerdict == ASSUME OneCutAsked PROVE Spec => []ExitTellsFindings
<1>1. Init => VInv
  BY Zenon DEF Init, EngineInit, VInv, Recorded, Concluded, Checked, OneCut
<1>2. PInv /\ TInv /\ VInv /\ [Next]_vars => VInv'
  BY VerdictInv, Zenon
<1>3. VInv => ExitTellsFindings
  BY Zenon DEF VInv, Checked, ExitTellsFindings, Exit
<1> QED BY <1>1, <1>2, <1>3, Invariance, TriesInOrder, PTL DEF Spec

-----------------------------------------------------------------------------
(* A profile's plan, which runOne runs instead of runPrepared *)

\* A plan run as a check leaves the document as it is, for all plans and any
\* number of rounds: fixes and converting profiles among its steps run as
\* checks too (o.verifyOnly in runPlan).
THEOREM CheckPlansOnlyCheck == PlanSpec => []ChecksNeverConvert
<1>1. PlanInit => ChecksNeverConvert
  BY Zenon DEF PlanInit, ChecksNeverConvert
<1>2. ChecksNeverConvert /\ [PlanNext]_planVars => ChecksNeverConvert'
  <2> SUFFICES ASSUME ChecksNeverConvert, [PlanNext]_planVars PROVE ChecksNeverConvert'
    OBVIOUS
  <2>1. CASE Skip \/ Variable \/ Impossible \/ RunRefused \/ RunChecks
    BY <2>1, Zenon DEF Skip, Variable, Impossible, RunRefused, RunChecks, ChecksNeverConvert, planInput
  <2>2. CASE Revert
    BY <2>2, Zenon DEF Revert, ChecksNeverConvert, planInput
  <2>3. CASE RunConverts
    BY <2>3, Zenon DEF RunConverts, StepVerifies, ChecksNeverConvert, planInput
  <2>4. CASE PlanFinish
    BY <2>4, Zenon DEF PlanFinish, ChecksNeverConvert, planInput
  <2>5. CASE UNCHANGED planVars
    BY <2>5, Zenon DEF planVars, ChecksNeverConvert
  <2>. QED BY <2>1, <2>2, <2>3, <2>4, <2>5, Zenon DEF PlanNext, PlanStep, PlanDone
<1>. QED BY <1>1, <1>2, PTL DEF PlanSpec
=============================================================================
