------------------------------- MODULE Convert -------------------------------
(* convertOnce (pdfa-engine/core/src/engine.cpp): one conversion or check of a *)
(* document, pass after pass, and the two conversions in a row that --dual and *)
(* a profile's "also" make of one.                                             *)
(*                                                                             *)
(* What a pass makes of a document is left open: any pass that can may record  *)
(* an issue, fail or throw.  Passes with the same guards and no effect the     *)
(* properties tell apart are one stage.  A file is known by the try it came    *)
(* from, the standards it was converted to and whether it is signed.           *)
EXTENDS Naturals, Sequences

CONSTANTS Issues,    \* records [pages, fixed, normalization]
          MaxIssues  \* issues a check records, at most; those of a conversion are not kept

ASSUME IssuesAssumption == Issues \subseteq [pages : SUBSET Nat, fixed : BOOLEAN, normalization : BOOLEAN]

VARIABLES inDual,  \* thread_local inDualPass
          outer,   \* the convertOnce that runs two conversions
          f,       \* the convertOnce that is at work
          ret      \* what it has returned to its caller
engine == <<inDual, outer, f, ret>>

NoFile == [try |-> "none", std |-> {}, signed |-> FALSE]
Input == [NoFile EXCEPT !.try = "input"]
NoRun == [at |-> "none"]
NoOuter == [stage |-> "none"]
NoRet == [on |-> FALSE]
Thrown == [on |-> TRUE, thrown |-> TRUE]

EngineInit == inDual = FALSE /\ outer = NoOuter /\ f = NoRun /\ ret = NoRet

Frame(name, o, src) ==
  [at |-> "open", name |-> name, opt |-> o, src |-> src, err |-> "", issues |-> <<>>, placed |-> FALSE, pdf |-> NoFile]

\* Options first and second: only the second conversion signs, and it has
\* neither the profile nor the rasterizer.
DualX(o) == [o EXCEPT !.fam = "X", !.sign = FALSE]
DualA(o) == [o EXCEPT !.rasterizer = FALSE]

WantsDual(o) == o.dual /\ o.fam = "A" /\ o.dualPart /\ ~o.verifyOnly

\* The call of convertOnce(src, o).
Begin(name, o, src) ==
  /\ ret' = NoRet
  /\ IF WantsDual(o) /\ ~inDual
     THEN /\ outer' = [stage |-> "first", opt |-> o, name |-> name]
          /\ f' = Frame(name, DualX(o), src) /\ inDual' = TRUE
     ELSE f' = Frame(name, o, src) /\ UNCHANGED <<outer, inDual>>

\* ctx.fatal; the rest of the unguarded passes runs, to no effect
Fatal(e, at) == f' = [f EXCEPT !.err = e, !.at = at]
Goto(at) == f' = [f EXCEPT !.at = at]
\* an exception, caught at the end of convertOnce
Catch == f' = [f EXCEPT !.err = "PARSE_ERROR", !.at = "return"]

Refusal ==
  IF f.opt.ua /\ f.opt.fam # "A" THEN "UA_UNSUPPORTED_LEVEL"
  ELSE IF f.opt.checkLevel /\ ~f.opt.verifyOnly THEN "LEVEL_VERIFY_ONLY" ELSE ""

\* Reading, decrypting, the level's own conditions, the nesting of the pages.
Open ==
  /\ f.at = "open"
  /\ \/ Catch
     \/ Refusal # "" /\ Fatal(Refusal, "return")
     \/ Refusal = "" /\ (Goto("early") \/ Fatal("NESTING_TOO_DEEP", "return"))

Record(at) ==
  /\ f.opt.verifyOnly /\ Len(f.issues) < MaxIssues
  /\ \E i \in Issues : f' = [f EXCEPT !.issues = Append(@, i), !.at = at]

\* passAnalyze to checkFileSyntax, which do not ask whether one before failed
Early == f.at = "early" /\ (Catch \/ Record("early") \/ Goto("pages") \/ Fatal("REFUSED", "pages"))

\* passPages: a failed pass before it, or a page to be made an image and
\* nothing to do it with
Pages ==
  /\ f.at = "pages"
  /\ IF f.err # "" THEN Goto("verdict")
     ELSE IF f.opt.raster /\ ~f.opt.rasterizer THEN Fatal("RASTERIZER_UNAVAILABLE", "verdict")
     ELSE Catch \/ Record("pages") \/ Goto("middle") \/ Fatal("REFUSED", "verdict")

\* passImageResolution to passTagging
Middle == f.at = "middle" /\ (Catch \/ Record("middle") \/ Goto("placeholder") \/ Fatal("REFUSED", "verdict"))

Signs == f.opt.sign /\ ~f.opt.verifyOnly

\* addSignaturePlaceholder, which needs a page to put the field on
Placeholder ==
  /\ f.at = "placeholder"
  /\ \/ f' = [f EXCEPT !.placed = Signs, !.at = "late"]
     \/ Signs /\ (Catch \/ Fatal("SIGN_NO_PAGES", "verdict"))

\* passBookmarks, passMetadata, passLimits
Late ==
  /\ f.at = "late"
  /\ Catch \/ Record("late") \/ Fatal("REFUSED", "verdict") \/ Goto(IF f.opt.verifyOnly THEN "verdict" ELSE "serialize")

\* The standards of the written file: dualX() keeps what the first pass made.
Standards == {f.opt.fam} \cup (IF f.opt.dual /\ f.opt.fam = "A" /\ f.opt.dualPart THEN f.src.std ELSE {})

\* serialize, with its own test of the bytes
Serialize ==
  /\ f.at = "serialize"
  /\ \/ Catch \/ Fatal("SERIALIZE_ERROR", "verdict")
     \/ f' = [f EXCEPT !.pdf = [try |-> f.name, std |-> Standards, signed |-> FALSE],
                       !.at = IF Signs THEN "sign" ELSE "verdict"]

\* applySignature fills the placeholder of the written bytes.
Sign ==
  /\ f.at = "sign"
  /\ \/ Catch \/ Fatal("SIGN_FAILED", "verdict")
     \/ f.placed /\ f' = [f EXCEPT !.pdf.signed = TRUE, !.at = "verdict"]

Verdict == f.at = "verdict" /\ Goto("return")

Finding(i) == i.fixed /\ ~i.normalization
NoFinding(s) == \A i \in DOMAIN s : ~Finding(s[i])
Ok == f.err = ""
Result ==
  [on |-> TRUE, thrown |-> FALSE, ok |-> Ok, err |-> f.err, pdf |-> IF Ok THEN f.pdf ELSE NoFile,
   compliant |-> f.opt.verifyOnly /\ Ok /\ NoFinding(f.issues), issues |-> f.issues,
   level |-> IF outer.stage = "second" /\ Ok THEN {"A", "X"} ELSE {f.opt.fam}]

\* The end of convertOnce; the first conversion of two is followed by the
\* second unless it was refused.
Return ==
  /\ f.at = "return"
  /\ IF outer.stage = "first" /\ Ok
     THEN /\ f' = Frame(outer.name, DualA(outer.opt), f.pdf) /\ outer' = [outer EXCEPT !.stage = "second"]
          /\ inDual' = TRUE /\ UNCHANGED ret
     ELSE /\ f' = NoRun /\ outer' = NoOuter /\ ret' = Result
          /\ inDual' = IF outer.stage = "none" THEN inDual ELSE FALSE

EscapeKeepsFlag ==
  /\ f.at = "return" /\ f' = NoRun /\ outer' = NoOuter /\ ret' = Thrown /\ UNCHANGED inDual

\* An exception that leaves convertOnce: its result cannot be copied.
Escape ==
  /\ f.at = "return" /\ f' = NoRun /\ outer' = NoOuter /\ ret' = Thrown
  /\ inDual' = IF outer.stage = "none" THEN inDual ELSE FALSE

Pass == Open \/ Early \/ Pages \/ Middle \/ Placeholder \/ Late \/ Serialize \/ Sign \/ Verdict
Engine == (Pass /\ UNCHANGED <<inDual, outer, ret>>) \/ Return \/ Escape
=============================================================================
