------------------------------ MODULE MCPrepared ------------------------------
(* Small instances of Prepared: every course of a conversion's fallbacks, and *)
(* checks that record up to two issues on two pages.                          *)
EXTENDS Prepared

Issue(p, x, n) == [pages |-> p, fixed |-> x, normalization |-> n]
MCIssues ==
  {Issue({}, TRUE, FALSE), Issue({1}, TRUE, FALSE), Issue({2}, TRUE, FALSE), Issue(Page, TRUE, FALSE),
   Issue({}, TRUE, TRUE), Issue({1}, FALSE, FALSE)}

NoProfile == [given |-> FALSE, level |-> "none", also |-> FALSE, reconvert |-> FALSE, rasterFallback |-> FALSE]
ProfilesTo(L) == [given : {TRUE}, level : L, also : BOOLEAN, reconvert : BOOLEAN, rasterFallback : BOOLEAN]

Plain ==
  [verifyOnly |-> FALSE, fam |-> "A", dualPart |-> TRUE, dual |-> FALSE, ua |-> FALSE, checkLevel |-> FALSE,
   sign |-> FALSE, rasterizer |-> TRUE, raster |-> FALSE, levelFromProfile |-> FALSE, reconvert |-> FALSE,
   dpi |-> FALSE, quick |-> FALSE, range |-> FALSE, onlyPdfa |-> FALSE, certify |-> FALSE]

\* Conversions by the command line's options alone
ByOptions ==
  {[opt |-> [Plain EXCEPT !.fam = a, !.dualPart = d, !.dual = x, !.ua = u, !.sign = s, !.onlyPdfa = o], prof |-> NoProfile] :
     a \in {"A", "X"}, d, x, u, s, o \in BOOLEAN}
\* with a profile's convert section
ByProfile(L) ==
  {[opt |-> [Plain EXCEPT !.levelFromProfile = l, !.sign = s, !.raster = p, !.rasterizer = z], prof |-> f1] :
     l, s, p, z \in BOOLEAN, f1 \in ProfilesTo(L)}
ChecksOf(Quicks, Ranges) ==
  {[opt |-> [Plain EXCEPT !.verifyOnly = TRUE, !.reconvert = c, !.checkLevel = l, !.quick = q, !.range = g], prof |-> NoProfile] :
     c, l \in BOOLEAN, q \in Quicks, g \in Ranges}
CheckLevel == {[opt |-> [Plain EXCEPT !.fam = "X", !.checkLevel = TRUE], prof |-> NoProfile]}
Certified == {[opt |-> [Plain EXCEPT !.sign = s, !.certify = TRUE], prof |-> NoProfile] : s \in BOOLEAN}

\* every check but one that asks for the first finding of a page range
UsualJobs ==
  ByOptions \cup ByProfile({"none", "A", "X"}) \cup ChecksOf({FALSE}, BOOLEAN) \cup ChecksOf({TRUE}, {FALSE})
    \cup CheckLevel \cup Certified
QuickRangeJobs == ChecksOf({TRUE}, {TRUE})

\* the convert section docs/preflight.md gives as its example
DocExample == {j \in ByProfile({"X"}) : j.opt.levelFromProfile /\ j.prof.reconvert /\ ~j.prof.also}
\* a profile with "also" and "raster_fallback"
AlsoFallback == {j \in ByProfile({"A"}) : j.prof.also /\ j.prof.rasterFallback /\ ~j.opt.raster}
=============================================================================
