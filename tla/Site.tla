-------------------------------- MODULE Site --------------------------------
(* A tab of the browser with one of the site's two pages.  Each page load has *)
(* an engine of its own, so the pages never meet.                             *)
EXTENDS AppPage, PreflightPage

VARIABLE tab
vars == <<tab, site, app, pre>>

Init == tab \in {"app", "preflight"} /\ SiteInit /\ AppInit /\ PreInit

OnApp(A) == tab = "app" /\ A /\ UNCHANGED <<tab, pre>>
OnPreflight(A) == tab = "preflight" /\ A /\ UNCHANGED <<tab, app>>
Next == OnApp(AppNext) \/ OnPreflight(PreNext)

\* The engine answers every request while it is there, and files can be read.
\* Nothing is assumed of the user.
FairSpec ==
  /\ Init /\ [][Next]_vars
  /\ WF_vars(OnApp(RowAnswers)) /\ WF_vars(OnApp(LoopAnswer))
  /\ WF_vars(OnPreflight(FileAnswers)) /\ WF_vars(OnPreflight(Reads))
=============================================================================
