------------------------------ MODULE MCJobArgs ------------------------------
(* Small instances of JobArgs: two or three keys of each table, and families  *)
(* of requests that vary one group of parameters at a time.                   *)
EXTENDS JobArgs

MCBool == <<"ua">>
MCText == <<"lang", "registry", "rasterDpi", "imageMaxPpi">>
MCFile == <<"xml", "destProfile">>

None == [t |-> "none", v |-> ""]
Text(v) == [t |-> "text", v |-> v]
Upload == [t |-> "file", v |-> ""]

Plain == [kind |-> "convert", body |-> "in.pdf", pw |-> Absent,
          q |-> [k \in Keys |-> IF k = "level" THEN "2b" ELSE Absent],
          f |-> [k \in Keys |-> None]]

\* the document and the level, in the query and in the form
LevelRequests ==
  {[Plain EXCEPT !.kind = kind, !.body = b, !.q["level"] = l, !.f["level"] = f] :
     kind \in {"convert", "check"}, b \in {"in.pdf", "in.jpg", "other", "none"},
     l \in {Absent, "", "2b", "x4p"}, f \in {None, Text("2b"), Upload}}

\* texts, among them ones spelled like flags, beside passwords
Texts == {Absent, "", "word", "check", "batch", "version", "registry", "nul"}
TextRequests ==
  {[Plain EXCEPT !.kind = kind, !.pw = p, !.f["password"] = fp, !.q["ua"] = u,
                 !.q["lang"] = l, !.f["lang"] = fl, !.q["registry"] = g] :
     kind \in {"convert", "check"}, p \in {Absent, "", "level"}, fp \in {None, Text("nul"), Text("ua")},
     u \in {Absent, "true", "false"}, l \in Texts, fl \in {None, Text("version")}, g \in {Absent, "", "word", "lang"}}

\* profiles and attached files
FileRequests ==
  {[Plain EXCEPT !.kind = kind, !.q["profile"] = p, !.f["profile"] = fp, !.f["xml"] = x, !.f["destProfile"] = d] :
     kind \in {"convert", "check"}, p \in {Absent, "", "press", "gone"}, fp \in {None, Text("word"), Upload},
     x \in {None, Text("word"), Upload}, d \in {None, Upload}}

\* numbers
NumberRequests ==
  {[Plain EXCEPT !.kind = kind, !.q["rasterDpi"] = d, !.f["imageMaxPpi"] = i] :
     kind \in {"convert", "check"}, d \in {Absent, "word"} \cup Numbers, i \in {None} \cup {Text(n) : n \in Numbers}}

VerifyRequests ==
  {[Plain EXCEPT !.kind = "verify", !.pw = p, !.q["lang"] = "word"] : p \in {Absent, "", "word", "verify-password"}}

ReportRequests ==
  {[Plain EXCEPT !.q["report"] = r, !.f["report"] = f] : r \in {Absent, "json"}, f \in {None, Text("json")}}

AllRequests ==
  LevelRequests \cup TextRequests \cup FileRequests \cup NumberRequests \cup VerifyRequests \cup ReportRequests
=============================================================================
