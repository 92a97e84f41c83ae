------------------------------- MODULE MCPlan -------------------------------
(* Plans of one or two steps with jumps forward, back, to the end and to a     *)
(* step that does not exist.                                                   *)
EXTENDS Plan

Nexts == [pass : {"", "a"}, error : {"", "b"}, default : {"", "end", "gone"}]
Kinds ==
  {[do |-> d, known |-> TRUE, converts |-> FALSE, checks |-> FALSE] : d \in {"check", "fix", "variable", "revert"}}
    \cup [do : {"profile"}, known : {TRUE}, converts : BOOLEAN, checks : BOOLEAN]
    \cup {[do |-> "fix", known |-> FALSE, converts |-> FALSE, checks |-> FALSE]}
StepOf(id, k, e, n) ==
  [id |-> id, do |-> k.do, known |-> k.known, converts |-> k.converts, checks |-> k.checks,
   enabled |-> e, next |-> n]
Steps(id) == {StepOf(id, k, e, n) : k \in Kinds, e \in {TRUE}, n \in Nexts}
               \cup {StepOf(id, k, FALSE, [pass |-> "", error |-> "", default |-> ""]) :
                       k \in {x \in Kinds : x.do = "check"}}

MCPlans == {<<s>> : s \in Steps("a")} \cup {<<s, t>> : s \in Steps("a"), t \in Steps("b")}
=============================================================================
