-------------------------------- MODULE Plan --------------------------------
(* runPlan (pdfa-engine/core/src/jobs.cpp): the interpreter of a profile's    *)
(* plan, which runs checks, fixes and other profiles on one document and      *)
(* picks the next step from the result of the last.                           *)
(*                                                                            *)
(* A step is a record: its id, what it does, whether it is enabled, whether   *)
(* the check, fix, profile or variable it names exists (known), whether its   *)
(* profile converts and has checks, and where it goes next for a clean        *)
(* result (pass), for an error, and otherwise.  "" is an entry left out.      *)
EXTENDS Integers, Sequences, FiniteSets

CONSTANTS Plans,    \* the plans that may be run
          MaxSteps  \* rounds of the loop, 256 in the code

VARIABLES plan,       \* the steps
          verifyOnly, \* a check was asked for
          readable,   \* the engine can read the document
          at, guard,  \* the loop's variables; 0 is the code's -1
          cur,        \* the document now: "input" or "converted"
          converted, compliant, issues,
          announced,  \* the next step the last PLAN_STEP named, 0 for "end"
          planPc

planVars == <<plan, verifyOnly, readable, at, guard, cur, converted, compliant, issues, announced, planPc>>
planInput == <<plan, verifyOnly, readable>>

PlanInit ==
  /\ plan \in Plans /\ verifyOnly \in BOOLEAN /\ readable \in BOOLEAN
  /\ at = 1 /\ guard = 0 /\ cur = "input" /\ converted = FALSE /\ compliant = TRUE
  /\ issues = {} /\ announced = 1 /\ planPc = "loop"

Looping == planPc = "loop" /\ at \in DOMAIN plan /\ guard < MaxSteps
Round == guard' = guard + 1

\* The last step with an id is the one that is found.
StepNamed(id) == {k \in DOMAIN plan : plan[k].id = id /\ \A m \in DOMAIN plan : plan[m].id = id => m <= k}

Target(next, sev) ==
  LET own == CASE sev = 0 -> next.pass [] sev = 3 -> next.error
  IN IF own # "" THEN own ELSE next.default

\* The end of a round: where to go, and the PLAN_STEP entry that says so.
JumpUncounted(sev, failed) ==
  LET t == Target(plan[at].next, sev)
      lost == t \notin {"", "end"} /\ StepNamed(t) = {}
      to == IF t = "" THEN at + 1 ELSE IF t = "end" \/ lost THEN 0 ELSE CHOOSE k \in StepNamed(t) : TRUE
  IN /\ at' = to
     /\ announced' = IF to \in DOMAIN plan THEN to ELSE 0
     /\ issues' = issues \cup (IF failed \/ lost THEN {"PLAN_STEP_FAILED"} ELSE {})
     /\ UNCHANGED guard

Jump(sev, failed) ==
  LET t == Target(plan[at].next, sev)
      lost == t \notin {"", "end"} /\ StepNamed(t) = {}
      to == IF t = "" THEN at + 1 ELSE IF t = "end" \/ lost THEN 0 ELSE CHOOSE k \in StepNamed(t) : TRUE
  IN /\ at' = to
     /\ announced' = IF to \in DOMAIN plan THEN to ELSE 0
     /\ issues' = issues \cup (IF failed \/ lost THEN {"PLAN_STEP_FAILED"} ELSE {})
     /\ Round

-----------------------------------------------------------------------------
\* A disabled step takes a round and reports nothing.
Skip ==
  /\ Looping /\ ~plan[at].enabled
  /\ at' = at + 1 /\ Round
  /\ UNCHANGED <<planInput, cur, converted, compliant, issues, announced, planPc>>

Revert ==
  /\ Looping /\ plan[at].enabled /\ plan[at].do = "revert"
  /\ cur' = "input" /\ Jump(0, FALSE)
  /\ UNCHANGED <<planInput, converted, compliant, planPc>>

\* The value of a variable decides like a check: one that is not truthy is an
\* error.  Its script may fail.
Variable ==
  /\ Looping /\ plan[at].enabled /\ plan[at].do = "variable" /\ plan[at].known
  /\ \/ \E sev \in {0, 3} : Jump(sev, FALSE)
     \/ Jump(3, TRUE)
  /\ UNCHANGED <<planInput, cur, converted, compliant, planPc>>

\* A step of an unknown kind, or one that names nothing the profile has.
Impossible ==
  /\ Looping /\ plan[at].enabled /\ plan[at].do # "revert" /\ ~plan[at].known
  /\ Jump(3, TRUE)
  /\ UNCHANGED <<planInput, cur, converted, compliant, planPc>>

Runs == Looping /\ plan[at].enabled /\ plan[at].known /\ plan[at].do \in {"check", "fix", "profile"}
Converts == plan[at].do = "fix" \/ (plan[at].do = "profile" /\ plan[at].converts)

StepVerifiesOnlyChecks == ~Converts

StepVerifies == verifyOnly \/ ~Converts

\* runPrepared refuses the document.
RunRefused ==
  /\ Runs
  /\ Jump(3, TRUE)
  /\ UNCHANGED <<planInput, cur, converted, compliant, planPc>>

RunChecks ==
  /\ Runs /\ StepVerifies /\ readable
  /\ \E sev \in {0, 3} : Jump(sev, FALSE)
  /\ compliant' \in {compliant, FALSE}
  /\ UNCHANGED <<planInput, cur, converted, planPc>>

\* A profile with checks is checked again on the converted file; that check
\* may be refused, which is an error.
RunConverts ==
  /\ Runs /\ ~StepVerifies /\ readable
  /\ \E sev \in IF plan[at].do = "profile" /\ plan[at].checks THEN {0, 3} ELSE {0} : Jump(sev, FALSE)
  /\ cur' = "converted" /\ converted' = TRUE
  /\ UNCHANGED <<planInput, compliant, planPc>>

PlanFinish ==
  /\ planPc = "loop" /\ ~Looping /\ planPc' = "done"
  /\ issues' = issues \cup (IF ~converted /\ ~verifyOnly THEN {"PLAN_NO_CONVERSION"} ELSE {})
  /\ UNCHANGED <<planInput, at, guard, cur, converted, compliant, announced>>

PlanDone == planPc = "done" /\ UNCHANGED planVars

PlanStep == Skip \/ Revert \/ Variable \/ Impossible \/ RunRefused \/ RunChecks \/ RunConverts \/ PlanFinish
PlanNext == PlanStep \/ PlanDone

PlanSpec == PlanInit /\ [][PlanNext]_planVars
\* One thread runs the loop and nothing it calls waits for anybody.
FairPlan == PlanSpec /\ WF_planVars(PlanStep)

\* The result is always ok; runOne's exit status follows.
PlanExit == IF verifyOnly /\ ~compliant THEN 1 ELSE 0

-----------------------------------------------------------------------------
\* A plan ends, whatever its steps' next entries say (the 256 rounds of the
\* loop in runPlan).
PlanEnds == <>(planPc = "done")

\* A plan run as a check never changes the document, whatever fixes and
\* converting profiles it holds (o.verifyOnly in runPlan).
ChecksNeverConvert == verifyOnly => cur = "input" /\ ~converted

\* docs/cli.md:43: "`2` | the input was rejected: unreadable, ..."; a plan of
\* which every step needs the document does not exit 0 when the engine cannot read it.
UnreadableRejected ==
  planPc = "done" /\ ~readable
    /\ (\A k \in DOMAIN plan : plan[k].enabled /\ plan[k].known /\ plan[k].do \in {"check", "fix", "profile"})
      => PlanExit # 0

\* docs/preflight.md:196: "Each step is reported as `PLAN_STEP` with its result
\* and the next step."  When the plan is over, the step announced last has run
\* or was disabled.
AnnouncedStepRuns == planPc = "done" => announced = 0 \/ (\E k \in DOMAIN plan : ~plan[k].enabled)
=============================================================================
