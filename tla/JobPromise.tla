----------------------------- MODULE JobPromise -----------------------------
(***************************************************************************)
(* What the coordinator promises whoever submits a job, with no word about *)
(* leases, workers, retries, crashes or files: a job is accepted once, it  *)
(* is settled at most once, its verdict never changes, and only a settled  *)
(* job is ever forgotten.  A job may be settled as it is accepted, with    *)
(* the verdict of a job that succeeded before it.                          *)
(***************************************************************************)
CONSTANTS Job, Verdict, NoVerdict

VARIABLES phase, verdict

Settled == {"done", "failed"}

TypeOK ==
  /\ phase \in [Job -> {"new", "pending", "forgotten"} \cup Settled]
  /\ verdict \in [Job -> Verdict \cup {NoVerdict}]

Init ==
  /\ phase = [j \in Job |-> "new"]
  /\ verdict = [j \in Job |-> NoVerdict]

Accept(j) ==
  /\ phase[j] = "new"
  /\ phase' = [phase EXCEPT ![j] = "pending"]
  /\ UNCHANGED verdict

AcceptKnown(j) ==
  /\ phase[j] = "new"
  /\ phase' = [phase EXCEPT ![j] = "done"]
  /\ \E k \in Job : phase[k] = "done" /\ verdict' = [verdict EXCEPT ![j] = verdict[k]]

Settle(j) ==
  /\ phase[j] = "pending"
  /\ \E s \in Settled : phase' = [phase EXCEPT ![j] = s]
  /\ \E v \in Verdict : verdict' = [verdict EXCEPT ![j] = v]

Forget(F) ==
  /\ \A j \in F : phase[j] \in Settled
  /\ phase' = [j \in Job |-> IF j \in F THEN "forgotten" ELSE phase[j]]
  /\ verdict' = [j \in Job |-> IF j \in F THEN NoVerdict ELSE verdict[j]]

Next ==
  \/ \E j \in Job : Accept(j) \/ AcceptKnown(j) \/ Settle(j)
  \/ \E F \in SUBSET Job : Forget(F)

Spec == Init /\ [][Next]_<<phase, verdict>>
=============================================================================
