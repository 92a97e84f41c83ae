------------------------------ MODULE Admission ------------------------------
(* How many API requests work at once and how many may wait: App::acquire,   *)
(* App::load and the permit that handle_job holds (server/src/api.rs).       *)
(*                                                                           *)
(* A request first tries to take a permit.  If there is none it adds itself  *)
(* to the counter `waiting`; if the counter had reached the limit it takes   *)
(* itself off again and is answered 429, else it waits for a permit.  The    *)
(* counter is decremented by a drop guard, so also when the client hangs up. *)
(* The try, the add, the subtract and the wait are separate atomic steps of  *)
(* concurrent tasks.  tokio's semaphore is external: it serves waiters first *)
(* come first served, and a released permit goes straight to the first one.  *)
EXTENDS Naturals, FiniteSets, Sequences

CONSTANTS Requests,     \* the connections requests arrive on
          Concurrency,  \* KURA_CONCURRENCY
          QueueLimit    \* KURA_QUEUE

ASSUME LimitAssumption == /\ IsFiniteSet(Requests)
                          /\ Concurrency \in Nat \ {0}
                          /\ QueueLimit \in Nat

VARIABLES pc,       \* where each request is in acquire and handle_job
          permits,  \* App.sem: the permits nobody has
          waiting,  \* App.waiting
          line      \* the semaphore's queue of waiters

vars == <<pc, permits, waiting, line>>

\* "over" and "admitted" lie between the fetch_add and the next atomic step;
\* "granted" has a permit assigned to it and has not been polled yet.
Places == {"none", "tried", "over", "admitted", "queued", "granted", "working",
           "answered", "busy"}

Init == /\ pc = [r \in Requests |-> "none"]
        /\ permits = Concurrency
        /\ waiting = 0
        /\ line = <<>>

Goto(r, p) == pc' = [pc EXCEPT ![r] = p]

\* A request arrives and try_acquire_owned succeeds or fails at once.
TryAcquire(r) ==
  /\ pc[r] \in {"none", "answered", "busy"}
  /\ UNCHANGED <<waiting, line>>
  /\ \/ permits > 0 /\ Goto(r, "working") /\ permits' = permits - 1
     \/ permits = 0 /\ Goto(r, "tried") /\ UNCHANGED permits

JoinOneMore(r) ==
  /\ pc[r] = "tried"
  /\ waiting' = waiting + 1
  /\ Goto(r, IF waiting > QueueLimit THEN "over" ELSE "admitted")
  /\ UNCHANGED <<permits, line>>

\* waiting.fetch_add(1), which returns the value before the addition.
Join(r) ==
  /\ pc[r] = "tried"
  /\ waiting' = waiting + 1
  /\ Goto(r, IF waiting >= QueueLimit THEN "over" ELSE "admitted")
  /\ UNCHANGED <<permits, line>>

\* waiting.fetch_sub(1) and the answer 429.
Refuse(r) ==
  /\ pc[r] = "over"
  /\ waiting' = waiting - 1
  /\ Goto(r, "busy")
  /\ UNCHANGED <<permits, line>>

\* The first poll of acquire_owned takes a free permit or joins the waiters.
Await(r) ==
  /\ pc[r] = "admitted"
  /\ UNCHANGED waiting
  /\ \/ /\ permits > 0
        /\ permits' = permits - 1
        /\ Goto(r, "granted")
        /\ UNCHANGED line
     \/ /\ permits = 0
        /\ line' = Append(line, r)
        /\ Goto(r, "queued")
        /\ UNCHANGED permits

\* acquire_owned is polled again and returns; Leave is dropped.
Wake(r) ==
  /\ pc[r] = "granted"
  /\ waiting' = waiting - 1
  /\ Goto(r, "working")
  /\ UNCHANGED <<permits, line>>

PermitBackUnassigned(r, p) ==
  /\ permits' = permits + 1
  /\ Goto(r, p)
  /\ UNCHANGED line

\* A permit that request r gave back goes to the first waiter, if there is one.
PermitBack(r, p) ==
  IF line = <<>>
  THEN /\ permits' = permits + 1
       /\ Goto(r, p)
       /\ UNCHANGED line
  ELSE /\ line' = Tail(line)
       /\ pc' = [pc EXCEPT ![r] = p, ![Head(line)] = "granted"]
       /\ UNCHANGED permits

\* The job is over, whatever its outcome, and handle_job drops the permit.
Finish(r) == pc[r] = "working" /\ PermitBack(r, "answered") /\ UNCHANGED waiting

\* The line without the waiter at place i.
Without(i) == [j \in 1..(Len(line) - 1) |-> IF j < i THEN line[j] ELSE line[j + 1]]

\* The client hangs up and the handler is dropped while it waits in the line,
LeaveLine(r) ==
  /\ pc[r] = "queued"
  /\ waiting' = waiting - 1
  /\ \E i \in 1..Len(line) : line[i] = r /\ line' = Without(i)
  /\ Goto(r, "none")
  /\ UNCHANGED permits

LeaveGrantedPermitLost(r) ==
  /\ pc[r] = "granted"
  /\ waiting' = waiting - 1
  /\ Goto(r, "none")
  /\ UNCHANGED <<permits, line>>

\* or with a permit assigned that it has not seen yet,
LeaveGranted(r) == pc[r] = "granted" /\ waiting' = waiting - 1 /\ PermitBack(r, "none")

\* or while its job runs.
LeaveJob(r) == pc[r] = "working" /\ PermitBack(r, "none") /\ UNCHANGED waiting

Step(r) == Join(r) \/ Refuse(r) \/ Await(r) \/ Wake(r) \/ Finish(r)

Next == \E r \in Requests :
          TryAcquire(r) \/ Step(r) \/ LeaveLine(r) \/ LeaveGranted(r) \/ LeaveJob(r)

Spec == Init /\ [][Next]_vars

\* A task that can go on is polled, and every job ends: the engine by itself,
\* by its watchdog or by run_kura's timeout, a queued job by its attempts.
FairSpec == Spec /\ \A r \in Requests : WF_vars(Step(r))

-----------------------------------------------------------------------------
At(S) == {r \in Requests : pc[r] \in S}
Holders == At({"granted", "working"})
Counted == At({"over", "admitted", "queued", "granted"})

\* Requests are in one of the places acquire has, the counters are naturals.
TypeOK == /\ pc \in [Requests -> Places]
          /\ permits \in Nat
          /\ waiting \in Nat
          /\ line \in Seq(Requests)

\* The permits that requests hold and the free ones are KURA_CONCURRENCY in
\* all, whoever hangs up and when: none is lost, none is made, and
\* `concurrency - available_permits` in App::load never goes below zero.
PermitsConserved == permits + Cardinality(Holders) = Concurrency

\* `waiting` is exactly the number of requests between their fetch_add and the
\* fetch_sub or the drop of Leave: it never leaks, so the API cannot end up
\* answering 429 for good, and it never wraps below zero.
CounterExact == waiting = Cardinality(Counted)

\* At most KURA_QUEUE requests wait for a permit at the same time.
WaitersBounded == Cardinality(At({"admitted", "queued", "granted"})) <= QueueLimit

\* No permit lies idle while a request is in the line for one.
NoIdlePermit == permits > 0 => line = <<>>

\* The line holds the queued requests, each once.
LineInv == /\ \A i \in 1..Len(line) : pc[line[i]] = "queued"
           /\ \A i, j \in 1..Len(line) : line[i] = line[j] => i = j

\* The inductive invariant.  LineInv makes the request a permit is passed to a
\* waiter without one; the other conjuncts are the properties above.
AInv == /\ TypeOK
        /\ LineInv
        /\ PermitsConserved
        /\ CounterExact
        /\ WaitersBounded
        /\ NoIdlePermit

\* A request that waits gets a permit, or its client hangs up, or it is refused.
EveryWaiterServed ==
  \A r \in Requests : pc[r] \in {"tried", "queued"} ~> pc[r] \in {"working", "none", "busy"}

\* A request is turned away only when KURA_QUEUE others are waiting.
RefusedOnlyWhenFull ==
  [][\A r \in Requests : pc[r] = "tried" /\ pc'[r] = "over" =>
        Cardinality(At({"admitted", "queued", "granted"})) >= QueueLimit]_vars
=============================================================================
