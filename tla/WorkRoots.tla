------------------------------ MODULE WorkRoots ------------------------------
(* The working directories of the workers of one host (server/src/worker.rs).  *)
(* A starting worker sweeps the base directory, removing roots whose lock      *)
(* nobody holds and whose modification time is older than the lease, and then  *)
(* makes and locks a root of its own.  Several workers start, stop and die at  *)
(* any time, and each step below is one system call another worker's calls can *)
(* come between.  Delay bounds, in ticks, how long a worker may take from      *)
(* making its root to locking it, and from reading an entry's time to          *)
(* removing it; Lease is KURA_LEASE_MS in the same unit.                       *)
EXTENDS Integers, FiniteSets

CONSTANTS Workers, Roots,  \* processes; the names tempdir_in can give a root
          None,            \* no worker, no root
          Lease, Delay

ASSUME RootsAssumption ==
  /\ None \notin Workers /\ None \notin Roots
  /\ Lease \in Nat /\ Delay \in Nat

VARIABLES phase,    \* "off", "sweep", "made", "created", "live"
          root,     \* worker -> its root
          window,   \* worker -> ticks since it made its root, 0 when it is locked
          todo,     \* worker -> the entries its sweep has yet to look at
          look,     \* worker -> the entry it is looking at
          dirs,     \* the roots that exist
          age,      \* root -> ticks since its modification time, at most Old; 0 if it is gone
          locks,    \* the roots that hold a .lock file
          holder,   \* root -> the worker with its lock
          owed      \* worker -> what its sweep should remove: left behind, and old at its start
rootVars == <<phase, root, window, todo, look, dirs, age, locks, holder, owed>>

Old == Lease + 1
Nothing == [dir |-> None, was |-> 0, since |-> 0, verdict |-> "none"]
Looks == [dir : Roots \cup {None}, was : 0..Old, since : 0..Delay, verdict : {"none", "unknown", "mine", "yes", "no"}]

RootsTypeOK ==
  /\ phase \in [Workers -> {"off", "sweep", "made", "created", "live"}]
  /\ root \in [Workers -> Roots \cup {None}] /\ window \in [Workers -> 0..Delay]
  /\ todo \in [Workers -> SUBSET Roots] /\ look \in [Workers -> Looks]
  /\ dirs \in SUBSET Roots /\ age \in [Roots -> 0..Old]
  /\ locks \in SUBSET Roots /\ holder \in [Roots -> Workers \cup {None}]
  /\ owed \in [Workers -> SUBSET Roots]

RootsInit ==
  /\ phase = [w \in Workers |-> "off"] /\ root = [w \in Workers |-> None]
  /\ window = [w \in Workers |-> 0] /\ todo = [w \in Workers |-> {}]
  /\ look = [w \in Workers |-> Nothing]
  /\ dirs = {} /\ age = [d \in Roots |-> 0]
  /\ locks = {} /\ holder = [d \in Roots |-> None]
  /\ owed = [w \in Workers |-> {}]

\* claim, create_dir_all and read_dir: the entries there are
Start(w) ==
  /\ phase[w] = "off" /\ phase' = [phase EXCEPT ![w] = "sweep"]
  /\ todo' = [todo EXCEPT ![w] = dirs]
  /\ owed' = [owed EXCEPT ![w] = {d \in dirs : age[d] = Old /\ \A v \in Workers : root[v] # d}]
  /\ UNCHANGED <<root, window, look, dirs, age, locks, holder>>

\* symlink_metadata of an entry, if it is still there
Stat(w, d) ==
  /\ phase[w] = "sweep" /\ look[w].dir = None /\ d \in todo[w]
  /\ todo' = [todo EXCEPT ![w] = @ \ {d}]
  /\ look' = IF d \notin dirs THEN look
             ELSE [look EXCEPT ![w] = [dir |-> d, was |-> age[d], since |-> 0, verdict |-> "unknown"]]
  /\ UNCHANGED <<phase, root, window, dirs, age, locks, holder, owed>>

TestNeedsFile(w) ==
  LET d == look[w].dir
  IN /\ look[w].verdict = "unknown"
     /\ \/ /\ d \notin locks \/ holder[d] # None
           /\ look' = [look EXCEPT ![w].verdict = "no"] /\ UNCHANGED holder
        \/ /\ d \in locks /\ holder[d] = None
           /\ look' = [look EXCEPT ![w].verdict = "mine"] /\ holder' = [holder EXCEPT ![d] = w]
     /\ UNCHANGED <<phase, root, window, todo, dirs, age, locks, owed>>

\* Opening .lock and try_lock on it: a root without the file counts as
\* abandoned, and the lock of an abandoned one is the sweeper's for a moment.
Test(w) ==
  LET d == look[w].dir
  IN /\ look[w].verdict = "unknown"
     /\ \/ /\ d \notin locks /\ look' = [look EXCEPT ![w].verdict = "yes"] /\ UNCHANGED holder
        \/ /\ d \in locks /\ holder[d] # None
           /\ look' = [look EXCEPT ![w].verdict = "no"] /\ UNCHANGED holder
        \/ /\ d \in locks /\ holder[d] = None
           /\ look' = [look EXCEPT ![w].verdict = "mine"] /\ holder' = [holder EXCEPT ![d] = w]
     /\ UNCHANGED <<phase, root, window, todo, dirs, age, locks, owed>>

\* The File goes out of scope.
Unlock(w) ==
  /\ look[w].verdict = "mine"
  /\ look' = [look EXCEPT ![w].verdict = "yes"]
  /\ holder' = [holder EXCEPT ![look[w].dir] = None]
  /\ UNCHANGED <<phase, root, window, todo, dirs, age, locks, owed>>

\* remove_dir_all
Remove(d) ==
  /\ dirs' = dirs \ {d} /\ locks' = locks \ {d} /\ age' = [age EXCEPT ![d] = 0]
  /\ owed' = [v \in Workers |-> owed[v] \ {d}]

Elapsed(w) == look[w].was + look[w].since

JudgeAnyAge(w) ==
  /\ look[w].verdict \in {"yes", "no"} /\ look' = [look EXCEPT ![w] = Nothing]
  /\ IF look[w].verdict = "yes" THEN Remove(look[w].dir) ELSE UNCHANGED <<dirs, locks, age, owed>>
  /\ UNCHANGED <<phase, root, window, todo, holder>>

\* The age by the time read before the lock was tested.
Judge(w) ==
  /\ look[w].verdict \in {"yes", "no"} /\ look' = [look EXCEPT ![w] = Nothing]
  /\ IF look[w].verdict = "yes" /\ Elapsed(w) > Lease
     THEN Remove(look[w].dir)
     ELSE UNCHANGED <<dirs, locks, age, owed>>
  /\ UNCHANGED <<phase, root, window, todo, holder>>

\* A random name: none that is there or that a sweep still has on its list.
Unused(d) == d \notin dirs /\ holder[d] = None /\ \A w \in Workers : d # root[w] /\ d \notin todo[w] /\ d # look[w].dir

\* tempdir_in
Make(w, d) ==
  /\ phase[w] = "sweep" /\ todo[w] = {} /\ look[w].dir = None /\ Unused(d)
  /\ phase' = [phase EXCEPT ![w] = "made"] /\ root' = [root EXCEPT ![w] = d] /\ dirs' = dirs \cup {d}
  /\ UNCHANGED <<window, todo, look, age, locks, holder, owed>>

\* The worker ends with "cannot prepare"; what it made stays.
Fail(w) ==
  /\ phase' = [phase EXCEPT ![w] = "off"] /\ root' = [root EXCEPT ![w] = None]
  /\ window' = [window EXCEPT ![w] = 0]
  /\ UNCHANGED <<todo, look, dirs, age, locks, holder, owed>>

\* File::create of .lock, which fails when the root is gone
CreateLock(w) ==
  /\ phase[w] = "made"
  /\ IF root[w] \in dirs
     THEN /\ phase' = [phase EXCEPT ![w] = "created"] /\ locks' = locks \cup {root[w]}
          /\ age' = [age EXCEPT ![root[w]] = 0]
          /\ UNCHANGED <<root, window, todo, look, dirs, holder, owed>>
     ELSE Fail(w)

\* try_lock: it fails when a sweeper is just testing the lock
Lock(w) ==
  /\ phase[w] = "created"
  /\ IF holder[root[w]] = None
     THEN /\ phase' = [phase EXCEPT ![w] = "live"] /\ holder' = [holder EXCEPT ![root[w]] = w]
          /\ window' = [window EXCEPT ![w] = 0]
          /\ UNCHANGED <<root, todo, look, dirs, age, locks, owed>>
     ELSE Fail(w)

\* run_one makes a job's directory in the root, or drops it.
Touch(w) ==
  /\ phase[w] = "live" /\ root[w] \in dirs /\ age' = [age EXCEPT ![root[w]] = 0]
  /\ UNCHANGED <<phase, root, window, todo, look, dirs, locks, holder, owed>>

\* The locks a process holds end with it.
Release(w) == holder' = [d \in Roots |-> IF holder[d] = w THEN None ELSE holder[d]]

\* WorkRoot is dropped: the worker has stopped.
Stop(w) ==
  /\ phase[w] = "live" /\ phase' = [phase EXCEPT ![w] = "off"] /\ root' = [root EXCEPT ![w] = None]
  /\ Remove(root[w]) /\ Release(w)
  /\ UNCHANGED <<window, todo, look>>

\* A sweeper that dies leaves what it was looking at to a later one.
Crash(w) ==
  /\ phase[w] # "off" /\ phase' = [phase EXCEPT ![w] = "off"] /\ root' = [root EXCEPT ![w] = None]
  /\ todo' = [todo EXCEPT ![w] = {}] /\ look' = [look EXCEPT ![w] = Nothing] /\ Release(w)
  /\ owed' = [v \in Workers |-> IF v = w THEN {} ELSE owed[v] \ {look[w].dir}]
  /\ window' = [window EXCEPT ![w] = 0]
  /\ UNCHANGED <<dirs, age, locks>>

Claiming(w) == phase[w] \in {"made", "created"}

Tick ==
  /\ \A w \in Workers : (Claiming(w) => window[w] < Delay) /\ (look[w].dir # None => look[w].since < Delay)
  /\ window' = [w \in Workers |-> IF Claiming(w) THEN window[w] + 1 ELSE window[w]]
  /\ look' = [w \in Workers |-> IF look[w].dir = None THEN look[w] ELSE [look[w] EXCEPT !.since = @ + 1]]
  /\ age' = [d \in Roots |-> IF d \notin dirs THEN 0 ELSE IF age[d] = Old THEN Old ELSE age[d] + 1]
  /\ UNCHANGED <<phase, root, todo, dirs, locks, holder, owed>>

Sweep(w) == Test(w) \/ Unlock(w) \/ Judge(w) \/ \E d \in Roots : Stat(w, d)
Claim(w) == CreateLock(w) \/ Lock(w) \/ \E d \in Roots : Make(w, d)
RootsNext == Tick \/ \E w \in Workers : Start(w) \/ Sweep(w) \/ Claim(w) \/ Touch(w) \/ Stop(w) \/ Crash(w)

RootsSpec == RootsInit /\ [][RootsNext]_rootVars
\* A sweep that has begun goes on while its worker lives.
FairRoots == RootsSpec /\ \A w \in Workers : WF_rootVars(Sweep(w))

-----------------------------------------------------------------------------
\* No sweep removes the root of a worker that has started, although a root is
\* not locked yet when it is made, and a sweep looks at an entry's time and at
\* its lock some time before it removes it.
LiveRootKept == \A w \in Workers : phase[w] = "live" => root[w] \in dirs

\* worker.rs:60 logs "removed job folders left by a crashed worker".  What was
\* left behind and old when a worker started is removed, if not by its sweep
\* then by that of the worker it met at the lock.
LeftoversRemoved == \A w \in Workers, d \in Roots : d \in owed[w] ~> d \notin owed[w]

\* docs/self-hosting.md:125: "When a worker starts again, it removes the job
\* folders its crashed predecessor left behind", so when a worker has started
\* nothing is left of one that had crashed before, however lately.
NothingLeftBehind ==
  [][\A w \in Workers : phase[w] = "sweep" /\ phase'[w] = "made" =>
        \A d \in dirs : \E v \in Workers : root[v] = d]_rootVars
=============================================================================
