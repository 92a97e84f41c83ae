------------------------------ MODULE HostProofs ------------------------------
(* What the processes of one host share: the permits and the waiting places of *)
(* the API (Admission), for any number of requests, permits and places, and     *)
(* the working directories of the workers (WorkRoots), for any number of        *)
(* workers and roots.  The two have nothing in common but the host.             *)
EXTENDS Admission, WorkRoots, FiniteSetTheorems, TLAPS

-----------------------------------------------------------------------------
(* The queue in front of the engine *)

\* How many requests are in the places S when f says where each one is.
Count(f, S) == Cardinality({q \in Requests : f[q] \in S})

\* A count is a natural number: there are finitely many requests.
LEMMA CountNat ==
  ASSUME NEW f, NEW S
  PROVE  Count(f, S) \in Nat /\ IsFiniteSet({q \in Requests : f[q] \in S})
<1>1. IsFiniteSet(Requests)
  BY LimitAssumption, Zenon
<1>2. {q \in Requests : f[q] \in S} \subseteq Requests
  BY Zenon
<1>3. IsFiniteSet({q \in Requests : f[q] \in S})
  BY <1>1, <1>2, FS_Subset, Zenon
<1> QED BY <1>3, FS_CardinalityType, Zenon DEF Count

\* More places, no smaller count.
LEMMA CountMono ==
  ASSUME NEW f, NEW S, NEW T, S \subseteq T
  PROVE  Count(f, S) <= Count(f, T)
<1> DEFINE A == {q \in Requests : f[q] \in S}
           B == {q \in Requests : f[q] \in T}
<1>1. A \subseteq B
  BY Zenon
<1>2. IsFiniteSet(B) /\ Count(f, S) = Cardinality(A) /\ Count(f, T) = Cardinality(B)
  BY CountNat, Zenon DEF Count
<1> HIDE DEF A, B
<1> QED BY <1>1, <1>2, FS_Subset, Zenon

\* A request that comes into the places S adds one to their count,
LEMMA CountIn ==
  ASSUME NEW f \in [Requests -> Places], NEW r \in Requests, NEW p \in Places, NEW S,
         f[r] \notin S, p \in S
  PROVE  Count([f EXCEPT ![r] = p], S) = Count(f, S) + 1
<1> DEFINE A == {q \in Requests : f[q] \in S}
           B == {q \in Requests : [f EXCEPT ![r] = p][q] \in S}
<1>1. IsFiniteSet(A) /\ Cardinality(A) \in Nat
  BY CountNat, Zenon DEF Count
<1>2. B = A \cup {r} /\ r \notin A
  BY Zenon
<1>3. Count([f EXCEPT ![r] = p], S) = Cardinality(B) /\ Count(f, S) = Cardinality(A)
  BY Zenon DEF Count
<1> HIDE DEF A, B
<1> QED BY <1>1, <1>2, <1>3, FS_AddElement, Zenon

\* one that leaves them takes one off,
LEMMA CountOut ==
  ASSUME NEW f \in [Requests -> Places], NEW r \in Requests, NEW p \in Places, NEW S,
         f[r] \in S, p \notin S
  PROVE  Count([f EXCEPT ![r] = p], S) = Count(f, S) - 1
<1> DEFINE A == {q \in Requests : f[q] \in S}
           B == {q \in Requests : [f EXCEPT ![r] = p][q] \in S}
<1>1. IsFiniteSet(A) /\ Cardinality(A) \in Nat
  BY CountNat, Zenon DEF Count
<1>2. B = A \ {r} /\ r \in A
  BY Zenon
<1>3. Count([f EXCEPT ![r] = p], S) = Cardinality(B) /\ Count(f, S) = Cardinality(A)
  BY Zenon DEF Count
<1> HIDE DEF A, B
<1> QED BY <1>1, <1>2, <1>3, FS_RemoveElement, Zenon

\* and one that moves inside or outside them changes nothing.
LEMMA CountSame ==
  ASSUME NEW f \in [Requests -> Places], NEW r \in Requests, NEW p \in Places, NEW S,
         f[r] \in S <=> p \in S
  PROVE  Count([f EXCEPT ![r] = p], S) = Count(f, S)
<1>1. {q \in Requests : [f EXCEPT ![r] = p][q] \in S} = {q \in Requests : f[q] \in S}
  BY Zenon
<1> QED BY <1>1, Zenon DEF Count

\* The sets the properties count.
HoldS == {"granted", "working"}
CountS == {"over", "admitted", "queued", "granted"}
WaitS == {"admitted", "queued", "granted"}

\* What the counting properties say, in terms of Count.
LEMMA Counts ==
  /\ PermitsConserved <=> permits + Count(pc, HoldS) = Concurrency
  /\ CounterExact <=> waiting = Count(pc, CountS)
  /\ WaitersBounded <=> Count(pc, WaitS) <= QueueLimit
BY Zenon DEF PermitsConserved, CounterExact, WaitersBounded, Holders, Counted, At, Count,
       HoldS, CountS, WaitS

\* The same for the state after a step.
LEMMA CountsNext ==
  /\ PermitsConserved' <=> permits' + Count(pc', HoldS) = Concurrency
  /\ CounterExact' <=> waiting' = Count(pc', CountS)
  /\ WaitersBounded' <=> Count(pc', WaitS) <= QueueLimit
BY Zenon DEF PermitsConserved, CounterExact, WaitersBounded, Holders, Counted, At, Count,
       HoldS, CountS, WaitS

\* A request that moves while the line and the permits stay as they are.
LEMMA MoveOnly ==
  ASSUME AInv, NEW r \in Requests, NEW p \in Places, Goto(r, p),
         pc[r] # "queued", line' = line, permits' \in Nat, waiting' \in Nat,
         permits' > 0 => permits > 0
  PROVE  TypeOK' /\ LineInv' /\ NoIdlePermit'
BY DEF AInv, TypeOK, LineInv, NoIdlePermit, Goto

\* The initial state satisfies the invariant.
LEMMA InitInv == Init => AInv
<1> SUFFICES ASSUME Init PROVE AInv
  BY Zenon
<1>1. TypeOK /\ LineInv /\ NoIdlePermit
  BY LimitAssumption DEF Init, TypeOK, LineInv, NoIdlePermit, Places
<1>2. ASSUME NEW S, "none" \notin S PROVE Count(pc, S) = 0
  <2>1. {q \in Requests : pc[q] \in S} = {}
    BY <1>2, Zenon DEF Init
  <2> QED BY <2>1, FS_EmptySet, Zenon DEF Count
<1>3. Count(pc, HoldS) = 0 /\ Count(pc, CountS) = 0 /\ Count(pc, WaitS) = 0
  BY <1>2, Zenon DEF HoldS, CountS, WaitS
<1> QED BY <1>1, <1>3, Counts, LimitAssumption DEF Init, AInv

\* Giving a permit back keeps the invariant when r holds one: it becomes free,
\* or the first of the line, a request without a permit, holds it next.
LEMMA BackInv ==
  ASSUME AInv, NEW r \in Requests, NEW p \in {"none", "answered"},
         pc[r] \in {"granted", "working"}, PermitBack(r, p),
         waiting' = waiting - (IF pc[r] = "granted" THEN 1 ELSE 0)
  PROVE  AInv'
<1> DEFINE h == Head(line)
<1>d. PICK f : f = [pc EXCEPT ![r] = p]
  BY Zenon
<1>t. pc \in [Requests -> Places] /\ p \in Places /\ waiting \in Nat /\ permits \in Nat
  BY Zenon DEF AInv, TypeOK, Places
<1>n. /\ Count(pc, HoldS) \in Nat /\ Count(pc, CountS) \in Nat /\ Count(pc, WaitS) \in Nat
      /\ permits + Count(pc, HoldS) = Concurrency
      /\ waiting = Count(pc, CountS)
      /\ Count(pc, WaitS) <= QueueLimit
  BY Counts, CountNat, Zenon DEF AInv
<1>f. /\ f \in [Requests -> Places]
      /\ Count(f, HoldS) = Count(pc, HoldS) - 1
      /\ Count(f, CountS) = Count(pc, CountS) - (IF pc[r] = "granted" THEN 1 ELSE 0)
      /\ Count(f, WaitS) = Count(pc, WaitS) - (IF pc[r] = "granted" THEN 1 ELSE 0)
  <2>1. f \in [Requests -> Places]
    BY <1>t, <1>d, Zenon
  <2>m. /\ pc[r] \in HoldS /\ p \notin HoldS /\ p \notin CountS /\ p \notin WaitS
        /\ pc[r] = "granted" => pc[r] \in CountS /\ pc[r] \in WaitS
        /\ pc[r] = "working" => pc[r] \notin CountS /\ pc[r] \notin WaitS
    BY Zenon DEF HoldS, CountS, WaitS
  <2>2. Count(f, HoldS) = Count(pc, HoldS) - 1
    BY <1>d, <1>t, <2>m, CountOut, Zenon
  <2>3. CASE pc[r] = "granted"
    <3>1. Count(f, CountS) = Count(pc, CountS) - 1
      BY <2>3, <1>d, <1>t, <2>m, CountOut, Zenon
    <3>2. Count(f, WaitS) = Count(pc, WaitS) - 1
      BY <2>3, <1>d, <1>t, <2>m, CountOut, Zenon
    <3> QED BY <2>1, <2>2, <2>3, <3>1, <3>2, Zenon
  <2>4. CASE pc[r] = "working"
    <3>1. Count(f, CountS) = Count(pc, CountS)
      BY <2>4, <1>d, <1>t, <2>m, CountSame, Zenon
    <3>2. Count(f, WaitS) = Count(pc, WaitS)
      BY <2>4, <1>d, <1>t, <2>m, CountSame, Zenon
    <3> QED BY <2>1, <2>2, <2>4, <3>1, <3>2, <1>n
  <2> QED BY <2>3, <2>4, Zenon
<1>w. waiting' \in Nat
  <2>1. waiting' = Count(f, CountS)
    BY <1>f, <1>n, Zenon
  <2> QED BY <2>1, CountNat, Zenon
<1>1. CASE line = <<>>
  <2>1. pc' = f /\ permits' = permits + 1 /\ line' = line
    BY <1>1, <1>d, Zenon DEF PermitBack, Goto
  <2>2. TypeOK' /\ LineInv' /\ NoIdlePermit'
    BY <2>1, <1>1, <1>t, <1>f, <1>w DEF AInv, TypeOK, LineInv, NoIdlePermit
  <2>3. permits' + Count(pc', HoldS) = Concurrency
    BY <2>1, <1>f, <1>n, <1>t
  <2>4. waiting' = Count(pc', CountS) /\ Count(pc', WaitS) <= QueueLimit
    BY <2>1, <1>f, <1>n, LimitAssumption
  <2> QED BY <2>2, <2>3, <2>4, CountsNext, Zenon DEF AInv
<1>2. CASE line # <<>>
  <2>d. PICK g : g = [f EXCEPT ![h] = "granted"]
    BY Zenon
  <2>1. pc' = g /\ permits' = permits /\ line' = Tail(line)
    BY <1>2, <1>d, <2>d, Zenon DEF PermitBack
  <2>2. h \in Requests /\ pc[h] = "queued" /\ h # r /\ f[h] = "queued" /\ "granted" \in Places
    BY <1>2, <1>t, <1>d DEF AInv, TypeOK, LineInv, Places
  <2> HIDE DEF h
  <2>3. /\ g \in [Requests -> Places]
        /\ Count(g, HoldS) = Count(f, HoldS) + 1
        /\ Count(g, CountS) = Count(f, CountS)
        /\ Count(g, WaitS) = Count(f, WaitS)
    <3>m. /\ f[h] \notin HoldS /\ f[h] \in CountS /\ f[h] \in WaitS
          /\ "granted" \in HoldS /\ "granted" \in CountS /\ "granted" \in WaitS
      BY <2>2, Zenon DEF HoldS, CountS, WaitS
    <3>1. g \in [Requests -> Places]
      BY <2>2, <1>f, <2>d, Zenon
    <3>2. Count(g, HoldS) = Count(f, HoldS) + 1
      BY <2>2, <1>f, <2>d, <3>m, CountIn, Zenon
    <3>3. Count(g, CountS) = Count(f, CountS)
      BY <2>2, <1>f, <2>d, <3>m, CountSame, Zenon
    <3>4. Count(g, WaitS) = Count(f, WaitS)
      BY <2>2, <1>f, <2>d, <3>m, CountSame, Zenon
    <3> QED BY <3>1, <3>2, <3>3, <3>4, Zenon
  <2>4. TypeOK'
    BY <2>1, <2>3, <1>t, <1>w, <1>2 DEF AInv, TypeOK
  <2>5. LineInv'
    <3>1. \A i \in 1..Len(line') : i + 1 \in 1..Len(line) /\ line'[i] = line[i + 1]
      BY <2>1, <1>2 DEF AInv, TypeOK
    <3>2. \A i \in 1..Len(line') : line'[i] # h /\ line'[i] # r /\ line'[i] \in Requests
      BY <3>1, <1>2 DEF AInv, TypeOK, LineInv, h
    <3>3. \A i \in 1..Len(line') : pc'[line'[i]] = pc[line[i + 1]]
      BY <3>1, <3>2, <2>1, <2>2, <1>t, <1>d, <2>d, Zenon
    <3>4. Len(line') \in Nat
      BY <2>1, <1>2 DEF AInv, TypeOK
    <3> QED BY <3>1, <3>3, <3>4 DEF AInv, LineInv
  <2>6. NoIdlePermit'
    BY <2>1, <1>2, Zenon DEF AInv, NoIdlePermit
  <2>7. permits' + Count(pc', HoldS) = Concurrency
    BY <2>1, <2>3, <1>f, <1>n, <1>t
  <2>8. waiting' = Count(pc', CountS) /\ Count(pc', WaitS) <= QueueLimit
    BY <2>1, <2>3, <1>f, <1>n, LimitAssumption
  <2> QED BY <2>4, <2>5, <2>6, <2>7, <2>8, CountsNext, Zenon DEF AInv
<1> QED BY <1>1, <1>2, Zenon

\* Whether a place is one of S, as a number.
In(p, S) == IF p \in S THEN 1 ELSE 0

\* A count after one request went to p.
LEMMA Moved ==
  ASSUME pc \in [Requests -> Places], NEW r \in Requests, NEW p \in Places, Goto(r, p), NEW S
  PROVE  Count(pc', S) = Count(pc, S) + In(p, S) - In(pc[r], S)
<1>n. Count(pc, S) \in Nat /\ pc' = [pc EXCEPT ![r] = p]
  BY CountNat, Zenon DEF Goto
<1>1. CASE p \in S /\ pc[r] \notin S
  <2>1. Count(pc', S) = Count(pc, S) + 1
    BY <1>1, <1>n, CountIn, Zenon
  <2> QED BY <2>1, <1>1, <1>n DEF In
<1>2. CASE p \notin S /\ pc[r] \in S
  <2>1. Count(pc', S) = Count(pc, S) - 1
    BY <1>2, <1>n, CountOut, Zenon
  <2> QED BY <2>1, <1>2, <1>n DEF In
<1>3. CASE p \in S <=> pc[r] \in S
  <2>1. Count(pc', S) = Count(pc, S)
    BY <1>3, <1>n, CountSame, Zenon
  <2> QED BY <2>1, <1>3, <1>n DEF In
<1> QED BY <1>1, <1>2, <1>3, Zenon

\* A step in which r, which is not in the line, goes to a place outside it: the
\* invariant holds if the counters follow, and if one more waiter had room.
LEMMA MoveInv ==
  ASSUME AInv, NEW r \in Requests, NEW p \in Places, Goto(r, p),
         pc[r] # "queued", line' = line,
         permits' \in Nat, permits' > 0 => permits > 0,
         permits' = permits - In(p, HoldS) + In(pc[r], HoldS),
         waiting' = waiting + In(p, CountS) - In(pc[r], CountS),
         In(p, WaitS) > In(pc[r], WaitS) => waiting < QueueLimit
  PROVE  AInv'
<1>t. /\ pc \in [Requests -> Places] /\ waiting \in Nat /\ permits \in Nat
      /\ Concurrency \in Nat /\ QueueLimit \in Nat
  BY LimitAssumption, Zenon DEF AInv, TypeOK
<1>n. /\ Count(pc, HoldS) \in Nat /\ Count(pc, CountS) \in Nat /\ Count(pc, WaitS) \in Nat
      /\ permits + Count(pc, HoldS) = Concurrency
      /\ waiting = Count(pc, CountS)
      /\ Count(pc, WaitS) <= QueueLimit
  BY Counts, CountNat, Zenon DEF AInv
<1>i. ASSUME NEW q, NEW S PROVE In(q, S) \in {0, 1}
  BY Zenon DEF In
<1>1. permits' + Count(pc', HoldS) = Concurrency
  <2>1. Count(pc', HoldS) = Count(pc, HoldS) + In(p, HoldS) - In(pc[r], HoldS)
    BY <1>t, Moved, Zenon
  <2>2. In(p, HoldS) \in {0, 1} /\ In(pc[r], HoldS) \in {0, 1}
    BY <1>i, Zenon
  <2> QED BY <2>1, <2>2, <1>n, <1>t
<1>2. waiting' = Count(pc', CountS)
  <2>1. Count(pc', CountS) = Count(pc, CountS) + In(p, CountS) - In(pc[r], CountS)
    BY <1>t, Moved, Zenon
  <2> QED BY <2>1, <1>n, Zenon
<1>3. Count(pc', WaitS) <= QueueLimit
  <2>1. Count(pc', WaitS) = Count(pc, WaitS) + In(p, WaitS) - In(pc[r], WaitS)
    BY <1>t, Moved, Zenon
  <2>2. In(p, WaitS) \in {0, 1} /\ In(pc[r], WaitS) \in {0, 1}
    BY <1>i, Zenon
  <2>3. Count(pc, WaitS) <= Count(pc, CountS)
    <3>1. WaitS \subseteq CountS
      BY Zenon DEF WaitS, CountS
    <3> QED BY <3>1, CountMono, Zenon
  <2> QED BY <2>1, <2>2, <2>3, <1>n, <1>t
<1>4. waiting' \in Nat
  BY <1>2, CountNat, Zenon
<1> QED BY <1>1, <1>2, <1>3, <1>4, MoveOnly, CountsNext, Zenon DEF AInv

\* Every step of acquire and of a client that hangs up keeps the invariant.
LEMMA NextInv == AInv /\ [Next]_vars => AInv'
<1> SUFFICES ASSUME AInv, [Next]_vars PROVE AInv'
  BY Zenon
<1>t. /\ pc \in [Requests -> Places] /\ waiting \in Nat /\ permits \in Nat
      /\ Concurrency \in Nat /\ QueueLimit \in Nat
  BY LimitAssumption, Zenon DEF AInv, TypeOK
<1>n. /\ Count(pc, HoldS) \in Nat /\ Count(pc, CountS) \in Nat /\ Count(pc, WaitS) \in Nat
      /\ permits + Count(pc, HoldS) = Concurrency
      /\ waiting = Count(pc, CountS)
      /\ Count(pc, WaitS) <= QueueLimit
  BY Counts, CountNat, Zenon DEF AInv
<1>p. /\ "tried" \in Places /\ "over" \in Places /\ "admitted" \in Places /\ "queued" \in Places
      /\ "granted" \in Places /\ "working" \in Places /\ "busy" \in Places /\ "none" \in Places
  BY Zenon DEF Places
<1>1. CASE UNCHANGED vars
  BY <1>1 DEF vars, AInv, TypeOK, LineInv, PermitsConserved, CounterExact, WaitersBounded,
              NoIdlePermit, Holders, Counted, At
<1>2a. ASSUME NEW r \in Requests, TryAcquire(r), permits > 0 PROVE AInv'
  <2>1. /\ In(pc[r], HoldS) = 0 /\ In(pc[r], CountS) = 0 /\ In(pc[r], WaitS) = 0
        /\ In("working", HoldS) = 1 /\ In("working", CountS) = 0 /\ In("working", WaitS) = 0
        /\ pc[r] # "queued"
    BY <1>2a, Zenon DEF TryAcquire, In, HoldS, CountS, WaitS
  <2>2. Goto(r, "working") /\ permits' = permits - 1 /\ waiting' = waiting /\ line' = line
    BY <1>2a, <1>t DEF TryAcquire
  <2>3. permits' = permits - In("working", HoldS) + In(pc[r], HoldS)
    BY <2>1, <2>2, <1>t
  <2>4. waiting' = waiting + In("working", CountS) - In(pc[r], CountS)
    BY <2>1, <2>2, <1>t
  <2>5. permits' \in Nat /\ (permits' > 0 => permits > 0)
    BY <2>2, <1>2a, <1>t
  <2>6. In("working", WaitS) > In(pc[r], WaitS) => waiting < QueueLimit
    BY <2>1, <1>2a
  <2> QED BY <2>2, <2>3, <2>4, <2>5, <2>6, <2>1, <1>p, MoveInv, Zenon
<1>2b. ASSUME NEW r \in Requests, TryAcquire(r), permits = 0 PROVE AInv'
  <2>1. /\ In(pc[r], HoldS) = 0 /\ In(pc[r], CountS) = 0 /\ In(pc[r], WaitS) = 0
        /\ In("tried", HoldS) = 0 /\ In("tried", CountS) = 0 /\ In("tried", WaitS) = 0
        /\ pc[r] # "queued"
    BY <1>2b, Zenon DEF TryAcquire, In, HoldS, CountS, WaitS
  <2>2. Goto(r, "tried") /\ permits' = permits /\ waiting' = waiting /\ line' = line
    BY <1>2b, <1>t DEF TryAcquire
  <2>3. permits' = permits - In("tried", HoldS) + In(pc[r], HoldS)
    BY <2>1, <2>2, <1>t
  <2>4. waiting' = waiting + In("tried", CountS) - In(pc[r], CountS)
    BY <2>1, <2>2, <1>t
  <2>5. permits' \in Nat /\ (permits' > 0 => permits > 0)
    BY <2>2, <1>2b, <1>t, Zenon
  <2>6. In("tried", WaitS) > In(pc[r], WaitS) => waiting < QueueLimit
    BY <2>1, <1>2b
  <2> QED BY <2>2, <2>3, <2>4, <2>5, <2>6, <2>1, <1>p, MoveInv, Zenon
<1>3a. ASSUME NEW r \in Requests, Join(r), waiting >= QueueLimit PROVE AInv'
  <2>1. /\ In(pc[r], HoldS) = 0 /\ In(pc[r], CountS) = 0 /\ In(pc[r], WaitS) = 0
        /\ In("over", HoldS) = 0 /\ In("over", CountS) = 1 /\ In("over", WaitS) = 0
        /\ pc[r] # "queued"
    BY <1>3a, Zenon DEF Join, In, HoldS, CountS, WaitS
  <2>2. Goto(r, "over") /\ permits' = permits /\ waiting' = waiting + 1 /\ line' = line
    BY <1>3a, <1>t, Zenon DEF Join
  <2>3. permits' = permits - In("over", HoldS) + In(pc[r], HoldS)
    BY <2>1, <2>2, <1>t
  <2>4. waiting' = waiting + In("over", CountS) - In(pc[r], CountS)
    BY <2>1, <2>2, <1>t
  <2>5. permits' \in Nat /\ (permits' > 0 => permits > 0)
    BY <2>2, <1>3a, <1>t, Zenon
  <2>6. In("over", WaitS) > In(pc[r], WaitS) => waiting < QueueLimit
    BY <2>1, <1>3a
  <2> QED BY <2>2, <2>3, <2>4, <2>5, <2>6, <2>1, <1>p, MoveInv, Zenon
<1>3b. ASSUME NEW r \in Requests, Join(r), waiting < QueueLimit PROVE AInv'
  <2>1. /\ In(pc[r], HoldS) = 0 /\ In(pc[r], CountS) = 0 /\ In(pc[r], WaitS) = 0
        /\ In("admitted", HoldS) = 0 /\ In("admitted", CountS) = 1 /\ In("admitted", WaitS) = 1
        /\ pc[r] # "queued"
    BY <1>3b, Zenon DEF Join, In, HoldS, CountS, WaitS
  <2>2. Goto(r, "admitted") /\ permits' = permits /\ waiting' = waiting + 1 /\ line' = line
    BY <1>3b, <1>t DEF Join
  <2>3. permits' = permits - In("admitted", HoldS) + In(pc[r], HoldS)
    BY <2>1, <2>2, <1>t
  <2>4. waiting' = waiting + In("admitted", CountS) - In(pc[r], CountS)
    BY <2>1, <2>2, <1>t
  <2>5. permits' \in Nat /\ (permits' > 0 => permits > 0)
    BY <2>2, <1>3b, <1>t, Zenon
  <2>6. In("admitted", WaitS) > In(pc[r], WaitS) => waiting < QueueLimit
    BY <2>1, <1>3b, Zenon
  <2> QED BY <2>2, <2>3, <2>4, <2>5, <2>6, <2>1, <1>p, MoveInv, Zenon
<1>4. ASSUME NEW r \in Requests, Refuse(r) PROVE AInv'
  <2>1. /\ In(pc[r], HoldS) = 0 /\ In(pc[r], CountS) = 1 /\ In(pc[r], WaitS) = 0
        /\ In("busy", HoldS) = 0 /\ In("busy", CountS) = 0 /\ In("busy", WaitS) = 0
        /\ pc[r] # "queued"
    BY <1>4, Zenon DEF Refuse, In, HoldS, CountS, WaitS
  <2>2. Goto(r, "busy") /\ permits' = permits /\ waiting' = waiting - 1 /\ line' = line
    BY <1>4, <1>t, Zenon DEF Refuse
  <2>3. permits' = permits - In("busy", HoldS) + In(pc[r], HoldS)
    BY <2>1, <2>2, <1>t
  <2>4. waiting' = waiting + In("busy", CountS) - In(pc[r], CountS)
    BY <2>1, <2>2, <1>t
  <2>5. permits' \in Nat /\ (permits' > 0 => permits > 0)
    BY <2>2, <1>4, <1>t, Zenon
  <2>6. In("busy", WaitS) > In(pc[r], WaitS) => waiting < QueueLimit
    BY <2>1, <1>4
  <2> QED BY <2>2, <2>3, <2>4, <2>5, <2>6, <2>1, <1>p, MoveInv, Zenon
<1>5. ASSUME NEW r \in Requests, Await(r), permits > 0 PROVE AInv'
  <2>1. /\ In(pc[r], HoldS) = 0 /\ In(pc[r], CountS) = 1 /\ In(pc[r], WaitS) = 1
        /\ In("granted", HoldS) = 1 /\ In("granted", CountS) = 1 /\ In("granted", WaitS) = 1
        /\ pc[r] # "queued"
    BY <1>5, Zenon DEF Await, In, HoldS, CountS, WaitS
  <2>2. Goto(r, "granted") /\ permits' = permits - 1 /\ waiting' = waiting /\ line' = line
    BY <1>5, <1>t DEF Await
  <2>3. permits' = permits - In("granted", HoldS) + In(pc[r], HoldS)
    BY <2>1, <2>2, <1>t
  <2>4. waiting' = waiting + In("granted", CountS) - In(pc[r], CountS)
    BY <2>1, <2>2, <1>t
  <2>5. permits' \in Nat /\ (permits' > 0 => permits > 0)
    BY <2>2, <1>5, <1>t
  <2>6. In("granted", WaitS) > In(pc[r], WaitS) => waiting < QueueLimit
    BY <2>1, <1>5
  <2> QED BY <2>2, <2>3, <2>4, <2>5, <2>6, <2>1, <1>p, MoveInv, Zenon
<1>6. ASSUME NEW r \in Requests, Await(r), permits = 0 PROVE AInv'
  <2>m. pc[r] = "admitted"
    BY <1>6, Zenon DEF Await
  <2>1. Goto(r, "queued") /\ pc' = [pc EXCEPT ![r] = "queued"] /\ permits' = permits /\ waiting' = waiting
        /\ line' = Append(line, r)
    BY <1>6 DEF Await, Goto
  <2>2. In("queued", HoldS) = In(pc[r], HoldS) /\ In("queued", CountS) = In(pc[r], CountS)
        /\ In("queued", WaitS) = In(pc[r], WaitS)
    BY <1>6, Zenon DEF Await, In, HoldS, CountS, WaitS
  <2>3. ASSUME NEW S, In("queued", S) = In(pc[r], S) PROVE Count(pc', S) = Count(pc, S)
    <3>1. Count(pc', S) = Count(pc, S) + In("queued", S) - In(pc[r], S)
      BY <1>t, <1>p, <2>1, Moved, Zenon
    <3>2. Count(pc, S) \in Nat /\ In(pc[r], S) \in {0, 1}
      BY CountNat, Zenon DEF In
    <3> QED BY <3>1, <3>2, <2>3
  <2>4. Count(pc', HoldS) = Count(pc, HoldS) /\ Count(pc', CountS) = Count(pc, CountS)
        /\ Count(pc', WaitS) = Count(pc, WaitS)
    BY <2>2, <2>3, Zenon
  <2>5. /\ permits' + Count(pc', HoldS) = Concurrency
        /\ waiting' = Count(pc', CountS)
        /\ Count(pc', WaitS) <= QueueLimit
    BY <2>1, <2>4, <1>t, <1>n, Zenon
  <2>6. TypeOK'
    BY <2>1, <1>t, <1>p DEF AInv, TypeOK
  <2>7. LineInv'
    <3>1. /\ Len(line') = Len(line) + 1 /\ line'[Len(line) + 1] = r /\ Len(line) \in Nat
          /\ \A i \in 1..Len(line) : line'[i] = line[i] /\ line[i] \in Requests
      BY <2>1 DEF AInv, TypeOK
    <3>2. \A i \in 1..Len(line) : line[i] # r /\ pc'[line[i]] = "queued"
      BY <2>1, <2>m, <3>1, <1>t, Zenon DEF AInv, LineInv
    <3>3. pc'[r] = "queued"
      BY <2>1, <1>t, Zenon
    <3>4. \A i \in 1..Len(line') : i \in 1..Len(line) \/ i = Len(line) + 1
      BY <3>1
    <3>5. \A i \in 1..Len(line') : pc'[line'[i]] = "queued"
      BY <3>1, <3>2, <3>3, <3>4, Zenon
    <3>6. \A i, j \in 1..Len(line') : line'[i] = line'[j] => i = j
      BY <3>1, <3>2, <3>4 DEF AInv, LineInv
    <3> QED BY <3>5, <3>6, Zenon DEF LineInv
  <2>8. NoIdlePermit'
    BY <2>1, <1>6 DEF NoIdlePermit
  <2> QED BY <2>5, <2>6, <2>7, <2>8, CountsNext, Zenon DEF AInv
<1>7. ASSUME NEW r \in Requests, Wake(r) PROVE AInv'
  <2>1. /\ In(pc[r], HoldS) = 1 /\ In(pc[r], CountS) = 1 /\ In(pc[r], WaitS) = 1
        /\ In("working", HoldS) = 1 /\ In("working", CountS) = 0 /\ In("working", WaitS) = 0
        /\ pc[r] # "queued"
    BY <1>7, Zenon DEF Wake, In, HoldS, CountS, WaitS
  <2>2. Goto(r, "working") /\ permits' = permits /\ waiting' = waiting - 1 /\ line' = line
    BY <1>7, <1>t, Zenon DEF Wake
  <2>3. permits' = permits - In("working", HoldS) + In(pc[r], HoldS)
    BY <2>1, <2>2, <1>t
  <2>4. waiting' = waiting + In("working", CountS) - In(pc[r], CountS)
    BY <2>1, <2>2, <1>t
  <2>5. permits' \in Nat /\ (permits' > 0 => permits > 0)
    BY <2>2, <1>7, <1>t, Zenon
  <2>6. In("working", WaitS) > In(pc[r], WaitS) => waiting < QueueLimit
    BY <2>1, <1>7
  <2> QED BY <2>2, <2>3, <2>4, <2>5, <2>6, <2>1, <1>p, MoveInv, Zenon
<1>8. ASSUME NEW r \in Requests, Finish(r) PROVE AInv'
  BY <1>8, <1>t, BackInv DEF Finish
<1>9. ASSUME NEW r \in Requests, LeaveGranted(r) PROVE AInv'
  BY <1>9, <1>t, BackInv, Zenon DEF LeaveGranted
<1>10. ASSUME NEW r \in Requests, LeaveJob(r) PROVE AInv'
  BY <1>10, <1>t, BackInv DEF LeaveJob
<1>11. ASSUME NEW r \in Requests, LeaveLine(r) PROVE AInv'
  <2>m. /\ In(pc[r], HoldS) = 0 /\ In(pc[r], CountS) = 1 /\ In(pc[r], WaitS) = 1
        /\ In("none", HoldS) = 0 /\ In("none", CountS) = 0 /\ In("none", WaitS) = 0
        /\ pc[r] = "queued"
    BY <1>11, Zenon DEF LeaveLine, In, HoldS, CountS, WaitS
  <2>1. Goto(r, "none") /\ pc' = [pc EXCEPT ![r] = "none"] /\ permits' = permits /\ waiting' = waiting - 1
    BY <1>11, Zenon DEF LeaveLine, Goto
  <2>2. PICK k \in 1..Len(line) : line[k] = r /\ line' = Without(k)
    BY <1>11, Zenon DEF LeaveLine
  <2>3. Count(pc', HoldS) = Count(pc, HoldS) + In("none", HoldS) - In(pc[r], HoldS)
    BY <1>t, <1>p, <2>1, Moved, Zenon
  <2>4. Count(pc', CountS) = Count(pc, CountS) + In("none", CountS) - In(pc[r], CountS)
    BY <1>t, <1>p, <2>1, Moved, Zenon
  <2>5. Count(pc', WaitS) = Count(pc, WaitS) + In("none", WaitS) - In(pc[r], WaitS)
    BY <1>t, <1>p, <2>1, Moved, Zenon
  <2>6. /\ permits' + Count(pc', HoldS) = Concurrency
        /\ waiting' = Count(pc', CountS)
        /\ Count(pc', WaitS) <= QueueLimit
    BY <2>1, <2>m, <2>3, <2>4, <2>5, <1>t, <1>n, SMTT(20)
  <2>7. waiting' \in Nat
    BY <2>6, CountNat, Zenon
  <2>8. /\ Len(line) \in Nat /\ Len(line) - 1 \in Nat /\ line' \in Seq(Requests)
        /\ Len(line') = Len(line) - 1
        /\ \A j \in 1..Len(line') : line'[j] = IF j < k THEN line[j] ELSE line[j + 1]
    <3>1. line \in Seq(Requests) /\ Len(line) \in Nat /\ Len(line) - 1 \in Nat
      BY <2>2 DEF AInv, TypeOK
    <3>2. \A j \in 1..(Len(line) - 1) : (IF j < k THEN line[j] ELSE line[j + 1]) \in Requests
      BY <3>1, <2>2
    <3>3. line' \in [1..(Len(line) - 1) -> Requests]
      BY <3>2, <2>2, Zenon DEF Without
    <3>4. line' \in Seq(Requests) /\ Len(line') = Len(line) - 1
      BY <3>1, <3>3
    <3> QED BY <3>1, <3>4, <2>2, Zenon DEF Without
  <2>9. TypeOK'
    BY <2>1, <2>7, <2>8, <1>t, <1>p, Zenon DEF TypeOK
  <2>10. LineInv'
    <3> DEFINE at(j) == IF j < k THEN j ELSE j + 1
    <3>1. \A j \in 1..Len(line') : at(j) \in 1..Len(line) /\ at(j) # k /\ line'[j] = line[at(j)]
      BY <2>8, <2>2
    <3>2. \A i, j \in 1..Len(line') : at(i) = at(j) => i = j
      BY <2>8, <2>2
    <3> HIDE DEF at
    <3>3. \A j \in 1..Len(line') : line[at(j)] # r /\ line[at(j)] \in Requests
      BY <3>1, <2>2 DEF AInv, TypeOK, LineInv
    <3>4. \A j \in 1..Len(line') : pc'[line'[j]] = "queued"
      BY <3>1, <3>3, <2>1, <1>t DEF AInv, LineInv
    <3>5. \A i, j \in 1..Len(line') : line'[i] = line'[j] => i = j
      BY <3>1, <3>2 DEF AInv, LineInv
    <3> QED BY <3>4, <3>5, Zenon DEF LineInv
  <2>11. NoIdlePermit'
    BY <2>1, <2>2 DEF AInv, NoIdlePermit
  <2> QED BY <2>6, <2>9, <2>10, <2>11, CountsNext, Zenon DEF AInv
<1>12. ASSUME NEW r \in Requests, Await(r) \/ TryAcquire(r) \/ Join(r) PROVE AInv'
  <2>1. permits > 0 \/ permits = 0
    BY <1>t
  <2>2. waiting >= QueueLimit \/ waiting < QueueLimit
    BY <1>t
  <2> QED BY <2>1, <2>2, <1>12, <1>2a, <1>2b, <1>3a, <1>3b, <1>5, <1>6, Zenon
<1> QED BY <1>1, <1>4, <1>7, <1>8, <1>9, <1>10, <1>11, <1>12, Zenon DEF Next, Step

\* AInv holds in every state the API can reach, for any number of connections.
THEOREM Invariance == Spec => []AInv
BY InitInv, NextInv, PTL DEF Spec

\* acquire and handle_job lose no permit and make none, whoever hangs up while
\* waiting, when a permit is already assigned, or while the job runs.
THEOREM PermitsAreConserved == Spec => []PermitsConserved
<1>1. AInv => PermitsConserved
  BY Zenon DEF AInv
<1> QED BY <1>1, Invariance, PTL

\* The counter behind the answer 429 is exact, so it cannot leak.
THEOREM CounterIsExact == Spec => []CounterExact
<1>1. AInv => CounterExact
  BY Zenon DEF AInv
<1> QED BY <1>1, Invariance, PTL

\* Never more than KURA_QUEUE requests wait, although the check is a
\* fetch_add followed by a fetch_sub and not one atomic test.
THEOREM WaitersAreBounded == Spec => []WaitersBounded
<1>1. AInv => WaitersBounded
  BY Zenon DEF AInv
<1> QED BY <1>1, Invariance, PTL

\* A permit that comes back while requests are in the line goes to one of them:
\* none lies idle, also when the request it was given to hangs up.
THEOREM NoPermitIdle == Spec => []NoIdlePermit
<1>1. AInv => NoIdlePermit
  BY Zenon DEF AInv
<1> QED BY <1>1, Invariance, PTL

-----------------------------------------------------------------------------
(* The working directories.  A sweep never removes the root of a worker that   *)
(* has started, if a worker takes no more than half the lease from making its  *)
(* root to locking it and from reading an entry's time to removing it.         *)

Owning(w) == phase[w] \in {"made", "created", "live"}

\* A root is there from the moment it is made, and has one owner.
Owned ==
  /\ \A w \in Workers : (Owning(w) <=> root[w] # None) /\ (Owning(w) => root[w] \in dirs)
  /\ \A v, w \in Workers : root[v] # None /\ root[v] = root[w] => v = w

\* A live worker holds its lock; the lock a sweeper has taken is its own.
Locked ==
  /\ \A w \in Workers : phase[w] \in {"created", "live"} => root[w] \in locks
  /\ \A w \in Workers : phase[w] = "live" => holder[root[w]] = w
  /\ \A w \in Workers : look[w].verdict = "mine" => holder[look[w].dir] = w

Sweeping ==
  \A w \in Workers : /\ look[w].dir # None => phase[w] = "sweep"
                     /\ look[w].dir = None <=> look[w].verdict = "none"

\* What a sweep has read of a root that is not locked yet is no older than the
\* time its owner has had; what it read before the lock was taken stays so.
Young ==
  /\ \A d \in Roots : d \notin dirs => age[d] = 0
  /\ \A w \in Workers : Claiming(w) => age[root[w]] <= window[w]
  /\ \A v, w \in Workers : Claiming(w) /\ look[v].dir = root[w] => Elapsed(v) <= window[w]
  /\ \A v, w \in Workers :
       phase[w] = "live" /\ look[v].dir = root[w] /\ look[v].verdict = "yes" => look[v].was <= Delay

RInv == RootsTypeOK /\ Owned /\ Locked /\ Sweeping /\ Young
\* The three facts of the induction: the invariant holds at first, every step
\* keeps it, and a live worker's root is there.
LEMMA RInvInit == RootsInit => RInv
BY RootsAssumption, SMT DEF RootsInit, RInv, RootsTypeOK, Owned, Locked, Sweeping, Young, Owning, Claiming, Looks, Nothing, Old, Elapsed

\* A worker that starts keeps the invariant.
LEMMA KeepStart ==
  ASSUME RInv, 2 * Delay <= Lease, NEW w \in Workers, Start(w)
  PROVE  RInv'
<1> USE RootsAssumption DEF RInv
<1>1. RootsTypeOK'
  BY SMTT(30) DEF Start, RootsTypeOK, Looks, Nothing, Old
<1>2. Owned'
  BY SMTT(30) DEF Start, RootsTypeOK, Looks, Owned, Owning
<1>3. Locked'
  BY SMTT(30) DEF Start, RootsTypeOK, Looks, Locked, Owned, Owning, Sweeping, Nothing
<1>4. Sweeping'
  BY SMTT(30) DEF Start, RootsTypeOK, Looks, Sweeping, Nothing, Owned, Owning
<1>5. Young'
  BY SMTT(30) DEF Start, RootsTypeOK, Looks, Young, Owned, Owning, Locked, Sweeping, Claiming, Elapsed, Nothing
<1> QED BY <1>1, <1>2, <1>3, <1>4, <1>5

\* Reading an entry keeps the invariant.
LEMMA KeepStat ==
  ASSUME RInv, 2 * Delay <= Lease, NEW w \in Workers, NEW d \in Roots, Stat(w, d)
  PROVE  RInv'
<1> USE RootsAssumption DEF RInv
<1>1. RootsTypeOK'
  BY SMTT(30) DEF Stat, RootsTypeOK, Looks, Nothing, Old
<1>2. Owned'
  BY SMTT(30) DEF Stat, RootsTypeOK, Looks, Owned, Owning
<1>3. Locked'
  BY SMTT(30) DEF Stat, RootsTypeOK, Looks, Locked, Owned, Owning, Sweeping, Nothing
<1>4. Sweeping'
  BY SMTT(30) DEF Stat, RootsTypeOK, Looks, Sweeping, Nothing, Owned, Owning
<1>5. Young'
  BY SMTT(30) DEF Stat, RootsTypeOK, Looks, Young, Owned, Owning, Locked, Sweeping, Claiming, Elapsed, Nothing
<1> QED BY <1>1, <1>2, <1>3, <1>4, <1>5

\* Testing a lock keeps the invariant.
LEMMA KeepTest ==
  ASSUME RInv, 2 * Delay <= Lease, NEW w \in Workers, Test(w)
  PROVE  RInv'
<1> USE RootsAssumption DEF RInv
<1>0. look[w].dir \in Roots /\ look[w].verdict = "unknown" /\ look[w] \in Looks /\ phase[w] = "sweep"
  BY DEF Test, RootsTypeOK, Looks, Sweeping
<1> DEFINE d == look[w].dir
<1>1. ASSUME NEW x \in {"yes", "no", "mine"}, look' = [look EXCEPT ![w].verdict = x]
      PROVE  /\ look' \in [Workers -> Looks] /\ look'[w].verdict = x
             /\ \A v \in Workers : look'[v].dir = look[v].dir /\ look'[v].was = look[v].was /\ look'[v].since = look[v].since
             /\ \A v \in Workers \ {w} : look'[v] = look[v]
  BY <1>0, <1>1 DEF RootsTypeOK, Looks
<1>2. CASE d \notin locks
  <2>0. /\ look' \in [Workers -> Looks] /\ look'[w].verdict = "yes"
        /\ \A v \in Workers : look'[v].dir = look[v].dir /\ look'[v].was = look[v].was /\ look'[v].since = look[v].since
        /\ \A v \in Workers \ {w} : look'[v] = look[v]
        /\ holder' = holder
        /\ UNCHANGED <<phase, root, window, todo, dirs, age, locks, owed>>
    BY <1>1, <1>2 DEF Test
  <2>1. RootsTypeOK'
    BY <1>0, <2>0 DEF RootsTypeOK
  <2>2. Owned'
    BY <2>0 DEF Owned, Owning
  <2>3. Locked'
    BY <1>0, <1>2, <2>0 DEF Locked, Owned, Owning, RootsTypeOK, Sweeping
  <2>4. Sweeping'
    BY <1>0, <2>0 DEF Sweeping
  <2>5. Young'
    BY <1>0, <1>2, <2>0 DEF Young, Claiming, Elapsed, Locked, Owned, Owning
  <2> QED BY <2>1, <2>2, <2>3, <2>4, <2>5
<1>3. CASE d \in locks /\ holder[d] # None
  <2>0. /\ look' \in [Workers -> Looks] /\ look'[w].verdict = "no"
        /\ \A v \in Workers : look'[v].dir = look[v].dir /\ look'[v].was = look[v].was /\ look'[v].since = look[v].since
        /\ \A v \in Workers \ {w} : look'[v] = look[v]
        /\ holder' = holder
        /\ UNCHANGED <<phase, root, window, todo, dirs, age, locks, owed>>
    BY <1>1, <1>3 DEF Test
  <2>1. RootsTypeOK'
    BY <1>0, <2>0 DEF RootsTypeOK
  <2>2. Owned'
    BY <2>0 DEF Owned, Owning
  <2>3. Locked'
    BY <1>0, <1>3, <2>0 DEF Locked, Owned, Owning, RootsTypeOK, Sweeping
  <2>4. Sweeping'
    BY <1>0, <2>0 DEF Sweeping
  <2>5. Young'
    BY <1>0, <1>3, <2>0 DEF Young, Claiming, Elapsed, Locked, Owned, Owning
  <2> QED BY <2>1, <2>2, <2>3, <2>4, <2>5
<1>4. CASE d \in locks /\ holder[d] = None
  <2>0. /\ look' \in [Workers -> Looks] /\ look'[w].verdict = "mine"
        /\ \A v \in Workers : look'[v].dir = look[v].dir /\ look'[v].was = look[v].was /\ look'[v].since = look[v].since
        /\ \A v \in Workers \ {w} : look'[v] = look[v]
        /\ holder' = [holder EXCEPT ![d] = w]
        /\ UNCHANGED <<phase, root, window, todo, dirs, age, locks, owed>>
    BY <1>1, <1>4 DEF Test
  <2>1. RootsTypeOK'
    BY <1>0, <2>0 DEF RootsTypeOK
  <2>2. Owned'
    BY <2>0 DEF Owned, Owning
  <2>3. Locked'
    BY <1>0, <1>4, <2>0, SMTT(20) DEF Locked, Owned, Owning, RootsTypeOK, Sweeping
  <2>4. Sweeping'
    BY <1>0, <2>0 DEF Sweeping
  <2>5. Young'
    BY <1>0, <1>4, <2>0 DEF Young, Claiming, Elapsed, Locked, Owned, Owning
  <2> QED BY <2>1, <2>2, <2>3, <2>4, <2>5
<1> QED BY <1>2, <1>3, <1>4

\* Letting it go keeps the invariant.
LEMMA KeepUnlock ==
  ASSUME RInv, 2 * Delay <= Lease, NEW w \in Workers, Unlock(w)
  PROVE  RInv'
<1> USE RootsAssumption DEF RInv
<1>0. look[w].dir \in Roots
  BY DEF Unlock, RootsTypeOK, Looks, Sweeping
<1>1. RootsTypeOK'
  BY <1>0, SMTT(30) DEF Unlock, RootsTypeOK, Looks, Nothing, Old
<1>2. Owned'
  BY <1>0, SMTT(30) DEF Unlock, RootsTypeOK, Looks, Owned, Owning
<1>3. Locked'
  BY <1>0, SMTT(30) DEF Unlock, RootsTypeOK, Looks, Locked, Owned, Owning, Sweeping, Nothing
<1>4. Sweeping'
  BY <1>0, SMTT(30) DEF Unlock, RootsTypeOK, Looks, Sweeping, Nothing, Owned, Owning
<1>5. Young'
  BY <1>0, SMTT(30) DEF Unlock, RootsTypeOK, Looks, Young, Owned, Owning, Locked, Sweeping, Claiming, Elapsed, Nothing
<1> QED BY <1>1, <1>2, <1>3, <1>4, <1>5

\* The verdict on an entry keeps the invariant.
LEMMA KeepJudge ==
  ASSUME RInv, 2 * Delay <= Lease, NEW w \in Workers, Judge(w)
  PROVE  RInv'
<1> USE RootsAssumption DEF RInv
<1>0. look[w].dir \in Roots
  BY DEF Judge, RootsTypeOK, Looks, Sweeping
<1>1. RootsTypeOK'
  <2>1. 0 \in 0..Old /\ 0 \in 0..Delay
    BY DEF Old
  <2>2. Nothing \in Looks
    BY <2>1, Zenon DEF Nothing, Looks
  <2>3. look' \in [Workers -> Looks]
    BY <2>2, Zenon DEF Judge, RootsTypeOK
  <2>4. CASE Remove(look[w].dir)
    <3>1. dirs' \in SUBSET Roots /\ locks' \in SUBSET Roots /\ owed' \in [Workers -> SUBSET Roots]
      BY <2>4, Zenon DEF Remove, RootsTypeOK
    <3>2. age' \in [Roots -> 0..Old]
      BY <1>0, <2>1, <2>4, Zenon DEF Remove, RootsTypeOK
    <3> QED BY <2>3, <3>1, <3>2, Zenon DEF Judge, RootsTypeOK
  <2>5. CASE UNCHANGED <<dirs, locks, age, owed>>
    BY <2>3, <2>5, Zenon DEF Judge, RootsTypeOK
  <2> QED BY <2>4, <2>5, Zenon DEF Judge
<1>2. Owned'
  BY <1>0, SMTT(30) DEF Judge, Remove, RootsTypeOK, Looks, Owned, Owning, Young, Claiming, Elapsed, Locked, Sweeping
<1>3. Locked'
  BY <1>0, SMTT(30) DEF Judge, Remove, RootsTypeOK, Looks, Locked, Owned, Owning, Sweeping, Nothing, Young, Claiming, Elapsed
<1>4. Sweeping'
  BY <1>0, SMTT(30) DEF Judge, Remove, RootsTypeOK, Looks, Sweeping, Nothing, Owned, Owning
<1>5. Young'
  <2>1. look[w] \in Looks /\ (\A v \in Workers \ {w} : look'[v] = look[v]) /\ look'[w] = Nothing
    BY DEF Judge, RootsTypeOK
  <2>2. UNCHANGED <<phase, root, window>>
    BY DEF Judge
  <2>3. CASE UNCHANGED <<dirs, locks, age, owed>>
    BY <2>1, <2>2, <2>3, SMTT(20) DEF Young, Claiming, Elapsed, Nothing, RootsTypeOK, Owned, Owning
  <2>4. CASE Remove(look[w].dir)
    <3>1. \A e \in Roots : age'[e] = IF e = look[w].dir THEN 0 ELSE age[e]
      BY <1>0, <2>4 DEF Remove, RootsTypeOK
    <3>2. \A v \in Workers : Claiming(v) => root[v] \in Roots /\ window[v] \in 0..Delay
      BY DEF RootsTypeOK, Owned, Owning, Claiming
    <3>3. \A e \in Roots : e \notin dirs' => age'[e] = 0
      BY <2>4, <3>1 DEF Remove, Young
    <3>4. \A v \in Workers : Claiming(v)' => age'[root'[v]] <= window'[v]
      BY <2>2, <3>1, <3>2 DEF Young, Claiming
    <3>5. \A u, v \in Workers : Claiming(v)' /\ look'[u].dir = root'[v] => Elapsed(u)' <= window'[v]
      BY <2>1, <2>2, <3>2 DEF Young, Claiming, Elapsed, Nothing
    <3>6. \A u, v \in Workers :
            phase'[v] = "live" /\ look'[u].dir = root'[v] /\ look'[u].verdict = "yes" => look'[u].was <= Delay
      BY <2>1, <2>2 DEF Young, Nothing
    <3> QED BY <3>3, <3>4, <3>5, <3>6 DEF Young
  <2> QED BY <2>3, <2>4 DEF Judge
<1> QED BY <1>1, <1>2, <1>3, <1>4, <1>5

\* Making a root keeps the invariant.
LEMMA KeepMake ==
  ASSUME RInv, 2 * Delay <= Lease, NEW w \in Workers, NEW d \in Roots, Make(w, d)
  PROVE  RInv'
<1> USE RootsAssumption DEF RInv
<1>1. RootsTypeOK'
  BY SMTT(30) DEF Make, Unused, RootsTypeOK, Looks, Nothing, Old
<1>2. Owned'
  BY SMTT(30) DEF Make, Unused, RootsTypeOK, Looks, Owned, Owning
<1>3. Locked'
  BY SMTT(30) DEF Make, Unused, RootsTypeOK, Looks, Locked, Owned, Owning, Sweeping, Nothing
<1>4. Sweeping'
  BY SMTT(30) DEF Make, Unused, RootsTypeOK, Looks, Sweeping, Nothing, Owned, Owning
<1>5. Young'
  BY SMTT(30) DEF Make, Unused, RootsTypeOK, Looks, Young, Owned, Owning, Locked, Sweeping, Claiming, Elapsed, Nothing
<1> QED BY <1>1, <1>2, <1>3, <1>4, <1>5

\* A claim that fails keeps the invariant.
LEMMA KeepFail ==
  ASSUME RInv, NEW w \in Workers, Claiming(w), Fail(w)
  PROVE  RInv'
<1> USE RootsAssumption DEF RInv
<1>1. RootsTypeOK'
  BY SMTT(30) DEF Fail, Claiming, RootsTypeOK, Looks, Nothing, Old
<1>2. Owned'
  BY SMTT(30) DEF Fail, Claiming, RootsTypeOK, Looks, Owned, Owning
<1>3. Locked'
  BY SMTT(30) DEF Fail, Claiming, RootsTypeOK, Looks, Locked, Owned, Owning, Sweeping, Nothing
<1>4. Sweeping'
  BY SMTT(30) DEF Fail, Claiming, RootsTypeOK, Looks, Sweeping, Nothing, Owned, Owning
<1>5. Young'
  BY SMTT(30) DEF Fail, Claiming, RootsTypeOK, Looks, Young, Owned, Owning, Locked, Sweeping, Elapsed, Nothing
<1> QED BY <1>1, <1>2, <1>3, <1>4, <1>5

\* Creating its lock keeps the invariant.
LEMMA KeepCreateLock ==
  ASSUME RInv, 2 * Delay <= Lease, NEW w \in Workers, CreateLock(w)
  PROVE  RInv'
<1> USE RootsAssumption DEF RInv
<1>0. root[w] \in Roots /\ root[w] \in dirs /\ phase[w] = "made"
  BY DEF CreateLock, RootsTypeOK, Owned, Owning
<1>1. RootsTypeOK'
  BY <1>0, SMTT(30) DEF CreateLock, RootsTypeOK, Old
<1>2. Owned'
  BY <1>0, SMTT(30) DEF CreateLock, RootsTypeOK, Looks, Owned, Owning
<1>3. Locked'
  BY <1>0, SMTT(30) DEF CreateLock, RootsTypeOK, Looks, Locked, Owned, Owning, Sweeping, Nothing
<1>4. Sweeping'
  BY <1>0, SMTT(30) DEF CreateLock, RootsTypeOK, Looks, Sweeping, Nothing, Owned, Owning
<1>5. Young'
  BY <1>0, SMTT(30) DEF CreateLock, RootsTypeOK, Looks, Young, Owned, Owning, Locked, Sweeping, Claiming, Elapsed, Nothing
<1> QED BY <1>1, <1>2, <1>3, <1>4, <1>5

\* Taking its lock keeps the invariant.
LEMMA KeepLock ==
  ASSUME RInv, 2 * Delay <= Lease, NEW w \in Workers, Lock(w)
  PROVE  RInv'
<1> USE RootsAssumption DEF RInv
<1>0. root[w] \in Roots /\ root[w] \in dirs /\ phase[w] = "created"
  BY DEF Lock, RootsTypeOK, Owned, Owning
<1>6. CASE holder[root[w]] # None
  BY <1>0, <1>6, KeepFail DEF Lock, Claiming
<1>7. CASE holder[root[w]] = None
  <2>1. RootsTypeOK'
    BY <1>0, <1>7, SMTT(30) DEF Lock, RootsTypeOK
  <2>2. Owned'
    BY <1>0, <1>7, SMTT(30) DEF Lock, RootsTypeOK, Looks, Owned, Owning
  <2>3. Locked'
    BY <1>0, <1>7, SMTT(30) DEF Lock, RootsTypeOK, Looks, Locked, Owned, Owning, Sweeping, Nothing
  <2>4. Sweeping'
    BY <1>0, <1>7, SMTT(30) DEF Lock, RootsTypeOK, Looks, Sweeping, Nothing, Owned, Owning
  <2>5. Young'
    BY <1>0, <1>7, SMTT(30) DEF Lock, RootsTypeOK, Looks, Young, Owned, Owning, Locked, Sweeping, Claiming, Elapsed, Nothing
  <2> QED BY <2>1, <2>2, <2>3, <2>4, <2>5
<1> QED BY <1>6, <1>7

\* A job's directory keeps the invariant.
LEMMA KeepTouch ==
  ASSUME RInv, 2 * Delay <= Lease, NEW w \in Workers, Touch(w)
  PROVE  RInv'
<1> USE RootsAssumption DEF RInv
<1>1. RootsTypeOK'
  BY SMTT(30) DEF Touch, RootsTypeOK, Looks, Nothing, Old
<1>2. Owned'
  BY SMTT(30) DEF Touch, RootsTypeOK, Looks, Owned, Owning
<1>3. Locked'
  BY SMTT(30) DEF Touch, RootsTypeOK, Looks, Locked, Owned, Owning, Sweeping, Nothing
<1>4. Sweeping'
  BY SMTT(30) DEF Touch, RootsTypeOK, Looks, Sweeping, Nothing, Owned, Owning
<1>5. Young'
  BY SMTT(30) DEF Touch, RootsTypeOK, Looks, Young, Owned, Owning, Locked, Sweeping, Claiming, Elapsed, Nothing
<1> QED BY <1>1, <1>2, <1>3, <1>4, <1>5

\* A worker that stops keeps the invariant.
LEMMA KeepStop ==
  ASSUME RInv, 2 * Delay <= Lease, NEW w \in Workers, Stop(w)
  PROVE  RInv'
<1> USE RootsAssumption DEF RInv
<1>0. root[w] \in Roots /\ root[w] \in dirs
  BY DEF Stop, RootsTypeOK, Owned, Owning
<1>1. RootsTypeOK'
  BY <1>0, SMTT(30) DEF Stop, Remove, Release, RootsTypeOK, Looks, Nothing, Old
<1>2. Owned'
  BY <1>0, SMTT(30) DEF Stop, Remove, Release, RootsTypeOK, Looks, Owned, Owning
<1>3. Locked'
  BY <1>0, SMTT(30) DEF Stop, Remove, Release, RootsTypeOK, Looks, Locked, Owned, Owning, Sweeping, Nothing
<1>4. Sweeping'
  BY <1>0, SMTT(30) DEF Stop, Remove, Release, RootsTypeOK, Looks, Sweeping, Nothing, Owned, Owning
<1>5. Young'
  BY <1>0, SMTT(30) DEF Stop, Remove, Release, RootsTypeOK, Looks, Young, Owned, Owning, Locked, Sweeping, Claiming, Elapsed, Nothing
<1> QED BY <1>1, <1>2, <1>3, <1>4, <1>5

\* A worker that dies keeps the invariant.
LEMMA KeepCrash ==
  ASSUME RInv, 2 * Delay <= Lease, NEW w \in Workers, Crash(w)
  PROVE  RInv'
<1> USE RootsAssumption DEF RInv
<1>1. RootsTypeOK'
  BY SMTT(30) DEF Crash, Release, RootsTypeOK, Looks, Nothing, Old
<1>2. Owned'
  BY SMTT(30) DEF Crash, Release, RootsTypeOK, Looks, Owned, Owning
<1>3. Locked'
  BY SMTT(30) DEF Crash, Release, RootsTypeOK, Looks, Locked, Owned, Owning, Sweeping, Nothing
<1>4. Sweeping'
  BY SMTT(30) DEF Crash, Release, RootsTypeOK, Looks, Sweeping, Nothing, Owned, Owning
<1>5. Young'
  BY SMTT(30) DEF Crash, Release, RootsTypeOK, Looks, Young, Owned, Owning, Locked, Sweeping, Claiming, Elapsed, Nothing
<1> QED BY <1>1, <1>2, <1>3, <1>4, <1>5

\* So does the passing of time.
LEMMA KeepTick ==
  ASSUME RInv, Tick
  PROVE  RInv'
<1> USE RootsAssumption DEF RInv
<1>1. RootsTypeOK'
  BY SMTT(30) DEF Tick, Claiming, RootsTypeOK, Looks, Nothing, Old
<1>2. Owned'
  BY SMTT(30) DEF Tick, Claiming, RootsTypeOK, Looks, Owned, Owning
<1>3. Locked'
  BY SMTT(30) DEF Tick, Claiming, RootsTypeOK, Looks, Locked, Owned, Owning, Sweeping, Nothing
<1>4. Sweeping'
  BY SMTT(30) DEF Tick, Claiming, RootsTypeOK, Looks, Sweeping, Nothing, Owned, Owning
<1>5. Young'
  BY SMTT(30) DEF Tick, Claiming, RootsTypeOK, Looks, Young, Owned, Owning, Locked, Sweeping, Elapsed, Nothing
<1> QED BY <1>1, <1>2, <1>3, <1>4, <1>5

\* Every step keeps it.
LEMMA RootsStep ==
  ASSUME RInv, 2 * Delay <= Lease, [RootsNext]_rootVars
  PROVE  RInv'
<1>1. CASE Tick
  BY <1>1, KeepTick
<1>2. ASSUME NEW w \in Workers, Start(w) \/ Touch(w) \/ Stop(w) \/ Crash(w) PROVE RInv'
  BY <1>2, KeepStart, KeepTouch, KeepStop, KeepCrash
<1>3. ASSUME NEW w \in Workers, Sweep(w) PROVE RInv'
  BY <1>3, KeepStat, KeepTest, KeepUnlock, KeepJudge DEF Sweep
<1>4. ASSUME NEW w \in Workers, Claim(w) PROVE RInv'
  BY <1>4, KeepMake, KeepCreateLock, KeepLock DEF Claim
<1>5. CASE UNCHANGED rootVars
  BY <1>5 DEF rootVars, RInv, RootsTypeOK, Owned, Locked, Sweeping, Young, Owning, Claiming, Elapsed
<1> QED BY <1>1, <1>2, <1>3, <1>4, <1>5 DEF RootsNext

\* worker.rs, sweep and claim: whatever the workers of a host do and however
\* their calls interleave, the root of one that has started is not swept away,
\* if Delay is at most half of KURA_LEASE_MS.
THEOREM LiveRoots == 2 * Delay <= Lease => (RootsSpec => []LiveRootKept)
<1> SUFFICES ASSUME 2 * Delay <= Lease PROVE RootsSpec => []LiveRootKept
  OBVIOUS
<1>1. RootsInit => RInv
  BY RInvInit
<1>2. RInv /\ [RootsNext]_rootVars => RInv'
  BY RootsStep
<1>3. RInv => LiveRootKept
  BY DEF RInv, Owned, Owning, LiveRootKept
<1> QED BY <1>1, <1>2, <1>3, PTL DEF RootsSpec
=============================================================================
