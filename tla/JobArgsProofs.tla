---------------------------- MODULE JobArgsProofs ----------------------------
(* The engine reads from the list of a request what the request asks for, a    *)
(* list that was accepted stays accepted, and 200 is the engine's verdict, for *)
(* any tables of options, levels, profiles and requests.                       *)
EXTENDS JobArgs, WellFoundedInduction, TLAPS

-----------------------------------------------------------------------------
(* Induction *)

\* Induction over the naturals, by a set.
LEMMA Induct ==
  ASSUME NEW P, 0 \in P, \A n \in Nat : n \in P => n + 1 \in P
  PROVE  Nat \subseteq P
<1> SUFFICES ASSUME Nat \ P # {} PROVE FALSE
  BY Zenon
<1>1. IsWellFoundedOn(OpToRel(<, Nat), Nat)
  BY NatLessThanWellFounded, Zenon
<1>2. PICK n \in Nat \ P : \A m \in Nat \ P : ~(<<m, n>> \in OpToRel(<, Nat))
  <2>1. Nat \ P \subseteq Nat
    BY Zenon
  <2> QED BY <1>1, <2>1, WFMin, Zenon
<1>3. \A m \in Nat \ P : ~(m < n)
  BY <1>2, Zenon DEF OpToRel
<1>4. n - 1 \in Nat /\ n - 1 < n /\ (n - 1) + 1 = n
  <2>1. n \in Nat /\ n # 0
    BY <1>2, Zenon
  <2> QED BY <2>1
<1>5. n - 1 \in P
  BY <1>3, <1>4, Zenon
<1> QED BY <1>2, <1>4, <1>5, Zenon

StepsIn(S, g) == \A n \in Nat : g[n] \in [S -> S]
Rounds(k, S, g, a, N) == k \in [0..N -> S] /\ k[0] = a /\ \A n \in 1..N : k[n] = g[n][k[n - 1]]

\* A loop that goes on for N rounds has a state after each of them.
LEMMA Iterates ==
  ASSUME NEW S, NEW g, StepsIn(S, g), NEW a \in S, NEW N \in Nat
  PROVE  \E k : Rounds(k, S, g, a, N)
<1> DEFINE Upto(k, m) == k[0] = a /\ \A n \in 1..m : k[n] = g[n][k[n - 1]]
           P == {m \in Nat : \E k \in [0..m -> S] : Upto(k, m)}
<1>1. 0 \in P
  <2> DEFINE k == [n \in 0..0 |-> a]
  <2>1. k \in [0..0 -> S] /\ k[0] = a /\ \A n \in 1..0 : FALSE
    OBVIOUS
  <2>2. Upto(k, 0)
    BY <2>1, Zenon
  <2> QED BY <2>1, <2>2, Zenon
<1>2. ASSUME NEW m \in Nat, m \in P PROVE m + 1 \in P
  <2>1. PICK k \in [0..m -> S] : Upto(k, m)
    BY <1>2, Zenon
  <2> DEFINE last == g[m + 1][k[m]]
             h == [n \in 0..(m + 1) |-> IF n = m + 1 THEN last ELSE k[n]]
  <2>2. last \in S
    <3>1. m \in 0..m /\ m + 1 \in Nat
      OBVIOUS
    <3> QED BY <3>1, Zenon DEF StepsIn
  <2>3. h \in [0..(m + 1) -> S] /\ h[0] = k[0] /\ h[m + 1] = last /\ \A n \in 0..m : h[n] = k[n]
    <3> HIDE DEF last
    <3> QED BY <2>2
  <2>4. ASSUME NEW n \in 1..(m + 1) PROVE h[n] = g[n][h[n - 1]]
    <3> HIDE DEF h
    <3>1. CASE n = m + 1
      <4>1. n - 1 = m /\ m \in 0..m
        BY <3>1
      <4>2. h[n - 1] = k[m]
        BY <2>3, <4>1, Zenon
      <4> QED BY <2>3, <3>1, <4>2, Zenon
    <3>2. CASE n # m + 1
      <4>1. n \in 1..m /\ n \in 0..m /\ n - 1 \in 0..m
        BY <3>2
      <4>2. h[n - 1] = k[n - 1] /\ h[n] = k[n]
        BY <2>3, <4>1, Zenon
      <4> QED BY <2>1, <4>1, <4>2, Zenon
    <3> QED BY <3>1, <3>2, Zenon
  <2>5. Upto(h, m + 1)
    <3> HIDE DEF h
    <3> QED BY <2>1, <2>3, <2>4, Zenon
  <2>6. m + 1 \in Nat
    OBVIOUS
  <2> HIDE DEF Upto, h
  <2> QED BY <2>3, <2>5, <2>6, Zenon
<1>3. N \in P
  <2> HIDE DEF P
  <2> QED BY <1>1, <1>2, Induct, Zenon
<1> QED BY <1>3, Zenon DEF Rounds

-----------------------------------------------------------------------------
(* The list and its parts *)

\* The texts of a list; the ones the code itself has are named.
Words == STRING \cup Reserved \cup {"on", "in.pdf", "in.jpg", "out.pdf"}
Arg == [t : {"Lit", "File", "Out", "Profile", "None"}, v : Words]

\* The list l has q behind place d.
Has(l, d, q) == d + Len(q) <= Len(l) /\ \A j \in 1..Len(q) : l[d + j] = q[j]

\* Two parts follow one another.
LEMMA HasParts ==
  ASSUME NEW l \in Seq(Arg), NEW d \in Nat, NEW p \in Seq(Arg), NEW q \in Seq(Arg), Has(l, d, p \o q)
  PROVE  Has(l, d, p) /\ Has(l, d + Len(p), q) /\ Len(p \o q) = Len(p) + Len(q)
<1> DEFINE s == p \o q
           a == Len(p)
           b == Len(q)
<1>1. a \in Nat /\ b \in Nat /\ Len(s) = a + b /\ Len(l) \in Nat
  OBVIOUS
<1>2. (\A j \in 1..a : s[j] = p[j]) /\ \A j \in 1..b : s[a + j] = q[j]
  OBVIOUS
<1>3. d + Len(s) <= Len(l) /\ \A j \in 1..Len(s) : l[d + j] = s[j]
  BY Zenon DEF Has
<1> HIDE DEF s
<1>4. ASSUME NEW j \in 1..a PROVE l[d + j] = p[j]
  <2>1. j \in 1..Len(s)
    BY <1>1
  <2> QED BY <1>2, <1>3, <2>1, Zenon
<1>5. ASSUME NEW j \in 1..b PROVE l[(d + a) + j] = q[j]
  <2>1. a + j \in 1..Len(s) /\ d + (a + j) = (d + a) + j
    BY <1>1
  <2> QED BY <1>2, <1>3, <2>1, Zenon
<1>6. d + a <= Len(l) /\ (d + a) + b <= Len(l)
  BY <1>1, <1>3
<1> QED BY <1>1, <1>4, <1>5, <1>6, Zenon DEF Has, s

\* What Joined has joined after each of its pieces.
LEMMA Joins ==
  ASSUME NEW p \in Seq(Seq(Arg))
  PROVE  \E k \in [0..Len(p) -> Seq(Arg)] :
           /\ k[0] = <<>> /\ Joined(p) = k[Len(p)]
           /\ \A n \in 1..Len(p) : k[n] = k[n - 1] \o p[n]
<1> DEFINE N == Len(p)
           S == Seq(Arg)
           g == [n \in Nat |-> [s \in S |-> IF n \in 1..N THEN s \o p[n] ELSE s]]
           Flat(f) == f = [i \in 0..N |-> IF i = 0 THEN <<>> ELSE f[i - 1] \o p[i]]
<1>1. N \in Nat /\ \A n \in 1..N : p[n] \in S
  OBVIOUS
<1>2. <<>> \in S /\ \A s \in S, n \in 1..N : s \o p[n] \in S
  BY <1>1
<1>3. StepsIn(S, g)
  <2> HIDE DEF S, N
  <2> QED BY <1>2, Zenon DEF StepsIn
<1>4. PICK k \in [0..N -> S] : k[0] = <<>> /\ \A n \in 1..N : k[n] = g[n][k[n - 1]]
  <2> DEFINE a == <<>>
  <2>1. a \in S /\ N \in Nat /\ StepsIn(S, g)
    BY <1>1, <1>2, <1>3, Zenon
  <2> HIDE DEF S, N, g, a
  <2>2. \E x : Rounds(x, S, g, a, N)
    BY <2>1, Iterates, Zenon
  <2> QED BY <2>2, Zenon DEF a, Rounds
<1>5. ASSUME NEW n \in 1..N PROVE k[n] = k[n - 1] \o p[n]
  <2>1. n \in Nat /\ n - 1 \in 0..N
    BY <1>1
  <2> QED BY <1>4, <2>1, Zenon
<1> HIDE DEF g
<1>6. \A i \in 0..N : i # 0 => i \in 1..N
  BY <1>1
<1>7. Flat(k)
  <2>1. ASSUME NEW i \in 0..N PROVE k[i] = IF i = 0 THEN <<>> ELSE k[i - 1] \o p[i]
    BY <1>4, <1>5, <1>6, Zenon
  <2> HIDE DEF N, S
  <2> QED BY <1>4, <2>1, Zenon
<1> DEFINE c == CHOOSE x : Flat(x)
<1>8. Flat(c)
  <2> HIDE DEF Flat
  <2> QED BY <1>7, Zenon
<1>9. Joined(p) = c[N]
  BY Zenon DEF Joined
<1> HIDE DEF c
<1>10. \A i \in 0..N : c[i] = IF i = 0 THEN <<>> ELSE c[i - 1] \o p[i]
  BY <1>8, Zenon
<1> DEFINE Q == {n \in Nat : n <= N => c[n] = k[n]}
<1> HIDE DEF N, Flat
<1>11. 0 \in Q
  <2>1. 0 \in 0..N
    BY <1>1
  <2> QED BY <1>4, <1>10, <2>1, Zenon
<1>12. ASSUME NEW n \in Nat, n \in Q PROVE n + 1 \in Q
  <2> SUFFICES ASSUME n + 1 <= N PROVE c[n + 1] = k[n + 1]
    OBVIOUS
  <2> DEFINE m == n + 1
  <2>1. m \in 0..N /\ m \in 1..N /\ m # 0 /\ m - 1 = n /\ n <= N
    BY <1>1
  <2>2. c[m - 1] = k[m - 1]
    BY <1>12, <2>1, Zenon
  <2> HIDE DEF m
  <2>3. c[m] = k[m]
    BY <1>5, <1>10, <2>1, <2>2, Zenon
  <2> QED BY <2>3, Zenon DEF m
<1>13. c[N] = k[N]
  <2>1. N \in Nat /\ N <= N
    BY <1>1
  <2>2. N \in Q
    <3> HIDE DEF Q
    <3> QED BY <1>11, <1>12, <2>1, Induct, Zenon
  <2> QED BY <2>1, <2>2, Zenon
<1> QED BY <1>4, <1>5, <1>9, <1>13, Zenon DEF N

\* The list l has the pieces of p one after the other, the n-th behind place
\* e[n - 1].
Marks(e, l, d, p) ==
  /\ e \in [0..Len(p) -> Nat] /\ e[0] = d /\ e[Len(p)] = d + Len(Joined(p))
  /\ \A n \in 1..Len(p) : Has(l, e[n - 1], p[n]) /\ e[n] = e[n - 1] + Len(p[n])

\* A list that has the joined pieces has each of them.
LEMMA HasPieces ==
  ASSUME NEW l \in Seq(Arg), NEW d \in Nat, NEW p \in Seq(Seq(Arg)), Has(l, d, Joined(p))
  PROVE  Joined(p) \in Seq(Arg) /\ \E e : Marks(e, l, d, p)
<1> DEFINE N == Len(p)
<1>1. PICK k \in [0..N -> Seq(Arg)] :
        k[0] = <<>> /\ Joined(p) = k[N] /\ \A n \in 1..N : k[n] = k[n - 1] \o p[n]
  BY Joins, Zenon
<1>2. N \in Nat /\ \A n \in 1..N : p[n] \in Seq(Arg) /\ n - 1 \in 0..N /\ n \in 0..N
  OBVIOUS
<1> DEFINE e == [n \in 0..N |-> d + Len(k[n])]
           Q == {m \in Nat : m <= N => Has(l, d, k[N - m])}
<1>3. e \in [0..N -> Nat] /\ \A n \in 0..N : e[n] = d + Len(k[n])
  <2>1. \A n \in 0..N : k[n] \in Seq(Arg)
    BY Zenon
  <2>2. \A n \in 0..N : d + Len(k[n]) \in Nat
    BY <2>1
  <2> QED BY <2>2, Zenon
<1> HIDE DEF N, e
<1>4. 0 \in Q
  <2>1. N - 0 = N
    BY <1>2
  <2> QED BY <1>1, <2>1, Zenon
<1>5. ASSUME NEW m \in Nat, m \in Q PROVE m + 1 \in Q
  <2> SUFFICES ASSUME m + 1 <= N PROVE Has(l, d, k[N - (m + 1)])
    OBVIOUS
  <2> DEFINE n == N - m
  <2>1. n \in 1..N /\ N - (m + 1) = n - 1 /\ m <= N
    BY <1>2
  <2>2. Has(l, d, k[n])
    BY <1>5, <2>1, Zenon
  <2> HIDE DEF n
  <2>3. k[n] = k[n - 1] \o p[n] /\ k[n - 1] \in Seq(Arg) /\ p[n] \in Seq(Arg)
    BY <1>1, <1>2, <2>1, Zenon
  <2>4. Has(l, d, k[n - 1] \o p[n])
    BY <2>2, <2>3, Zenon
  <2>5. Has(l, d, k[n - 1])
    BY <2>3, <2>4, HasParts, Zenon
  <2> QED BY <2>1, <2>5, Zenon
<1>6. ASSUME NEW n \in 0..N PROVE Has(l, d, k[n])
  <2>1. N - n \in Nat /\ N - n <= N /\ N - (N - n) = n
    BY <1>2
  <2>2. N - n \in Q
    <3> HIDE DEF Q
    <3> QED BY <1>4, <1>5, <2>1, Induct, Zenon
  <2> QED BY <2>1, <2>2, Zenon
<1>7. ASSUME NEW n \in 1..N PROVE Has(l, e[n - 1], p[n]) /\ e[n] = e[n - 1] + Len(p[n])
  <2> DEFINE u == k[n - 1]
             w == p[n]
  <2>1. k[n] = u \o w /\ u \in Seq(Arg) /\ w \in Seq(Arg) /\ Has(l, d, k[n])
    BY <1>1, <1>2, <1>6, Zenon
  <2>2. e[n] = d + Len(k[n]) /\ e[n - 1] = d + Len(u)
    BY <1>2, <1>3, Zenon
  <2> HIDE DEF u, w
  <2>3. Has(l, d, u \o w)
    BY <2>1, Zenon
  <2>4. Has(l, d + Len(u), w)
    BY <2>1, <2>3, HasParts, Zenon
  <2>5. Len(u) \in Nat /\ Len(w) \in Nat /\ Len(u \o w) = Len(u) + Len(w)
    BY <2>1
  <2>6. d + (Len(u) + Len(w)) = (d + Len(u)) + Len(w)
    BY <2>5
  <2> QED BY <2>1, <2>2, <2>4, <2>5, <2>6, Zenon DEF w
<1>8. 0 \in 0..N /\ N \in 0..N /\ Len(<<>>) = 0 /\ d + 0 = d
  BY <1>2
<1>9. e[0] = d /\ e[N] = d + Len(Joined(p)) /\ Joined(p) \in Seq(Arg)
  BY <1>1, <1>3, <1>8, Zenon
<1>10. Marks(e, l, d, p)
  BY <1>3, <1>7, <1>9, Zenon DEF Marks, N
<1> QED BY <1>9, <1>10, Zenon

Follows(c, S, g, a, N) == c[0] = a /\ \A n \in 1..N : c[n - 1] \in S => c[n] = g[n][c[n - 1]]

Agree(c, k, N) == \A n \in 0..N : c[n] = k[n]

\* Two runs of a loop that start alike are alike.
LEMMA SameRounds ==
  ASSUME NEW S, NEW g, NEW a, NEW N \in Nat, NEW k, Rounds(k, S, g, a, N), NEW c, Follows(c, S, g, a, N)
  PROVE  Agree(c, k, N)
<1> DEFINE Q == {n \in Nat : n <= N => c[n] = k[n]}
<1>1. k \in [0..N -> S] /\ k[0] = a /\ \A n \in 1..N : k[n] = g[n][k[n - 1]]
  BY Zenon DEF Rounds
<1> USE DEF Follows
<1>2. 0 \in Q
  BY <1>1, Zenon
<1>3. ASSUME NEW n \in Nat, n \in Q PROVE n + 1 \in Q
  <2> SUFFICES ASSUME n + 1 <= N PROVE c[n + 1] = k[n + 1]
    OBVIOUS
  <2> DEFINE m == n + 1
  <2>1. m \in 1..N /\ m - 1 = n /\ n <= N /\ n \in 0..N
    OBVIOUS
  <2>2. c[m - 1] = k[m - 1] /\ k[m - 1] \in S
    BY <1>1, <1>3, <2>1, Zenon
  <2> HIDE DEF m
  <2>3. c[m] = k[m]
    BY <1>1, <2>1, <2>2, Zenon
  <2> QED BY <2>3, Zenon DEF m
<1>4. Nat \subseteq Q
  <2> HIDE DEF Q
  <2> QED BY <1>2, <1>3, Induct, Zenon
<1>5. \A n \in 0..N : n \in Nat /\ n <= N
  OBVIOUS
<1> QED BY <1>4, <1>5, Zenon DEF Agree

-----------------------------------------------------------------------------
(* main's loop *)

Flags == Switches \cup Valued
Clis == [opts : [Flags -> Arg], pos : Seq(Arg), exit : Int]
LoopStates == [i : Nat \ {0}, c : Clis]

\* The flags are texts, and none of them is "version" or empty.
LEMMA FlagsAre ==
  /\ Flags \subseteq Words /\ "version" \notin Flags /\ "" \notin Flags
  /\ Switches \cap Valued = {} /\ Paths \subseteq Valued
<1>1. Range(BoolFlags) \subseteq STRING /\ Range(TextFlags) \subseteq STRING /\ Range(FileFields) \subseteq STRING
  <2>1. ASSUME NEW s \in Seq(STRING) PROVE Range(s) \subseteq STRING
    BY <2>1 DEF Range
  <2> QED BY <2>1, TablesAssumption, Zenon
<1> DEFINE B == Range(BoolFlags)
           T == Range(TextFlags)
           F == Range(FileFields)
<1>2. /\ B \cap (T \cup F \cup Reserved) = {} /\ T \cap (F \cup Reserved) = {} /\ F \cap Reserved = {}
      /\ B \subseteq STRING /\ T \subseteq STRING /\ F \subseteq STRING
  BY <1>1, TablesAssumption, Zenon
<1>3. Switches = B \cup {"check", "verify-password", "batch"} /\ Paths = F \cup {"profile"}
      /\ Valued = T \cup (F \cup {"profile"}) \cup {"level", "password"} /\ Flags = Switches \cup Valued
  BY Zenon DEF Switches, Valued, Paths, Flags
<1> HIDE DEF B, T, F
<1> QED BY <1>2, <1>3, Zenon DEF Reserved, Words

\* What main has made of nothing.
LEMMA NoCliIs == NoCli \in Clis
<1>1. NoValue \in Arg /\ Running \in Int
  BY DEF NoValue, Arg, Words, Reserved, Running
<1> QED BY <1>1 DEF NoCli, Clis, Flags

\* The status the loop leaves main with.
LEMMA LeavesIs ==
  ASSUME NEW flag, NEW a, NEW files, NEW lib
  PROVE  Leaves(flag, a, files, lib) \in {1, 64, Running}
BY DEF Leaves

\* A place and what main has made of the list up to it are a state of the loop.
LEMMA StateIs == ASSUME NEW j \in Nat \ {0}, NEW c \in Clis PROVE [i |-> j, c |-> c] \in LoopStates
BY Zenon DEF LoopStates

\* What a round writes into it.
LEMMA Writes ==
  ASSUME NEW j \in Nat \ {0}, NEW c \in Clis
  PROVE  /\ \A x \in Int : /\ [c EXCEPT !.exit = x] \in Clis
                         /\ [[i |-> j, c |-> c] EXCEPT !.c.exit = x] = [i |-> j, c |-> [c EXCEPT !.exit = x]]
         /\ \A flag \in Flags, a \in Arg : [c EXCEPT !.opts[flag] = a] \in Clis
         /\ \A a \in Arg : [c EXCEPT !.pos = Append(@, a)] \in Clis
<1>2. ASSUME NEW x \in Int PROVE [c EXCEPT !.exit = x] \in Clis
  BY Zenon DEF Clis
<1>3. ASSUME NEW x \in Int
      PROVE  [[i |-> j, c |-> c] EXCEPT !.c.exit = x] = [i |-> j, c |-> [c EXCEPT !.exit = x]]
  OBVIOUS
<1>4. ASSUME NEW flag \in Flags, NEW a \in Arg PROVE [c EXCEPT !.opts[flag] = a] \in Clis
  BY Zenon DEF Clis
<1>5. ASSUME NEW a \in Arg PROVE [c EXCEPT !.pos = Append(@, a)] \in Clis
  <2>1. c.pos \in Seq(Arg)
    BY Zenon DEF Clis
  <2>2. Append(c.pos, a) \in Seq(Arg)
    BY <2>1
  <2> QED BY <2>2, Zenon DEF Clis
<1> QED BY <1>2, <1>3, <1>4, <1>5, Zenon

\* An entry of the list.
LEMMA EntryIs == ASSUME NEW l \in Seq(Arg), NEW j \in 1..Len(l) PROVE l[j] \in Arg
OBVIOUS

\* A round keeps the form of the state.
LEMMA RoundTyped ==
  ASSUME NEW l \in Seq(Arg), NEW s \in LoopStates, NEW files, NEW lib
  PROVE  LoopRound(l, s, files, lib) \in LoopStates
<1> DEFINE flag == IF l[s.i].t = "Lit" THEN l[s.i].v ELSE ""
           r == LoopRound(l, s, files, lib)
           x == Leaves(flag, l[s.i + 1], files, lib)
           i == s.i
           c == s.c
<1>1. i \in Nat \ {0} /\ c \in Clis /\ s = [i |-> i, c |-> c]
  BY Zenon DEF LoopStates
<1>2. i + 1 \in Nat \ {0} /\ i + 2 \in Nat \ {0} /\ Len(l) \in Nat
  BY <1>1
<1>3. CASE i > Len(l) \/ c.exit # Running
  <2>1. r = s
    BY <1>3, Zenon DEF LoopRound
  <2> QED BY <2>1, Zenon
<1>4. CASE ~(i > Len(l) \/ c.exit # Running)
  <2>1. l[i] \in Arg
    <3>1. i \in 1..Len(l)
      BY <1>1, <1>2, <1>4
    <3> QED BY <3>1, EntryIs, Zenon
  <2>2. CASE flag = "version"
    <3>1. r = [s EXCEPT !.c.exit = 0]
      BY <1>4, <2>2, Zenon DEF LoopRound
    <3>2. r = [i |-> i, c |-> [c EXCEPT !.exit = 0]] /\ [c EXCEPT !.exit = 0] \in Clis
      <4>1. 0 \in Int
        OBVIOUS
      <4> HIDE DEF r, i, c
      <4> QED BY <1>1, <3>1, <4>1, Writes, Zenon
    <3> HIDE DEF r, i
    <3> QED BY <1>1, <3>2, StateIs, Zenon DEF r
  <2>3. CASE flag # "version" /\ flag \in Switches
    <3>1. r = [i |-> i + 1, c |-> [c EXCEPT !.opts[flag] = Lit("on")]]
      BY <1>4, <2>3, Zenon DEF LoopRound
    <3>2. Lit("on") \in Arg
      BY Zenon DEF Lit, Arg, Words
    <3> HIDE DEF flag, r, c, i
    <3>3. [c EXCEPT !.opts[flag] = Lit("on")] \in Clis
      BY <1>1, <2>3, <3>2, Writes, Zenon DEF Flags
    <3> QED BY <1>2, <3>1, <3>3, StateIs, Zenon DEF r
  <2>4. CASE flag # "version" /\ flag \notin Switches /\ flag \in Valued /\ i < Len(l)
    <3>1. CASE x # Running
      <4>1. r = [s EXCEPT !.c.exit = x]
        BY <1>4, <2>4, <3>1, Zenon DEF LoopRound
      <4>2. x \in {1, 64, Running}
        BY LeavesIs, Zenon
      <4> HIDE DEF x, r, i, c
      <4>3. x \in Int
        BY <4>2 DEF Running
      <4>4. r = [i |-> i, c |-> [c EXCEPT !.exit = x]] /\ [c EXCEPT !.exit = x] \in Clis
        BY <1>1, <4>1, <4>3, Writes, Zenon
      <4> QED BY <1>1, <4>4, StateIs, Zenon DEF r
    <3>2. CASE x = Running
      <4> DEFINE a == l[i + 1]
      <4>1. r = [i |-> i + 2, c |-> [c EXCEPT !.opts[flag] = a]]
        BY <1>4, <2>4, <3>2, Zenon DEF LoopRound
      <4>2. i + 1 \in 1..Len(l)
        <5>1. i \in Nat \ {0} /\ i < Len(l) /\ Len(l) \in Nat
          BY <1>1, <1>2, <2>4, Zenon
        <5> HIDE DEF i
        <5> QED BY <5>1
      <4>3. a \in Arg
        BY <4>2, EntryIs, Zenon
      <4> HIDE DEF flag, r, a, c, i
      <4>4. [c EXCEPT !.opts[flag] = a] \in Clis
        BY <1>1, <2>4, <4>3, Writes, Zenon DEF Flags
      <4> QED BY <1>2, <4>1, <4>4, StateIs, Zenon DEF r
    <3> QED BY <3>1, <3>2, Zenon
  <2>5. CASE flag # "version" /\ flag \notin Switches /\ ~(flag \in Valued /\ i < Len(l))
    <3>1. r = [i |-> i + 1, c |-> [c EXCEPT !.pos = Append(@, l[i])]]
      BY <1>4, <2>5, Zenon DEF LoopRound
    <3> HIDE DEF r, c, i
    <3>2. [c EXCEPT !.pos = Append(@, l[i])] \in Clis
      BY <1>1, <2>1, Writes, Zenon
    <3> QED BY <1>2, <3>1, <3>2, StateIs, Zenon DEF r
  <2> QED BY <2>2, <2>3, <2>4, <2>5, Zenon
<1> QED BY <1>3, <1>4, Zenon

\* The states of the loop, one after each of its rounds.
LoopRounds(k, l, files, lib) ==
  /\ k \in [0..Len(l) -> LoopStates] /\ k[0] = [i |-> 1, c |-> NoCli] /\ Loop(l, files, lib) = k[Len(l)].c
  /\ \A n \in 1..Len(l) : k[n] = LoopRound(l, k[n - 1], files, lib)

\* The loop goes through its rounds.
LEMMA LoopIs ==
  ASSUME NEW l \in Seq(Arg), NEW files, NEW lib
  PROVE  \E k : LoopRounds(k, l, files, lib)
<1> DEFINE N == Len(l)
           S == LoopStates
           a == [i |-> 1, c |-> NoCli]
           g == [n \in Nat |-> [s \in S |-> LoopRound(l, s, files, lib)]]
           Rec(f) == f = [n \in 0..N |-> IF n = 0 THEN a ELSE LoopRound(l, f[n - 1], files, lib)]
<1>1. N \in Nat /\ 0 \in 0..N /\ N \in 0..N /\ \A n \in 1..N : n \in Nat /\ n \in 0..N /\ n - 1 \in 0..N /\ n # 0
  OBVIOUS
<1>2. a \in S
  <2>1. 1 \in Nat \ {0}
    OBVIOUS
  <2> QED BY <2>1, NoCliIs, StateIs, Zenon
<1>3. StepsIn(S, g)
  <2> HIDE DEF S
  <2>1. \A s \in S : LoopRound(l, s, files, lib) \in S
    BY RoundTyped, Zenon DEF S
  <2> QED BY <2>1, Zenon DEF StepsIn
<1>4. \A n \in 1..N, s \in S : g[n][s] = LoopRound(l, s, files, lib)
  BY <1>1, Zenon
<1> HIDE DEF N, S, a, g
<1>5. PICK k : Rounds(k, S, g, a, N)
  BY <1>1, <1>2, <1>3, Iterates, Zenon
<1>6. k \in [0..N -> S] /\ k[0] = a /\ \A n \in 1..N : k[n] = LoopRound(l, k[n - 1], files, lib)
  BY <1>1, <1>4, <1>5, Zenon DEF Rounds
<1>7. Rec(k)
  <2>1. \A n \in 0..N : k[n] = IF n = 0 THEN a ELSE LoopRound(l, k[n - 1], files, lib)
    <3>1. \A n \in 0..N : n = 0 \/ n \in 1..N
      BY <1>1
    <3> QED BY <1>6, <3>1, Zenon
  <2> QED BY <1>6, <2>1, Zenon
<1> DEFINE c == CHOOSE f : Rec(f)
<1>8. Rec(c)
  <2> HIDE DEF Rec
  <2> QED BY <1>7, Zenon
<1>9. Loop(l, files, lib) = c[N].c
  BY Zenon DEF Loop, N, a
<1> HIDE DEF c
<1>10. Follows(c, S, g, a, N)
  <2>1. \A n \in 0..N : c[n] = IF n = 0 THEN a ELSE LoopRound(l, c[n - 1], files, lib)
    BY <1>8, Zenon
  <2> QED BY <1>1, <1>4, <2>1, Zenon DEF Follows
<1>11. \A n \in 0..N : c[n] = k[n]
  <2>1. N \in Nat
    BY <1>1, Zenon
  <2>2. Agree(c, k, N)
    BY <2>1, <1>5, <1>10, SameRounds, Zenon
  <2> QED BY <2>2, Zenon DEF Agree
<1>12. Loop(l, files, lib) = k[N].c
  BY <1>1, <1>9, <1>11, Zenon
<1> QED BY <1>6, <1>12, Zenon DEF LoopRounds, N, S, a

\* The loop comes to place j with c made of the list so far.
Reach(l, files, lib, j, c) ==
  \E k, n : /\ LoopRounds(k, l, files, lib) /\ n \in 0..Len(l) /\ n < j
            /\ k[n] = [i |-> j, c |-> c]

\* It begins with nothing.
LEMMA ReachStart ==
  ASSUME NEW l \in Seq(Arg), NEW files, NEW lib
  PROVE  Reach(l, files, lib, 1, NoCli)
<1>1. PICK k : LoopRounds(k, l, files, lib)
  BY LoopIs, Zenon
<1>2. 0 \in 0..Len(l) /\ 0 < 1
  OBVIOUS
<1>3. k[0] = [i |-> 1, c |-> NoCli]
  BY <1>1, Zenon DEF LoopRounds
<1> QED BY <1>1, <1>2, <1>3, Zenon DEF Reach

\* A round takes it further.
LEMMA ReachNext ==
  ASSUME NEW l \in Seq(Arg), NEW files, NEW lib, NEW j \in Nat, NEW c, Reach(l, files, lib, j, c), j <= Len(l),
         NEW m \in Nat, m > j, NEW d, LoopRound(l, [i |-> j, c |-> c], files, lib) = [i |-> m, c |-> d]
  PROVE  Reach(l, files, lib, m, d)
<1>1. PICK k, n : LoopRounds(k, l, files, lib) /\ n \in 0..Len(l) /\ n < j /\ k[n] = [i |-> j, c |-> c]
  BY Zenon DEF Reach
<1> DEFINE x == n + 1
<1>2. x \in 1..Len(l) /\ x \in 0..Len(l) /\ x < m /\ x - 1 = n
  BY <1>1
<1> HIDE DEF x
<1>3. k[x] = LoopRound(l, k[x - 1], files, lib)
  BY <1>1, <1>2, Zenon DEF LoopRounds
<1>4. k[x] = [i |-> m, c |-> d]
  BY <1>1, <1>2, <1>3, Zenon
<1> QED BY <1>1, <1>2, <1>4, Zenon DEF Reach

Stays(k, n, l, files, lib) ==
  LoopRounds(k, l, files, lib) /\ n \in 0..Len(l) /\ LoopRound(l, k[n], files, lib) = k[n]

EndsIn(l, files, lib, s) == Loop(l, files, lib) = s.c

\* Where a round changes nothing the loop stays.
LEMMA LoopStays ==
  ASSUME NEW l \in Seq(Arg), NEW files, NEW lib, NEW k, NEW n, Stays(k, n, l, files, lib)
  PROVE  EndsIn(l, files, lib, k[n])
<1> USE DEF Stays
<1> DEFINE N == Len(l)
           Q == {m \in Nat : n + m <= N => k[n + m] = k[n]}
<1>1. N \in Nat /\ n \in Nat /\ n + 0 = n /\ N - n \in Nat /\ n + (N - n) = N /\ N <= N
  OBVIOUS
<1>2. 0 \in Q
  BY <1>1, Zenon
<1>3. ASSUME NEW m \in Nat, m \in Q PROVE m + 1 \in Q
  <2> SUFFICES ASSUME n + (m + 1) <= N PROVE k[n + (m + 1)] = k[n]
    OBVIOUS
  <2> DEFINE x == n + (m + 1)
  <2>1. x \in 1..N /\ x - 1 = n + m /\ n + m <= N
    BY <1>1
  <2>2. k[n + m] = k[n]
    BY <1>3, <2>1, Zenon
  <2> HIDE DEF x
  <2>3. k[x] = k[n]
    BY <2>1, <2>2, Zenon DEF LoopRounds
  <2> QED BY <2>3, Zenon DEF x
<1>4. N - n \in Q
  <2> HIDE DEF Q
  <2> QED BY <1>1, <1>2, <1>3, Induct, Zenon
<1>5. k[N] = k[n]
  BY <1>1, <1>4, Zenon
<1> QED BY <1>5, Zenon DEF LoopRounds, EndsIn

Makes(l, files, lib, c) == Loop(l, files, lib) = c

\* Behind the list the loop is over.
LEMMA ReachEnd ==
  ASSUME NEW l \in Seq(Arg), NEW files, NEW lib, NEW j \in Nat, NEW c, Reach(l, files, lib, j, c), j > Len(l)
  PROVE  Makes(l, files, lib, c)
<1>1. PICK k, n : LoopRounds(k, l, files, lib) /\ n \in 0..Len(l) /\ n < j /\ k[n] = [i |-> j, c |-> c]
  BY Zenon DEF Reach
<1>2. k[n].i = j /\ k[n].c = c
  BY <1>1
<1>3. LoopRound(l, k[n], files, lib) = k[n]
  BY <1>2, Zenon DEF LoopRound
<1>4. Stays(k, n, l, files, lib)
  BY <1>1, <1>3, Zenon DEF Stays
<1>5. EndsIn(l, files, lib, k[n])
  BY <1>4, LoopStays, Zenon
<1> QED BY <1>2, <1>5, Zenon DEF EndsIn, Makes

\* A round that leaves main ends the loop.
LEMMA ReachLeft ==
  ASSUME NEW l \in Seq(Arg), NEW files, NEW lib, NEW j \in Nat, NEW c, Reach(l, files, lib, j, c), j <= Len(l),
         NEW d, d.exit # Running, LoopRound(l, [i |-> j, c |-> c], files, lib) = [i |-> j, c |-> d]
  PROVE  Makes(l, files, lib, d)
<1>1. PICK k, n : LoopRounds(k, l, files, lib) /\ n \in 0..Len(l) /\ n < j /\ k[n] = [i |-> j, c |-> c]
  BY Zenon DEF Reach
<1> DEFINE x == n + 1
<1>2. x \in 1..Len(l) /\ x \in 0..Len(l) /\ x - 1 = n
  BY <1>1
<1> HIDE DEF x
<1>3. k[x] = [i |-> j, c |-> d]
  <2>1. k[x] = LoopRound(l, k[x - 1], files, lib)
    BY <1>1, <1>2, Zenon DEF LoopRounds
  <2> QED BY <1>1, <1>2, <2>1, Zenon
<1>4. k[x].c = d
  BY <1>3
<1>5. LoopRound(l, k[x], files, lib) = k[x]
  BY <1>4, Zenon DEF LoopRound
<1>6. Stays(k, x, l, files, lib)
  BY <1>1, <1>2, <1>5, Zenon DEF Stays
<1>7. EndsIn(l, files, lib, k[x])
  BY <1>6, LoopStays, Zenon
<1> QED BY <1>4, <1>7, Zenon DEF EndsIn, Makes

-----------------------------------------------------------------------------
(* What the loop reads from the list of a request *)

\* The list l has q from behind place d to place e.
Spans(l, d, e, q) == d \in Nat /\ e = d + Len(q) /\ Has(l, d, q)
Parted(l, d, e, p, q) == \E m : Spans(l, d, m, p) /\ Spans(l, m, e, q)

\* Two parts follow one another.
LEMMA AtParts ==
  ASSUME NEW l \in Seq(Arg), NEW d, NEW e, NEW p \in Seq(Arg), NEW q \in Seq(Arg), Spans(l, d, e, p \o q)
  PROVE  Parted(l, d, e, p, q)
<1> DEFINE s == p \o q
           m == d + Len(p)
<1>1. d \in Nat /\ e = d + Len(s) /\ Has(l, d, p \o q)
  BY Zenon DEF Spans
<1>2. Has(l, d, p) /\ Has(l, m, q) /\ Len(s) = Len(p) + Len(q)
  <2>1. Has(l, d, p)
    BY <1>1, HasParts, Zenon
  <2>2. Has(l, d + Len(p), q)
    BY <1>1, HasParts, Zenon
  <2>3. Len(s) = Len(p) + Len(q)
    OBVIOUS
  <2> QED BY <2>1, <2>2, <2>3, Zenon
<1>3. Len(p) \in Nat /\ Len(q) \in Nat
  OBVIOUS
<1> HIDE DEF s
<1>4. m \in Nat /\ e = m + Len(q)
  BY <1>1, <1>2, <1>3
<1>5. Spans(l, d, m, p)
  BY <1>1, <1>2, Zenon DEF Spans
<1> HIDE DEF m
<1>6. Spans(l, m, e, q)
  BY <1>2, <1>4, Zenon DEF Spans
<1> QED BY <1>5, <1>6, Zenon DEF Parted

\* The part of the list that asks for flag f, and what is asked for by the
\* flags of F.
Piece(r, f) ==
  IF Wanted(r)[f] = NoValue THEN <<>> ELSE IF f \in Switches THEN <<Lit(f)>> ELSE <<Lit(f), Wanted(r)[f]>>
Part(r, F) == [f \in Flags |-> IF f \in F THEN Wanted(r)[f] ELSE NoValue]
PartCli(r, F) == [opts |-> Part(r, F), pos |-> <<>>, exit |-> Running]

\* A value of the request that makes the loop leave main.
Stops(r, files, lib) ==
  \E f \in Valued : Wanted(r)[f] # NoValue /\ Leaves(f, Wanted(r)[f], files, lib) # Running
Gone(l, files, lib, r) == Loop(l, files, lib).exit \in {1, 64} /\ Stops(r, files, lib)

\* The loop has read the list up to place d, and the flags of F in it.
ReadTo(l, files, lib, r, d, F) ==
  Gone(l, files, lib, r) \/ (d \in Nat /\ Reach(l, files, lib, d + 1, PartCli(r, F)))

Plain(r) ==
  /\ Wanted(r) \in [Flags -> Arg]
  /\ \A f \in Switches : Wanted(r)[f] \in {NoValue, Lit("on")}

\* What is asked for after one more flag.
LEMMA PartMore ==
  ASSUME NEW r, Plain(r), NEW F, NEW f \in Flags
  PROVE  PartCli(r, F \cup {f}) = [PartCli(r, F) EXCEPT !.opts[f] = Wanted(r)[f]]
<1> DEFINE G == F \cup {f}
           a == Part(r, F)
           b == Part(r, G)
           v == Wanted(r)[f]
<1>1. b = [a EXCEPT ![f] = v]
  BY Zenon DEF Part
<1> HIDE DEF a, b, v, G
<1>2. [opts |-> b, pos |-> <<>>, exit |-> Running] = [[opts |-> a, pos |-> <<>>, exit |-> Running] EXCEPT !.opts[f] = v]
  BY <1>1
<1> QED BY <1>2, Zenon DEF PartCli, G, a, b, v

\* A flag that is not asked for makes no difference.
LEMMA PartSame ==
  ASSUME NEW r, NEW F, NEW f, Wanted(r)[f] = NoValue
  PROVE  PartCli(r, F \cup {f}) = PartCli(r, F)
BY Zenon DEF PartCli, Part

\* What is asked for is something the loop can have read.
LEMMA PartIs ==
  ASSUME NEW r, Plain(r), NEW F
  PROVE  PartCli(r, F) \in Clis
<1>1. Part(r, F) \in [Flags -> Arg]
  <2>1. NoValue \in Arg
    BY Zenon DEF NoValue, Arg, Words, Reserved
  <2> QED BY <2>1, Zenon DEF Part, Plain
<1>2. <<>> \in Seq(Arg) /\ Running \in Int
  BY DEF Running
<1> QED BY <1>1, <1>2, Zenon DEF PartCli, Clis

\* The loop reads a part of the list that asks for one flag.
LEMMA ReadPiece ==
  ASSUME NEW l \in Seq(Arg), NEW files, NEW lib, NEW r, Plain(r), NEW d, NEW e, NEW F, NEW f \in Flags,
         ReadTo(l, files, lib, r, d, F), Spans(l, d, e, Piece(r, f))
  PROVE  ReadTo(l, files, lib, r, e, F \cup {f})
<1> SUFFICES ASSUME ~Gone(l, files, lib, r) PROVE ReadTo(l, files, lib, r, e, F \cup {f})
  BY Zenon DEF ReadTo
<1> DEFINE v == Wanted(r)[f]
           c == PartCli(r, F)
           j == d + 1
           q == Piece(r, f)
           b == PartCli(r, F \cup {f})
<1>1. d \in Nat /\ Reach(l, files, lib, j, c) /\ e = d + Len(q) /\ d + Len(q) <= Len(l)
      /\ \A i \in 1..Len(q) : l[d + i] = q[i]
  BY Zenon DEF ReadTo, Spans, Has
<1>2. v \in Arg /\ c \in Clis /\ c.exit = Running
  <2>1. v \in Arg
    BY Zenon DEF Plain
  <2>2. c \in Clis
    BY PartIs, Zenon
  <2>3. c.exit = Running
    BY Zenon DEF PartCli
  <2> QED BY <2>1, <2>2, <2>3, Zenon
<1>3. f # "version" /\ f # "" /\ (f \in Switches \/ (f \in Valued /\ f \notin Switches))
  BY FlagsAre, Zenon DEF Flags
<1>4. CASE v = NoValue
  <2>1. q = <<>> /\ b = c
    BY <1>4, PartSame, Zenon DEF Piece
  <2>2. Len(q) = 0 /\ e = d
    BY <1>1, <2>1
  <2> HIDE DEF b, c, j
  <2>3. Reach(l, files, lib, j, b)
    BY <1>1, <2>1, Zenon
  <2> QED BY <1>1, <2>2, <2>3, Zenon DEF ReadTo, b, j
<1>5. CASE v # NoValue /\ f \in Switches
  <2>1. q = <<Lit(f)>> /\ v = Lit("on")
    BY <1>5, Zenon DEF Piece, Plain
  <2> HIDE DEF q, v, c, b
  <2>2. Len(q) = 1 /\ q[1] = Lit(f) /\ 1 \in 1..Len(q)
    BY <2>1
  <2>3. l[j] = Lit(f)
    BY <1>1, <2>2, Zenon
  <2>4. j \in Nat /\ j <= Len(l) /\ ~(j > Len(l)) /\ e = j /\ j + 1 \in Nat /\ j + 1 > j /\ j \in Nat
    BY <1>1, <2>2
  <2> DEFINE s == [i |-> j, c |-> c]
  <2>5. s.i = j /\ s.c = c /\ Lit(f).t = "Lit" /\ Lit(f).v = f
    BY Zenon DEF Lit
  <2> HIDE DEF s, j
  <2>6. LoopRound(l, s, files, lib) = [i |-> j + 1, c |-> [c EXCEPT !.opts[f] = Lit("on")]]
    BY <1>2, <1>3, <1>5, <2>3, <2>4, <2>5, Zenon DEF LoopRound
  <2>7. b = [c EXCEPT !.opts[f] = v]
    BY PartMore, Zenon DEF b, c, v
  <2>8. LoopRound(l, [i |-> j, c |-> c], files, lib) = [i |-> j + 1, c |-> b]
    BY <2>1, <2>6, <2>7, Zenon DEF s
  <2>9. Reach(l, files, lib, j + 1, b)
    BY <1>1, <2>4, <2>8, ReachNext, Zenon
  <2> QED BY <2>4, <2>9, Zenon DEF ReadTo, b
<1>6. CASE v # NoValue /\ f \in Valued /\ f \notin Switches
  <2>1. q = <<Lit(f), v>>
    BY <1>6, Zenon DEF Piece
  <2> HIDE DEF q, v, c, b
  <2>2. Len(q) = 2 /\ q[1] = Lit(f) /\ q[2] = v /\ 1 \in 1..Len(q) /\ 2 \in 1..Len(q)
    BY <2>1
  <2>3. l[j] = Lit(f) /\ l[d + 2] = v
    BY <1>1, <2>2, Zenon
  <2>4. j \in Nat /\ j <= Len(l) /\ ~(j > Len(l)) /\ j < Len(l) /\ j + 1 = d + 2 /\ e \in Nat /\ e + 1 = j + 2
        /\ j + 2 \in Nat /\ j + 2 > j
    BY <1>1, <2>2
  <2> DEFINE s == [i |-> j, c |-> c]
             x == Leaves(f, v, files, lib)
  <2>5. s.i = j /\ s.c = c /\ Lit(f).t = "Lit" /\ Lit(f).v = f
    BY Zenon DEF Lit
  <2>6. l[j + 1] = v
    BY <2>3, <2>4, Zenon
  <2> HIDE DEF s, j, x
  <2>7. CASE x = Running
    <3>1. LoopRound(l, s, files, lib) = [i |-> j + 2, c |-> [c EXCEPT !.opts[f] = v]]
      BY <1>2, <1>3, <1>6, <2>3, <2>4, <2>5, <2>6, <2>7, Zenon DEF LoopRound, x
    <3>2. b = [c EXCEPT !.opts[f] = v]
      BY PartMore, Zenon DEF b, c, v
    <3>3. LoopRound(l, [i |-> j, c |-> c], files, lib) = [i |-> j + 2, c |-> b]
      BY <3>1, <3>2, Zenon DEF s
    <3>4. Reach(l, files, lib, j + 2, b)
      BY <1>1, <2>4, <3>3, ReachNext, Zenon
    <3> QED BY <2>4, <3>4, Zenon DEF ReadTo, b
  <2>8. CASE x # Running
    <3> DEFINE y == [c EXCEPT !.exit = x]
    <3>1. x \in {1, 64}
      BY <2>8, LeavesIs, Zenon DEF x
    <3>2. LoopRound(l, s, files, lib) = [s EXCEPT !.c.exit = x]
      BY <1>2, <1>3, <1>6, <2>3, <2>4, <2>5, <2>6, <2>8, Zenon DEF LoopRound, x
    <3>3. [[i |-> j, c |-> c] EXCEPT !.c.exit = x] = [i |-> j, c |-> y]
      <4>0. d \in Nat
        BY <1>1, Zenon
      <4>1. x \in Int /\ j \in Nat \ {0}
        <5> HIDE DEF x
        <5> QED BY <3>1, <4>0 DEF j
      <4> QED BY <1>2, <4>1, Writes, Zenon
    <3>4. y.exit = x
      BY <1>2, Zenon DEF Clis
    <3> HIDE DEF y
    <3>5. LoopRound(l, [i |-> j, c |-> c], files, lib) = [i |-> j, c |-> y]
      BY <3>2, <3>3, Zenon DEF s
    <3>6. y.exit # Running
      BY <2>8, <3>4, Zenon
    <3>7. Makes(l, files, lib, y)
      BY <1>1, <2>4, <3>5, <3>6, ReachLeft, Zenon
    <3>8. Stops(r, files, lib)
      BY <1>6, <2>8, Zenon DEF Stops, x, v
    <3> QED BY <3>1, <3>4, <3>7, <3>8, Zenon DEF Gone, Makes
  <2> QED BY <2>7, <2>8, Zenon
<1> QED BY <1>3, <1>4, <1>5, <1>6, Zenon

\* A part of the list is a list.
LEMMA PieceIs ==
  ASSUME NEW r, Plain(r), NEW f \in Flags
  PROVE  Piece(r, f) \in Seq(Arg)
<1> DEFINE v == Wanted(r)[f]
           a == Lit(f)
<1>1. v \in Arg /\ f \in Words
  BY FlagsAre, Zenon DEF Plain
<1>2. a \in Arg
  BY <1>1, Zenon DEF Lit, Arg
<1> HIDE DEF v, a
<1>3. <<>> \in Seq(Arg) /\ <<a>> \in Seq(Arg) /\ <<a, v>> \in Seq(Arg)
  BY <1>1, <1>2
<1> QED BY <1>3, Zenon DEF Piece, a, v

Pieces(r, T) == [n \in DOMAIN T |-> Piece(r, T[n])]

\* The parts that a table asks for.
LEMMA PiecesAre ==
  ASSUME NEW r, Plain(r), NEW T \in Seq(Flags)
  PROVE  /\ Pieces(r, T) \in Seq(Seq(Arg)) /\ Len(Pieces(r, T)) = Len(T)
         /\ \A n \in 1..Len(T) : Pieces(r, T)[n] = Piece(r, T[n]) /\ T[n] \in Flags
<1> DEFINE p == Pieces(r, T)
           N == Len(T)
           S == Seq(Arg)
<1>1. N \in Nat /\ DOMAIN T = 1..N /\ \A n \in 1..N : T[n] \in Flags
  OBVIOUS
<1>2. \A n \in 1..N : Piece(r, T[n]) \in S
  BY <1>1, PieceIs, Zenon
<1>3. p = [n \in 1..N |-> Piece(r, T[n])]
  BY <1>1, Zenon DEF Pieces
<1>4. p \in [1..N -> S] /\ \A n \in 1..N : p[n] = Piece(r, T[n])
  BY <1>2, <1>3, Zenon
<1> HIDE DEF p, S, N
<1>5. p \in Seq(S) /\ Len(p) = N
  BY <1>1, <1>4
<1> QED BY <1>1, <1>4, <1>5, Zenon DEF p, S, N

\* And are one list.
LEMMA FlatIs ==
  ASSUME NEW r, Plain(r), NEW T \in Seq(Flags)
  PROVE  Joined(Pieces(r, T)) \in Seq(Arg)
<1> DEFINE p == Pieces(r, T)
<1>1. p \in Seq(Seq(Arg))
  BY PiecesAre, Zenon
<1> HIDE DEF p
<1>2. Len(p) \in 0..Len(p)
  BY <1>1
<1>3. \E k \in [0..Len(p) -> Seq(Arg)] : Joined(p) = k[Len(p)]
  BY <1>1, Joins, Zenon
<1> QED BY <1>2, <1>3, Zenon DEF p

\* The loop reads the part of the list that a table asks for.
LEMMA ReadTable ==
  ASSUME NEW l \in Seq(Arg), NEW files, NEW lib, NEW r, Plain(r), NEW d, NEW e, NEW F, NEW T \in Seq(Flags),
         ReadTo(l, files, lib, r, d, F), Spans(l, d, e, Joined(Pieces(r, T)))
  PROVE  ReadTo(l, files, lib, r, e, F \cup Range(T))
<1> DEFINE p == Pieces(r, T)
           N == Len(T)
           Upto(n) == F \cup {T[i] : i \in 1..n}
<1>1. p \in Seq(Seq(Arg)) /\ Len(p) = N /\ N \in Nat /\ \A n \in 1..N : p[n] = Piece(r, T[n]) /\ T[n] \in Flags
  <2>1. N \in Nat
    OBVIOUS
  <2>2. Len(p) = N
    BY PiecesAre, Zenon
  <2> QED BY <2>1, <2>2, PiecesAre, Zenon
<1>2. d \in Nat /\ e = d + Len(Joined(p)) /\ Has(l, d, Joined(p))
  BY Zenon DEF Spans
<1> HIDE DEF p
<1>3. PICK m : Marks(m, l, d, p)
  BY <1>1, <1>2, HasPieces, Zenon
<1>4. m \in [0..N -> Nat] /\ m[0] = d /\ m[N] = e
      /\ \A n \in 1..N : Has(l, m[n - 1], p[n]) /\ m[n] = m[n - 1] + Len(p[n])
  BY <1>1, <1>2, <1>3, Zenon DEF Marks
<1> HIDE DEF N
<1> DEFINE Q == {n \in Nat : n <= N => ReadTo(l, files, lib, r, m[n], Upto(n))}
<1>5. 0 \in Q
  <2>1. Upto(0) = F
    <3>1. 1..0 = {}
      OBVIOUS
    <3> QED BY <3>1, Zenon
  <2> HIDE DEF Upto
  <2> QED BY <1>4, <2>1, Zenon
<1>6. ASSUME NEW n \in Nat, n \in Q PROVE n + 1 \in Q
  <2> SUFFICES ASSUME n + 1 <= N PROVE ReadTo(l, files, lib, r, m[n + 1], Upto(n + 1))
    OBVIOUS
  <2> DEFINE x == n + 1
             f == T[x]
  <2>1. x \in 1..N /\ x - 1 = n /\ n <= N /\ n \in 0..N /\ 1..x = (1..n) \cup {x}
    BY <1>1
  <2>2. Upto(x) = Upto(n) \cup {f}
    <3> HIDE DEF x
    <3> QED BY <2>1, Zenon
  <2>3. ReadTo(l, files, lib, r, m[n], Upto(n))
    BY <1>6, <2>1, Zenon
  <2> HIDE DEF x, Upto
  <2>4. Spans(l, m[n], m[x], Piece(r, f)) /\ f \in Flags
    <3>1. m[n] \in Nat /\ p[x] = Piece(r, f) /\ f \in Flags /\ Has(l, m[n], p[x]) /\ m[x] = m[n] + Len(p[x])
      BY <1>1, <1>4, <2>1, Zenon
    <3> QED BY <3>1, Zenon DEF Spans
  <2> HIDE DEF f
  <2>5. ReadTo(l, files, lib, r, m[x], Upto(n) \cup {f})
    BY <2>3, <2>4, ReadPiece, Zenon
  <2> QED BY <2>2, <2>5, Zenon DEF x
<1>7. N \in Q
  <2> HIDE DEF Q
  <2> QED BY <1>1, <1>5, <1>6, Induct, Zenon
<1>8. Upto(N) = F \cup Range(T) /\ N <= N
  <2>1. DOMAIN T = 1..N /\ N <= N
    BY <1>1 DEF N
  <2> QED BY <2>1, Zenon DEF Range
<1> HIDE DEF Upto
<1>9. ReadTo(l, files, lib, r, m[N], Upto(N))
  BY <1>7, <1>8, Zenon
<1> QED BY <1>4, <1>8, <1>9, Zenon

\* The loop takes an entry that is no flag as a path.
LEMMA ReadPath ==
  ASSUME NEW l \in Seq(Arg), NEW files, NEW lib, NEW d, NEW e, NEW c \in Clis, c.exit = Running,
         NEW a \in Arg, a.t # "Lit", d \in Nat, Reach(l, files, lib, d + 1, c), Spans(l, d, e, <<a>>)
  PROVE  e \in Nat /\ Reach(l, files, lib, e + 1, [c EXCEPT !.pos = Append(@, a)])
<1> DEFINE j == d + 1
           s == [i |-> j, c |-> c]
           y == [c EXCEPT !.pos = Append(@, a)]
           q == <<a>>
<1>1. e = d + Len(q) /\ d + Len(q) <= Len(l) /\ \A i \in 1..Len(q) : l[d + i] = q[i]
  BY Zenon DEF Spans, Has
<1>2. Len(q) = 1 /\ q[1] = a /\ 1 \in 1..Len(q)
  OBVIOUS
<1> HIDE DEF q
<1>3. l[j] = a
  BY <1>1, <1>2, Zenon
<1>4. j \in Nat /\ j <= Len(l) /\ ~(j > Len(l)) /\ e = j /\ j + 1 \in Nat /\ j + 1 > j
  BY <1>1, <1>2
<1>5. s.i = j /\ s.c = c
  BY Zenon
<1>6. "" # "version" /\ "" \notin Switches /\ "" \notin Valued
  <2>1. "" # "version"
    BY Zenon
  <2> QED BY <2>1, FlagsAre, Zenon DEF Flags
<1> HIDE DEF s, j
<1>7. LoopRound(l, s, files, lib) = [i |-> j + 1, c |-> y]
  BY <1>3, <1>4, <1>5, <1>6, Zenon DEF LoopRound
<1>8. Reach(l, files, lib, j, c)
  BY Zenon DEF j
<1> HIDE DEF y
<1>9. Reach(l, files, lib, j + 1, y)
  <2>1. LoopRound(l, [i |-> j, c |-> c], files, lib) = [i |-> j + 1, c |-> y]
    BY <1>7, Zenon DEF s
  <2> QED BY <1>4, <1>8, <2>1, ReachNext, Zenon
<1> QED BY <1>4, <1>9, Zenon DEF y

\* What is asked for, flag by flag.
LEMMA WantedIs ==
  ASSUME NEW r
  PROVE  /\ \A f \in Range(BoolFlags) :
              Wanted(r)[f] = IF r.kind # "verify" /\ IsTrue(Get(r, f)) THEN Lit("on") ELSE NoValue
         /\ \A f \in Range(TextFlags) \cup {"level"} :
              Wanted(r)[f] = IF r.kind = "verify" \/ Get(r, f) \in {Absent, ""} THEN NoValue ELSE Lit(Get(r, f))
         /\ \A f \in Range(FileFields) :
              Wanted(r)[f] = IF r.kind # "verify" /\ r.f[f].t # "none" THEN File(f) ELSE NoValue
         /\ Wanted(r)["profile"] = IF r.kind = "verify" THEN NoValue
                                   ELSE IF r.q["profile"] \notin {Absent, ""} THEN Profile(r.q["profile"])
                                   ELSE IF r.f["profile"].t # "none" THEN File("profile") ELSE NoValue
         /\ Wanted(r)["password"] = LET p == IF r.kind = "verify" THEN r.pw ELSE Password(r)
                                    IN IF p \in {Absent, ""} THEN NoValue ELSE Lit(p)
         /\ Wanted(r)["check"] = IF r.kind = "check" THEN Lit("on") ELSE NoValue
         /\ Wanted(r)["verify-password"] = IF r.kind = "verify" THEN Lit("on") ELSE NoValue
         /\ Wanted(r)["batch"] = NoValue
<1> DEFINE B == Range(BoolFlags)
           T == Range(TextFlags)
           F == Range(FileFields)
           given(f) == IF r.kind = "verify" \/ f \notin Keys THEN Absent ELSE Get(r, f)
           W(f) ==
    CASE f = "check" -> IF r.kind = "check" THEN Lit("on") ELSE NoValue
      [] f = "verify-password" -> IF r.kind = "verify" THEN Lit("on") ELSE NoValue
      [] f = "batch" -> NoValue
      [] f = "password" -> LET p == IF r.kind = "verify" THEN r.pw ELSE Password(r)
                           IN IF p \in {Absent, ""} THEN NoValue ELSE Lit(p)
      [] f \in B -> IF IsTrue(given(f)) THEN Lit("on") ELSE NoValue
      [] f \in T \cup {"level"} -> IF given(f) \in {Absent, ""} THEN NoValue ELSE Lit(given(f))
      [] f = "profile" -> IF r.kind = "verify" THEN NoValue
                          ELSE IF r.q[f] \notin {Absent, ""} THEN Profile(r.q[f])
                          ELSE IF r.f[f].t # "none" THEN File(f) ELSE NoValue
      [] OTHER -> IF r.kind # "verify" /\ r.f[f].t # "none" THEN File(f) ELSE NoValue
<1>1. \A f \in Flags : Wanted(r)[f] = W(f)
  BY Zenon DEF Wanted, Flags
<1>2. /\ B \cap (T \cup F \cup Reserved) = {} /\ T \cap (F \cup Reserved) = {} /\ F \cap Reserved = {}
      /\ B \cup T \cup F \cup {"level"} \subseteq Keys
      /\ B \cup T \cup F \cup {"level", "password", "profile", "check", "verify-password", "batch"} \subseteq Flags
  <2> HIDE DEF B, T, F
  <2> QED BY TablesAssumption, Zenon DEF Keys, Flags, Switches, Valued, Paths, B, T, F
<1>3. ~IsTrue(Absent)
  BY Zenon DEF IsTrue, Absent
<1> HIDE DEF B, T, F
<1>4. ASSUME NEW f \in B PROVE W(f) = IF r.kind # "verify" /\ IsTrue(Get(r, f)) THEN Lit("on") ELSE NoValue
  <2>1. f \in Keys /\ f \notin T \cup F \cup {"level", "password", "profile", "check", "verify-password", "batch"}
    BY <1>2, Zenon DEF Reserved
  <2> QED BY <1>3, <2>1, Zenon
<1>5. ASSUME NEW f \in T \cup {"level"}
      PROVE  W(f) = IF r.kind = "verify" \/ Get(r, f) \in {Absent, ""} THEN NoValue ELSE Lit(Get(r, f))
  <2>1. f \in Keys /\ f \notin B \cup F \cup {"password", "profile", "check", "verify-password", "batch"}
    BY <1>2, Zenon DEF Reserved
  <2> QED BY <2>1, Zenon
<1>6. ASSUME NEW f \in F PROVE W(f) = IF r.kind # "verify" /\ r.f[f].t # "none" THEN File(f) ELSE NoValue
  <2>1. f \notin B \cup T \cup {"level", "password", "profile", "check", "verify-password", "batch"}
    BY <1>2, Zenon DEF Reserved
  <2> QED BY <2>1, Zenon
<1>7. W("profile") = IF r.kind = "verify" THEN NoValue
                     ELSE IF r.q["profile"] \notin {Absent, ""} THEN Profile(r.q["profile"])
                     ELSE IF r.f["profile"].t # "none" THEN File("profile") ELSE NoValue
  <2>1. "profile" \notin B \cup T \cup {"level", "password", "check", "verify-password", "batch"}
    BY <1>2, Zenon DEF Reserved
  <2> QED BY <2>1, Zenon
<1>8. /\ W("password") = LET p == IF r.kind = "verify" THEN r.pw ELSE Password(r)
                         IN IF p \in {Absent, ""} THEN NoValue ELSE Lit(p)
      /\ W("check") = IF r.kind = "check" THEN Lit("on") ELSE NoValue
      /\ W("verify-password") = IF r.kind = "verify" THEN Lit("on") ELSE NoValue
      /\ W("batch") = NoValue
  <2>1. {"password", "check", "verify-password", "batch"} \cap (B \cup T \cup {"level", "profile"}) = {}
    BY <1>2, Zenon DEF Reserved
  <2> QED BY <2>1, Zenon
<1> HIDE DEF W
<1> QED BY <1>1, <1>2, <1>4, <1>5, <1>6, <1>7, <1>8, Zenon DEF B, T, F

\* The tables hold flags.
LEMMA TablesHold ==
  /\ BoolFlags \in Seq(Flags) /\ TextFlags \in Seq(Flags) /\ FileFields \in Seq(Flags)
  /\ Range(BoolFlags) \subseteq Switches /\ Range(TextFlags) \subseteq Valued /\ Range(FileFields) \subseteq Paths
  /\ \A T \in {BoolFlags, TextFlags, FileFields} : \A n \in DOMAIN T : T[n] \in Range(T)
<1>1. ASSUME NEW T \in Seq(STRING), Range(T) \subseteq Flags PROVE T \in Seq(Flags)
  <2>1. \A n \in 1..Len(T) : T[n] \in Range(T)
    BY DEF Range
  <2> HIDE DEF Range
  <2>2. \A n \in 1..Len(T) : T[n] \in Flags
    BY <1>1, <2>1, Zenon
  <2> QED BY <2>2
<1>2. Range(BoolFlags) \subseteq Switches /\ Range(TextFlags) \subseteq Valued /\ Range(FileFields) \subseteq Paths
  BY Zenon DEF Switches, Valued, Paths
<1>3. Switches \subseteq Flags /\ Valued \subseteq Flags /\ Paths \subseteq Flags
  BY Zenon DEF Flags, Valued
<1>4. \A T \in {BoolFlags, TextFlags, FileFields} : \A n \in DOMAIN T : T[n] \in Range(T)
  BY Zenon DEF Range
<1>5. Range(BoolFlags) \subseteq Flags /\ Range(TextFlags) \subseteq Flags /\ Range(FileFields) \subseteq Flags
  BY <1>2, <1>3, Zenon
<1>6. BoolFlags \in Seq(Flags)
  BY <1>1, <1>5, TablesAssumption, Zenon
<1>7. TextFlags \in Seq(Flags)
  BY <1>1, <1>5, TablesAssumption, Zenon
<1>8. FileFields \in Seq(Flags)
  BY <1>1, <1>5, TablesAssumption, Zenon
<1> QED BY <1>2, <1>4, <1>6, <1>7, <1>8, Zenon

\* A request is what RequestsAssumption says.
LEMMA RequestIs ==
  ASSUME NEW r \in Arriving
  PROVE  /\ r.kind \in {"convert", "check", "verify"} /\ r.pw \in STRING
         /\ \A k \in Keys : r.q[k] \in STRING /\ r.f[k].v \in STRING /\ Get(r, k) \in STRING \cup {Absent}
         /\ Password(r) \in STRING \cup {Absent} /\ TextOf(r, "password") \in STRING \cup {Absent}
<1>1. /\ r.kind \in {"convert", "check", "verify"} /\ r.pw \in STRING
      /\ r.q \in [Keys -> STRING] /\ r.f \in [Keys -> [t : {"none", "text", "file"}, v : STRING]]
  BY RequestsAssumption, Zenon
<1>2. \A k \in Keys : r.q[k] \in STRING /\ r.f[k].v \in STRING
  BY <1>1, Zenon
<1>3. "password" \in Keys
  BY Zenon DEF Keys
<1> QED BY <1>1, <1>2, <1>3, Zenon DEF Get, Password, TextOf

\* The values that a list is made of.
LEMMA ArgsAre ==
  /\ NoValue \in Arg /\ \A v \in Words : Lit(v) \in Arg /\ File(v) \in Arg /\ Profile(v) \in Arg
  /\ Out \in Arg /\ Out.t # "Lit"
  /\ \A v : Lit(v) # NoValue /\ File(v) # NoValue /\ Profile(v) # NoValue /\ File(v).t # "Lit" /\ Lit(v).v = v
  /\ {"on", "in.pdf", "in.jpg", "profile"} \cup STRING \subseteq Words
<1>1. Out \in Arg /\ NoValue \in Arg
  BY Zenon DEF Out, NoValue, Arg, Words, Reserved
<1>2. \A v \in Words : Lit(v) \in Arg /\ File(v) \in Arg /\ Profile(v) \in Arg
  BY Zenon DEF Lit, File, Profile, Arg
<1>3. Out.t # "Lit" /\ \A v : Lit(v).t = "Lit" /\ File(v).t = "File" /\ Profile(v).t = "Profile" /\ Lit(v).v = v
  BY Zenon DEF Out, Lit, File, Profile
<1>4. NoValue.t = "None"
  BY Zenon DEF NoValue
<1>5. \A v : Lit(v) # NoValue /\ File(v) # NoValue /\ Profile(v) # NoValue /\ File(v).t # "Lit"
  BY <1>3, <1>4, Zenon
<1>6. {"on", "in.pdf", "in.jpg", "profile"} \cup STRING \subseteq Words
  BY Zenon DEF Words, Reserved
<1> QED BY <1>1, <1>2, <1>3, <1>5, <1>6, Zenon

\* What is asked for is a value for every flag.
LEMMA PlainIs ==
  ASSUME NEW r \in Arriving
  PROVE  Plain(r)
<1> DEFINE B == Range(BoolFlags)
           T == Range(TextFlags)
           F == Range(FileFields)
<1>1. Flags = B \cup T \cup F \cup {"level", "profile", "password", "check", "verify-password", "batch"}
      /\ Switches = B \cup {"check", "verify-password", "batch"}
      /\ T \cup F \cup {"level", "profile"} \subseteq Keys
  BY Zenon DEF Flags, Switches, Valued, Paths, Keys
<1>2. ASSUME NEW f \in Switches PROVE Wanted(r)[f] \in {NoValue, Lit("on")}
  BY <1>1, WantedIs, Zenon
<1>3. ASSUME NEW f \in T \cup {"level"} PROVE Wanted(r)[f] \in Arg
  <2>1. f \in Keys
    BY <1>1, Zenon
  <2>2. Wanted(r)[f] = IF r.kind = "verify" \/ Get(r, f) \in {Absent, ""} THEN NoValue ELSE Lit(Get(r, f))
    BY WantedIs, Zenon
  <2> QED BY <2>1, <2>2, RequestIs, ArgsAre, Zenon
<1>4. ASSUME NEW f \in F PROVE Wanted(r)[f] \in Arg
  <2>1. f \in Words
    <3>1. f \in Flags
      BY <1>1, Zenon
    <3> QED BY <3>1, FlagsAre, Zenon
  <2> QED BY <2>1, WantedIs, ArgsAre, Zenon
<1>5. Wanted(r)["profile"] \in Arg
  <2>1. "profile" \in Keys
    BY <1>1, Zenon
  <2> QED BY <2>1, WantedIs, RequestIs, ArgsAre, Zenon
<1>6. Wanted(r)["password"] \in Arg
  <2> DEFINE p == IF r.kind = "verify" THEN r.pw ELSE Password(r)
  <2>1. p \in STRING \cup {Absent}
    BY RequestIs, Zenon
  <2>2. Wanted(r)["password"] = IF p \in {Absent, ""} THEN NoValue ELSE Lit(p)
    BY WantedIs, Zenon
  <2> HIDE DEF p
  <2> QED BY <2>1, <2>2, ArgsAre, Zenon
<1>7. \A f \in Switches : Wanted(r)[f] \in Arg
  BY <1>2, ArgsAre, Zenon
<1>8. \A f \in Flags : Wanted(r)[f] \in Arg
  BY <1>1, <1>3, <1>4, <1>5, <1>6, <1>7, Zenon
<1>9. Wanted(r) \in [Flags -> Arg]
  BY <1>8, Zenon DEF Wanted, Flags
<1> QED BY <1>2, <1>9, Zenon DEF Plain

\* A request that build_args does not give up on.
Fit(r) == r.kind = "verify" \/ (r.body \in {"in.pdf", "in.jpg"} /\ BadArgs(r) = "none")

\* Its level is one.
LEMMA LevelGiven ==
  ASSUME NEW r, Fit(r), r.kind # "verify"
  PROVE  LevelOk(r.kind, Get(r, "level")) /\ Get(r, "level") \notin {Absent, ""}
<1>1. LevelOk(r.kind, Get(r, "level"))
  BY Zenon DEF Fit, BadArgs
<1> QED BY <1>1, TablesAssumption, Zenon DEF LevelOk

\* build_args writes a part for every flag that is asked for.
LEMMA BuildIs ==
  ASSUME NEW r, Fit(r), r.kind # "verify"
  PROVE  BuildArgs(r) = Piece(r, "check") \o Piece(r, "level") \o Joined(Pieces(r, BoolFlags))
                          \o Joined(Pieces(r, TextFlags)) \o Piece(r, "password") \o Piece(r, "profile")
                          \o Joined(Pieces(r, FileFields))
<1>1. {"level", "password", "profile"} \cap Switches = {} /\ "check" \in Switches
  <2>1. {"level", "password", "profile"} \subseteq Valued /\ "check" \in Switches
    BY Zenon DEF Valued, Switches, Paths
  <2> QED BY <2>1, FlagsAre, Zenon
<1>2. Piece(r, "check") = IF r.kind = "check" THEN <<Lit("check")>> ELSE <<>>
  <2>1. Wanted(r)["check"] = IF r.kind = "check" THEN Lit("on") ELSE NoValue
    BY WantedIs, Zenon
  <2> QED BY <1>1, <2>1, ArgsAre, Zenon DEF Piece
<1>3. Piece(r, "level") = <<Lit("level"), Lit(Get(r, "level"))>>
  <2>1. Wanted(r)["level"] = Lit(Get(r, "level"))
    BY LevelGiven, WantedIs, Zenon
  <2> QED BY <1>1, <2>1, ArgsAre, Zenon DEF Piece
<1>4. Piece(r, "password") = PasswordArgs(Password(r))
  <2>1. Wanted(r)["password"] = IF Password(r) \in {Absent, ""} THEN NoValue ELSE Lit(Password(r))
    BY WantedIs, Zenon
  <2> QED BY <1>1, <2>1, ArgsAre, Zenon DEF Piece, PasswordArgs
<1>5. Piece(r, "profile") = ProfileArgs(r)
  <2>1. Wanted(r)["profile"] = IF r.q["profile"] \notin {Absent, ""} THEN Profile(r.q["profile"])
                               ELSE IF r.f["profile"].t # "none" THEN File("profile") ELSE NoValue
    BY WantedIs, Zenon
  <2> QED BY <1>1, <2>1, ArgsAre, Zenon DEF Piece, ProfileArgs
<1>6. BoolArgs(r) = Joined(Pieces(r, BoolFlags))
  <2>1. ASSUME NEW i \in DOMAIN BoolFlags
        PROVE  Piece(r, BoolFlags[i]) = IF IsTrue(Get(r, BoolFlags[i])) THEN <<Lit(BoolFlags[i])>> ELSE <<>>
    <3> DEFINE f == BoolFlags[i]
    <3>1. f \in Range(BoolFlags) /\ f \in Switches
      BY TablesHold, Zenon
    <3> HIDE DEF f
    <3>2. Wanted(r)[f] = IF IsTrue(Get(r, f)) THEN Lit("on") ELSE NoValue
      BY <3>1, WantedIs, Zenon
    <3>3. Piece(r, f) = IF IsTrue(Get(r, f)) THEN <<Lit(f)>> ELSE <<>>
      BY <3>1, <3>2, ArgsAre, Zenon DEF Piece
    <3> QED BY <3>3, Zenon DEF f
  <2> QED BY <2>1, Zenon DEF BoolArgs, Pieces
<1>7. TextArgs(r) = Joined(Pieces(r, TextFlags))
  <2>1. ASSUME NEW i \in DOMAIN TextFlags
        PROVE  Piece(r, TextFlags[i]) = LET v == Get(r, TextFlags[i]) IN
                                        IF v \in {Absent, ""} THEN <<>> ELSE <<Lit(TextFlags[i]), Lit(v)>>
    <3> DEFINE f == TextFlags[i]
    <3>1. f \in Range(TextFlags) /\ f \notin Switches
      BY TablesHold, FlagsAre, Zenon
    <3> HIDE DEF f
    <3>2. Wanted(r)[f] = IF Get(r, f) \in {Absent, ""} THEN NoValue ELSE Lit(Get(r, f))
      BY <3>1, WantedIs, Zenon
    <3>3. Piece(r, f) = IF Get(r, f) \in {Absent, ""} THEN <<>> ELSE <<Lit(f), Lit(Get(r, f))>>
      BY <3>1, <3>2, ArgsAre, Zenon DEF Piece
    <3> QED BY <3>3, Zenon DEF f
  <2> QED BY <2>1, Zenon DEF TextArgs, Pieces
<1>8. FileArgs(r) = Joined(Pieces(r, FileFields))
  <2>1. ASSUME NEW i \in DOMAIN FileFields
        PROVE  Piece(r, FileFields[i]) =
                 IF r.f[FileFields[i]].t # "none" THEN <<Lit(FileFields[i]), File(FileFields[i])>> ELSE <<>>
    <3> DEFINE f == FileFields[i]
    <3>1. f \in Range(FileFields) /\ f \notin Switches
      BY TablesHold, FlagsAre, Zenon
    <3> HIDE DEF f
    <3>2. Wanted(r)[f] = IF r.f[f].t # "none" THEN File(f) ELSE NoValue
      BY <3>1, WantedIs, Zenon
    <3>3. Piece(r, f) = IF r.f[f].t # "none" THEN <<Lit(f), File(f)>> ELSE <<>>
      BY <3>1, <3>2, ArgsAre, Zenon DEF Piece
    <3> QED BY <3>3, Zenon DEF f
  <2> QED BY <2>1, Zenon DEF FileArgs, Pieces
<1> QED BY <1>2, <1>3, <1>4, <1>5, <1>6, <1>7, <1>8, Zenon DEF BuildArgs

\* A list ends behind its last entry.
LEMMA AtAll ==
  ASSUME NEW l \in Seq(Arg)
  PROVE  Spans(l, 0, Len(l), l)
<1>1. 0 \in Nat /\ Len(l) = 0 + Len(l) /\ 0 + Len(l) <= Len(l) /\ \A j \in 1..Len(l) : 0 + j = j
  OBVIOUS
<1> QED BY <1>1, Zenon DEF Spans, Has

\* The loop begins with none of the flags.
LEMMA ReadStart ==
  ASSUME NEW l \in Seq(Arg), NEW files, NEW lib, NEW r
  PROVE  ReadTo(l, files, lib, r, 0, {})
<1>1. NoCli = PartCli(r, {})
  BY Zenon DEF NoCli, PartCli, Part, Flags
<1>2. 0 \in Nat /\ 0 + 1 = 1
  OBVIOUS
<1>3. Reach(l, files, lib, 1, PartCli(r, {}))
  BY <1>1, ReachStart, Zenon
<1> QED BY <1>2, <1>3, Zenon DEF ReadTo

\* What build_args writes is a list.
LEMMA BuildTyped ==
  ASSUME NEW r \in Arriving, Fit(r), r.kind # "verify"
  PROVE  BuildArgs(r) \in Seq(Arg)
<1> DEFINE p1 == Piece(r, "check")
           p2 == Piece(r, "level")
           p3 == Joined(Pieces(r, BoolFlags))
           p4 == Joined(Pieces(r, TextFlags))
           p5 == Piece(r, "password")
           p6 == Piece(r, "profile")
           p7 == Joined(Pieces(r, FileFields))
<1>1. {"check", "level", "password", "profile"} \subseteq Flags
  BY Zenon DEF Flags, Switches, Valued, Paths
<1>2. p1 \in Seq(Arg) /\ p2 \in Seq(Arg) /\ p5 \in Seq(Arg) /\ p6 \in Seq(Arg)
  BY <1>1, PlainIs, PieceIs, Zenon
<1>3. p3 \in Seq(Arg) /\ p4 \in Seq(Arg) /\ p7 \in Seq(Arg)
  BY PlainIs, TablesHold, FlatIs, Zenon
<1>4. BuildArgs(r) = p1 \o p2 \o p3 \o p4 \o p5 \o p6 \o p7
  BY BuildIs, Zenon
<1> HIDE DEF p1, p2, p3, p4, p5, p6, p7
<1>5. p1 \o p2 \o p3 \o p4 \o p5 \o p6 \o p7 \in Seq(Arg)
  BY <1>2, <1>3
<1> QED BY <1>4, <1>5, Zenon

\* The places where one part of what build_args writes ends and the next begins.
Cuts(m, l, e, r) ==
  /\ Spans(l, 0, m[1], Piece(r, "check")) /\ Spans(l, m[1], m[2], Piece(r, "level"))
  /\ Spans(l, m[2], m[3], Joined(Pieces(r, BoolFlags))) /\ Spans(l, m[3], m[4], Joined(Pieces(r, TextFlags)))
  /\ Spans(l, m[4], m[5], Piece(r, "password")) /\ Spans(l, m[5], m[6], Piece(r, "profile"))
  /\ Spans(l, m[6], e, Joined(Pieces(r, FileFields)))

\* The list has the parts one after the other.
LEMMA BuildCuts ==
  ASSUME NEW l \in Seq(Arg), NEW r \in Arriving, Fit(r), r.kind # "verify", NEW e,
         Spans(l, 0, e, BuildArgs(r))
  PROVE  \E m : Cuts(m, l, e, r)
<1> DEFINE p1 == Piece(r, "check")
           p2 == Piece(r, "level")
           p3 == Joined(Pieces(r, BoolFlags))
           p4 == Joined(Pieces(r, TextFlags))
           p5 == Piece(r, "password")
           p6 == Piece(r, "profile")
           p7 == Joined(Pieces(r, FileFields))
<1>1. {"check", "level", "password", "profile"} \subseteq Flags
  BY Zenon DEF Flags, Switches, Valued, Paths
<1>2. p1 \in Seq(Arg) /\ p2 \in Seq(Arg) /\ p5 \in Seq(Arg) /\ p6 \in Seq(Arg)
  BY <1>1, PlainIs, PieceIs, Zenon
<1>3. p3 \in Seq(Arg) /\ p4 \in Seq(Arg) /\ p7 \in Seq(Arg)
  BY PlainIs, TablesHold, FlatIs, Zenon
<1> DEFINE s2 == p1 \o p2
           s3 == s2 \o p3
           s4 == s3 \o p4
           s5 == s4 \o p5
           s6 == s5 \o p6
           s7 == s6 \o p7
<1>4. Spans(l, 0, e, s7)
  BY BuildIs, Zenon
<1> HIDE DEF p1, p2, p3, p4, p5, p6, p7
<1>5. s2 \in Seq(Arg) /\ s3 \in Seq(Arg) /\ s4 \in Seq(Arg) /\ s5 \in Seq(Arg) /\ s6 \in Seq(Arg)
  BY <1>2, <1>3
<1> HIDE DEF s2, s3, s4, s5, s6
<1>6. PICK m6 : Spans(l, 0, m6, s6) /\ Spans(l, m6, e, p7)
  <2>1. Parted(l, 0, e, s6, p7)
    BY <1>3, <1>4, <1>5, AtParts, Zenon
  <2> QED BY <2>1, Zenon DEF Parted
<1>7. PICK m5 : Spans(l, 0, m5, s5) /\ Spans(l, m5, m6, p6)
  <2>1. Parted(l, 0, m6, s5, p6)
    BY <1>2, <1>5, <1>6, AtParts, Zenon DEF s6
  <2> QED BY <2>1, Zenon DEF Parted
<1>8. PICK m4 : Spans(l, 0, m4, s4) /\ Spans(l, m4, m5, p5)
  <2>1. Parted(l, 0, m5, s4, p5)
    BY <1>2, <1>5, <1>7, AtParts, Zenon DEF s5
  <2> QED BY <2>1, Zenon DEF Parted
<1>9. PICK m3 : Spans(l, 0, m3, s3) /\ Spans(l, m3, m4, p4)
  <2>1. Parted(l, 0, m4, s3, p4)
    BY <1>3, <1>5, <1>8, AtParts, Zenon DEF s4
  <2> QED BY <2>1, Zenon DEF Parted
<1>10. PICK m2 : Spans(l, 0, m2, s2) /\ Spans(l, m2, m3, p3)
  <2>1. Parted(l, 0, m3, s2, p3)
    BY <1>3, <1>5, <1>9, AtParts, Zenon DEF s3
  <2> QED BY <2>1, Zenon DEF Parted
<1>11. PICK m1 : Spans(l, 0, m1, p1) /\ Spans(l, m1, m2, p2)
  <2>1. Parted(l, 0, m2, p1, p2)
    BY <1>2, <1>10, AtParts, Zenon DEF s2
  <2> QED BY <2>1, Zenon DEF Parted
<1> DEFINE m == <<m1, m2, m3, m4, m5, m6>>
<1>12. m[1] = m1 /\ m[2] = m2 /\ m[3] = m3 /\ m[4] = m4 /\ m[5] = m5 /\ m[6] = m6
  BY Zenon
<1> HIDE DEF m
<1>13. Cuts(m, l, e, r)
  BY <1>6, <1>7, <1>8, <1>9, <1>10, <1>11, <1>12, Zenon DEF Cuts, p1, p2, p3, p4, p5, p6, p7
<1> QED BY <1>13, Zenon

\* The loop reads what build_args wrote.
LEMMA ReadBuild ==
  ASSUME NEW l \in Seq(Arg), NEW files, NEW lib, NEW r \in Arriving, Fit(r), r.kind # "verify", NEW e,
         Spans(l, 0, e, BuildArgs(r))
  PROVE  ReadTo(l, files, lib, r, e, Flags)
<1>1. {"check", "level", "password", "profile"} \subseteq Flags
  BY Zenon DEF Flags, Switches, Valued, Paths
<1>2. PICK m : Cuts(m, l, e, r)
  BY BuildCuts, Zenon
<1>3. Plain(r)
  BY PlainIs, Zenon
<1> DEFINE F2 == {"check"} \cup {"level"}
           F4 == F2 \cup Range(BoolFlags) \cup Range(TextFlags)
           F6 == F4 \cup {"password"} \cup {"profile"}
           F7 == F6 \cup Range(FileFields)
<1>4. ReadTo(l, files, lib, r, m[2], F2)
  <2>1. Spans(l, 0, m[1], Piece(r, "check")) /\ Spans(l, m[1], m[2], Piece(r, "level"))
    BY <1>2, Zenon DEF Cuts
  <2>2. ReadTo(l, files, lib, r, m[1], {} \cup {"check"})
    BY <1>1, <1>3, <2>1, ReadStart, ReadPiece, Zenon
  <2>3. {} \cup {"check"} = {"check"}
    BY Zenon
  <2>4. ReadTo(l, files, lib, r, m[1], {"check"})
    BY <2>2, <2>3, Zenon
  <2> QED BY <1>1, <1>3, <2>1, <2>4, ReadPiece, Zenon
<1>5. ReadTo(l, files, lib, r, m[4], F4)
  <2> HIDE DEF F2
  <2>1. Spans(l, m[2], m[3], Joined(Pieces(r, BoolFlags))) /\ Spans(l, m[3], m[4], Joined(Pieces(r, TextFlags)))
    BY <1>2, Zenon DEF Cuts
  <2>2. ReadTo(l, files, lib, r, m[3], F2 \cup Range(BoolFlags))
    BY <1>3, <1>4, <2>1, TablesHold, ReadTable, Zenon
  <2> QED BY <1>3, <2>1, <2>2, TablesHold, ReadTable, Zenon
<1>6. ReadTo(l, files, lib, r, m[6], F6)
  <2> HIDE DEF F4
  <2>1. Spans(l, m[4], m[5], Piece(r, "password")) /\ Spans(l, m[5], m[6], Piece(r, "profile"))
    BY <1>2, Zenon DEF Cuts
  <2>2. ReadTo(l, files, lib, r, m[5], F4 \cup {"password"})
    BY <1>1, <1>3, <1>5, <2>1, ReadPiece, Zenon
  <2> QED BY <1>1, <1>3, <2>1, <2>2, ReadPiece, Zenon
<1>7. ReadTo(l, files, lib, r, e, F7)
  <2> HIDE DEF F6
  <2>1. Spans(l, m[6], e, Joined(Pieces(r, FileFields)))
    BY <1>2, Zenon DEF Cuts
  <2> QED BY <1>3, <1>6, <2>1, TablesHold, ReadTable, Zenon
<1>8. PartCli(r, F7) = PartCli(r, Flags)
  <2>1. Flags \ F7 \subseteq {"verify-password", "batch"}
    BY Zenon DEF Flags, Switches, Valued, Paths
  <2>2. Wanted(r)["verify-password"] = NoValue /\ Wanted(r)["batch"] = NoValue
    BY WantedIs, Zenon
  <2>3. \A f \in Flags : f \in F7 \/ Wanted(r)[f] = NoValue
    BY <2>1, <2>2, Zenon
  <2> HIDE DEF F7
  <2>4. Part(r, F7) = Part(r, Flags)
    BY <2>3, Zenon DEF Part
  <2> QED BY <2>4, Zenon DEF PartCli
<1> HIDE DEF F7
<1> QED BY <1>7, <1>8, Zenon DEF ReadTo

\* Lists are equal when their entries are.
LEMMA SameList ==
  ASSUME NEW p \in Seq(Arg), NEW q \in Seq(Arg), Len(p) = Len(q), \A i \in 1..Len(p) : p[i] = q[i]
  PROVE  p = q
OBVIOUS

\* A list of two entries.
LEMMA TwoEntries ==
  ASSUME NEW a \in Arg, NEW o \in Arg
  PROVE  <<a>> \o <<o>> = <<a, o>> /\ Append(<<a>>, o) = <<a, o>>
<1> DEFINE p == <<a>> \o <<o>>
           q == <<a, o>>
           r == Append(<<a>>, o)
<1>1. p \in Seq(Arg) /\ Len(p) = 2 /\ p[1] = a /\ p[2] = o
  OBVIOUS
<1>2. q \in Seq(Arg) /\ Len(q) = 2 /\ q[1] = a /\ q[2] = o
  OBVIOUS
<1>3. r \in Seq(Arg) /\ Len(r) = 2 /\ r[1] = a /\ r[2] = o
  OBVIOUS
<1> HIDE DEF p, q, r
<1>4. p = q
  BY <1>1, <1>2, SameList
<1>5. r = q
  BY <1>2, <1>3, SameList
<1> QED BY <1>4, <1>5, Zenon DEF p, q, r

\* A path goes behind the paths.
LEMMA MorePaths ==
  ASSUME NEW w, NEW p, NEW a
  PROVE  [[opts |-> w, pos |-> p, exit |-> Running] EXCEPT !.pos = Append(@, a)]
           = [opts |-> w, pos |-> Append(p, a), exit |-> Running]
<1> DEFINE c == [opts |-> w, pos |-> p, exit |-> Running]
<1>1. c.pos = p
  BY Zenon
<1>2. \A x : [c EXCEPT !.pos = x] = [opts |-> w, pos |-> x, exit |-> Running]
  OBVIOUS
<1> HIDE DEF c
<1>3. [c EXCEPT !.pos = Append(@, a)] = [c EXCEPT !.pos = Append(c.pos, a)]
  BY Zenon
<1> QED BY <1>1, <1>2, <1>3, Zenon DEF c

\* The paths of a request, and what main should make of its list.
Document(r) == IF r.kind = "verify" THEN File("in.pdf") ELSE File(r.body)
WantedPaths(r) == IF r.kind = "convert" THEN <<Document(r), Out>> ELSE <<Document(r)>>
WantedCli(r) == [opts |-> Wanted(r), pos |-> WantedPaths(r), exit |-> Running]
ReadsWell(l, files, lib, r) == Gone(l, files, lib, r) \/ Makes(l, files, lib, WantedCli(r))

\* With every flag read, what is asked for is all that is.
LEMMA PartAll ==
  ASSUME NEW r, Plain(r)
  PROVE  PartCli(r, Flags) = [opts |-> Wanted(r), pos |-> <<>>, exit |-> Running]
<1>1. Part(r, Flags) = Wanted(r)
  BY Zenon DEF Part, Plain
<1> QED BY <1>1, Zenon DEF PartCli

\* Behind the options the loop reads the document and the output.
LEMMA ReadPaths ==
  ASSUME NEW l \in Seq(Arg), NEW files, NEW lib, NEW r \in Arriving, Fit(r), NEW m,
         ReadTo(l, files, lib, r, m, Flags), Spans(l, m, Len(l), WantedPaths(r))
  PROVE  ReadsWell(l, files, lib, r)
<1> SUFFICES ASSUME ~Gone(l, files, lib, r) PROVE Makes(l, files, lib, WantedCli(r))
  BY Zenon DEF ReadsWell
<1> DEFINE a == Document(r)
           w == Wanted(r)
           c == [opts |-> w, pos |-> <<>>, exit |-> Running]
           c1 == [opts |-> w, pos |-> <<a>>, exit |-> Running]
           c2 == [opts |-> w, pos |-> <<a, Out>>, exit |-> Running]
<1>1. Plain(r) /\ Out \in Arg /\ Out.t # "Lit"
  BY PlainIs, ArgsAre, Zenon
<1>2. a \in Arg /\ a.t # "Lit"
  <2>1. \E v \in {"in.pdf", "in.jpg"} : a = File(v)
    BY Zenon DEF Document, Fit
  <2> QED BY <2>1, ArgsAre, Zenon
<1>3. c \in Clis /\ c.exit = Running /\ m \in Nat /\ Reach(l, files, lib, m + 1, c)
  <2>1. c = PartCli(r, Flags)
    BY <1>1, PartAll, Zenon
  <2>2. c.exit = Running
    BY Zenon
  <2> HIDE DEF c
  <2> QED BY <1>1, <2>1, <2>2, PartIs, Zenon DEF ReadTo
<1> HIDE DEF a, w
<1>4. [c EXCEPT !.pos = Append(@, a)] = c1
  <2>1. Append(<<>>, a) = <<a>>
    OBVIOUS
  <2>2. [c EXCEPT !.pos = Append(@, a)] = [opts |-> w, pos |-> Append(<<>>, a), exit |-> Running]
    BY MorePaths, Zenon
  <2> QED BY <2>1, <2>2, Zenon
<1>5. [c1 EXCEPT !.pos = Append(@, Out)] = c2 /\ c1.exit = Running
  <2>1. Append(<<a>>, Out) = <<a, Out>>
    BY <1>1, <1>2, TwoEntries, Zenon
  <2>2. [c1 EXCEPT !.pos = Append(@, Out)] = [opts |-> w, pos |-> Append(<<a>>, Out), exit |-> Running]
    BY MorePaths, Zenon
  <2> QED BY <2>1, <2>2, Zenon
<1>6. c1 \in Clis
  <2>1. 1 \in Nat \ {0}
    OBVIOUS
  <2> HIDE DEF c, c1
  <2> QED BY <1>2, <1>3, <1>4, <2>1, Writes, Zenon
<1>7. CASE r.kind # "convert"
  <2>1. Spans(l, m, Len(l), <<a>>) /\ WantedCli(r) = c1
    BY <1>7, Zenon DEF WantedPaths, WantedCli, a, w
  <2> HIDE DEF c, c1
  <2>2. Len(l) \in Nat /\ Reach(l, files, lib, Len(l) + 1, [c EXCEPT !.pos = Append(@, a)])
    BY <1>2, <1>3, <2>1, ReadPath, Zenon
  <2>3. Reach(l, files, lib, Len(l) + 1, c1)
    BY <1>4, <2>2, Zenon
  <2>4. Len(l) + 1 \in Nat /\ Len(l) + 1 > Len(l)
    BY <2>2
  <2> QED BY <2>1, <2>3, <2>4, ReachEnd, Zenon
<1>8. CASE r.kind = "convert"
  <2> DEFINE p == <<a>>
             q == <<Out>>
  <2>1. p \o q = <<a, Out>> /\ p \in Seq(Arg) /\ q \in Seq(Arg)
    <3>1. p \in Seq(Arg) /\ q \in Seq(Arg)
      BY <1>1, <1>2
    <3>2. p \o q = <<a, Out>>
      BY <1>1, <1>2, TwoEntries, Zenon
    <3> QED BY <3>1, <3>2, Zenon
  <2>2. Spans(l, m, Len(l), p \o q) /\ WantedCli(r) = c2
    BY <1>8, <2>1, Zenon DEF WantedPaths, WantedCli, a, w
  <2> HIDE DEF p, q, c, c1, c2
  <2>3. Parted(l, m, Len(l), p, q)
    BY <2>1, <2>2, AtParts, Zenon
  <2>4. PICK n : Spans(l, m, n, <<a>>) /\ Spans(l, n, Len(l), <<Out>>)
    BY <2>3, Zenon DEF Parted, p, q
  <2>5. n \in Nat /\ Reach(l, files, lib, n + 1, [c EXCEPT !.pos = Append(@, a)])
    BY <1>2, <1>3, <2>4, ReadPath, Zenon
  <2>6. Reach(l, files, lib, n + 1, c1)
    BY <1>4, <2>5, Zenon
  <2>7. Len(l) \in Nat /\ Reach(l, files, lib, Len(l) + 1, [c1 EXCEPT !.pos = Append(@, Out)])
    BY <1>1, <1>5, <1>6, <2>4, <2>5, <2>6, ReadPath, Zenon
  <2>8. Reach(l, files, lib, Len(l) + 1, c2)
    BY <1>5, <2>7, Zenon
  <2>9. Len(l) + 1 \in Nat /\ Len(l) + 1 > Len(l)
    BY <2>7
  <2> QED BY <2>2, <2>8, <2>9, ReachEnd, Zenon
<1> QED BY <1>7, <1>8, Zenon

\* The options of a list, before its paths.
OptionsOf(r) == IF r.kind = "verify" THEN Piece(r, "verify-password") \o Piece(r, "password") ELSE BuildArgs(r)

\* The list of a request is its options and its paths.
LEMMA JobIs ==
  ASSUME NEW r \in Arriving, Fit(r)
  PROVE  OptionsOf(r) \in Seq(Arg) /\ WantedPaths(r) \in Seq(Arg) /\ JobArgs(r) = OptionsOf(r) \o WantedPaths(r)
<1> DEFINE l == JobArgs(r)
           w == WantedPaths(r)
<1>1. w \in Seq(Arg) /\ Plain(r)
  <2> DEFINE a == Document(r)
             o == Out
  <2>1. \E v \in {"in.pdf", "in.jpg"} : a = File(v)
    BY Zenon DEF Document, Fit
  <2>2. a \in Arg /\ o \in Arg
    BY <2>1, ArgsAre, Zenon
  <2> HIDE DEF a, o
  <2>3. <<a>> \in Seq(Arg) /\ <<a, o>> \in Seq(Arg)
    BY <2>2
  <2> QED BY <2>3, PlainIs, Zenon DEF WantedPaths, a, o
<1>2. CASE r.kind # "verify"
  <2> DEFINE b == BuildArgs(r)
             a == Document(r)
             o == Out
  <2>1. b \in Seq(Arg)
    BY <1>2, BuildTyped, Zenon
  <2>2. l = b \o <<a>> \o (IF r.kind = "convert" THEN <<o>> ELSE <<>>)
        /\ w = IF r.kind = "convert" THEN <<a, o>> ELSE <<a>>
    BY <1>2, Zenon DEF JobArgs, Document, WantedPaths
  <2>3. a \in Arg /\ o \in Arg
    <3>1. a \in {File("in.pdf"), File("in.jpg")}
      BY <1>2, Zenon DEF Document, Fit
    <3> QED BY <3>1, ArgsAre, Zenon
  <2> HIDE DEF w, l, a, o, b
  <2>4. b \o <<a>> \o <<o>> = b \o <<a, o>> /\ b \o <<a>> \o <<>> = b \o <<a>>
    <3> DEFINE p == <<a>>
               q == <<o>>
    <3>1. p \in Seq(Arg) /\ q \in Seq(Arg)
      BY <2>3
    <3>2. p \o q = <<a, o>>
      BY <2>3, TwoEntries, Zenon
    <3> HIDE DEF p, q
    <3>3. (b \o p) \o q = b \o (p \o q) /\ b \o p \o <<>> = b \o p
      BY <2>1, <3>1, SMTT(20)
    <3> QED BY <3>2, <3>3, Zenon DEF p, q
  <2>5. l = b \o w
    BY <2>2, <2>4, Zenon
  <2> QED BY <1>1, <1>2, <2>1, <2>5, Zenon DEF l, w, b, OptionsOf
<1>3. CASE r.kind = "verify"
  <2> DEFINE p == Piece(r, "verify-password")
             q == Piece(r, "password")
             b == p \o q
  <2>1. {"verify-password", "password"} \subseteq Flags /\ "verify-password" \in Switches /\ "password" \notin Switches
    <3>1. "verify-password" \in Switches /\ "password" \in Valued
      BY Zenon DEF Switches, Valued
    <3> QED BY <3>1, FlagsAre, Zenon DEF Flags
  <2>2. p \in Seq(Arg) /\ q \in Seq(Arg)
    BY <1>1, <2>1, PieceIs, Zenon
  <2>3. p = <<Lit("verify-password")>>
    <3>1. Wanted(r)["verify-password"] = Lit("on")
      BY <1>3, WantedIs, Zenon
    <3> QED BY <2>1, <3>1, ArgsAre, Zenon DEF Piece
  <2>4. q = PasswordArgs(r.pw)
    <3>1. Wanted(r)["password"] = IF r.pw \in {Absent, ""} THEN NoValue ELSE Lit(r.pw)
      BY <1>3, WantedIs, Zenon
    <3> QED BY <2>1, <3>1, ArgsAre, Zenon DEF Piece, PasswordArgs
  <2>5. l = b \o w
    BY <1>3, <2>3, <2>4, Zenon DEF JobArgs, Document, WantedPaths
  <2> HIDE DEF p, q
  <2>6. b \in Seq(Arg)
    BY <2>2
  <2> HIDE DEF b, l, w
  <2> QED BY <1>1, <1>3, <2>5, <2>6, Zenon DEF OptionsOf, b, p, q, l, w
<1> QED BY <1>2, <1>3, Zenon

\* The loop reads the options.
LEMMA ReadFront ==
  ASSUME NEW l \in Seq(Arg), NEW files, NEW lib, NEW r \in Arriving, Fit(r), NEW m, Spans(l, 0, m, OptionsOf(r))
  PROVE  ReadTo(l, files, lib, r, m, Flags)
<1>1. CASE r.kind # "verify"
  <2>1. Spans(l, 0, m, BuildArgs(r))
    BY <1>1, Zenon DEF OptionsOf
  <2> QED BY <1>1, <2>1, ReadBuild, Zenon
<1>2. CASE r.kind = "verify"
  <2> DEFINE p == Piece(r, "verify-password")
             q == Piece(r, "password")
             G == {"verify-password"} \cup {"password"}
  <2>1. {"verify-password", "password"} \subseteq Flags /\ Plain(r)
    BY PlainIs, Zenon DEF Flags, Switches, Valued
  <2>2. p \in Seq(Arg) /\ q \in Seq(Arg) /\ Spans(l, 0, m, p \o q)
    BY <1>2, <2>1, PieceIs, Zenon DEF OptionsOf
  <2> HIDE DEF p, q
  <2>3. Parted(l, 0, m, p, q)
    BY <2>2, AtParts, Zenon
  <2>4. PICK n : Spans(l, 0, n, p) /\ Spans(l, n, m, q)
    BY <2>3, Zenon DEF Parted
  <2>5. ReadTo(l, files, lib, r, n, {} \cup {"verify-password"})
    BY <2>1, <2>4, ReadStart, ReadPiece, Zenon DEF p
  <2>6. {} \cup {"verify-password"} = {"verify-password"}
    BY Zenon
  <2>7. ReadTo(l, files, lib, r, n, {"verify-password"})
    BY <2>5, <2>6, Zenon
  <2>8. ReadTo(l, files, lib, r, m, G)
    BY <2>1, <2>4, <2>7, ReadPiece, Zenon DEF q
  <2>9. \A f \in Flags : f \in G \/ Wanted(r)[f] = NoValue
    <3>1. Flags = Range(BoolFlags) \cup Range(TextFlags) \cup Range(FileFields) \cup {"level"}
                    \cup {"profile", "check", "batch"} \cup G
      BY Zenon DEF Flags, Switches, Valued, Paths
    <3>2. "check" # "verify"
      BY Zenon
    <3> QED BY <1>2, <3>1, <3>2, WantedIs, Zenon
  <2> HIDE DEF G
  <2>10. Part(r, G) = Part(r, Flags)
    BY <2>9, Zenon DEF Part
  <2>11. PartCli(r, G) = PartCli(r, Flags)
    BY <2>10, Zenon DEF PartCli
  <2> QED BY <2>8, <2>11, Zenon DEF ReadTo
<1> QED BY <1>1, <1>2, Zenon

\* The place where the options of the list end and its paths begin.
LEMMA JobCut ==
  ASSUME NEW r \in Arriving, Fit(r)
  PROVE  JobArgs(r) \in Seq(Arg) /\ Parted(JobArgs(r), 0, Len(JobArgs(r)), OptionsOf(r), WantedPaths(r))
<1> DEFINE l == JobArgs(r)
           b == OptionsOf(r)
           w == WantedPaths(r)
<1>1. b \in Seq(Arg) /\ w \in Seq(Arg) /\ l = b \o w
  BY JobIs, Zenon
<1> HIDE DEF l, b, w
<1>2. l \in Seq(Arg)
  BY <1>1
<1>3. Spans(l, 0, Len(l), b \o w)
  BY <1>1, <1>2, AtAll, Zenon
<1> QED BY <1>1, <1>2, <1>3, AtParts, Zenon DEF l, b, w

\* main reads from the list of a request what the request asks for.
LEMMA ReadRequest ==
  ASSUME NEW files, NEW lib, NEW r \in Arriving, Fit(r)
  PROVE  ReadsWell(JobArgs(r), files, lib, r)
<1> DEFINE l == JobArgs(r)
<1>1. l \in Seq(Arg) /\ Parted(l, 0, Len(l), OptionsOf(r), WantedPaths(r))
  BY JobCut, Zenon
<1> HIDE DEF l
<1>2. PICK m : Spans(l, 0, m, OptionsOf(r)) /\ Spans(l, m, Len(l), WantedPaths(r))
  BY <1>1, Zenon DEF Parted
<1>3. ReadTo(l, files, lib, r, m, Flags)
  BY <1>1, <1>2, ReadFront, Zenon
<1> QED BY <1>1, <1>2, <1>3, ReadPaths, Zenon DEF l

-----------------------------------------------------------------------------
(* What makes the loop leave main *)

\* The files and the profile that the list of a request names.
Supplied(r, files, lib) ==
  Stored(r) \subseteq files /\ (r.q["profile"] \notin {Absent, ""} => r.q["profile"] \in lib)

\* verify-password has nothing to stop at.
LEMMA VerifyGoesOn ==
  ASSUME NEW r, r.kind = "verify", NEW files, NEW lib
  PROVE  ~Stops(r, files, lib)
<1>1. Valued = (Range(TextFlags) \cup {"level"}) \cup Range(FileFields) \cup {"profile", "password"}
  BY Zenon DEF Valued, Paths
<1>2. \A f \in Valued : f = "password" \/ Wanted(r)[f] = NoValue
  BY <1>1, WantedIs, Zenon
<1>3. "password" \notin Paths
  BY TablesAssumption, Zenon DEF Paths, Reserved
<1>4. \A a : Leaves("password", a, files, lib) = Running
  BY <1>3 DEF Leaves
<1> QED BY <1>2, <1>4, Zenon DEF Stops

\* With its files and its profile at hand only a number out of range stops it.
LEMMA StopsAtNumbers ==
  ASSUME NEW r, Fit(r), r.kind # "verify", NEW files, NEW lib, Supplied(r, files, lib), Stops(r, files, lib)
  PROVE  OutOfRange(r)
<1> DEFINE T == Range(TextFlags)
           F == Range(FileFields)
<1>1. PICK f \in Valued : Wanted(r)[f] # NoValue /\ Leaves(f, Wanted(r)[f], files, lib) # Running
  BY Zenon DEF Stops
<1>2. f \in T \/ f \in F \/ f \in {"level", "profile", "password"}
  BY Zenon DEF Valued, Paths
<1>3. /\ T \cap (F \cup {"level", "profile", "password"}) = {} /\ F \cap {"level", "profile", "password"} = {}
      /\ {"rasterDpi", "imageMaxPpi"} \subseteq T /\ Paths = F \cup {"profile"}
  BY TablesAssumption, Zenon DEF Reserved, Paths
<1> DEFINE w == Wanted(r)[f]
<1>4. CASE f \in F
  <2>1. w = File(f) /\ r.f[f].t # "none"
    BY <1>1, <1>4, WantedIs, Zenon
  <2>2. f \in files
    BY <1>4, <2>1, Zenon DEF Supplied, Stored
  <2>3. w.t = "File" /\ w.v = f
    BY <2>1 DEF File
  <2>4. f \notin {"level", "rasterDpi", "imageMaxPpi"}
    BY <1>3, <1>4, Zenon
  <2> HIDE DEF w
  <2>5. Leaves(f, w, files, lib) = Running
    BY <2>2, <2>3, <2>4 DEF Leaves
  <2> QED BY <1>1, <2>5, Zenon DEF w
<1>5. CASE f = "profile"
  <2>1. (w.t = "File" /\ w.v \in files) \/ (w.t = "Profile" /\ w.v \in lib)
    <3>1. CASE r.q["profile"] \notin {Absent, ""}
      <4>1. w = Profile(r.q["profile"])
        BY <1>5, <3>1, WantedIs, Zenon
      <4>2. w.t = "Profile" /\ w.v = r.q["profile"]
        BY <4>1 DEF Profile
      <4> QED BY <3>1, <4>2, Zenon DEF Supplied
    <3>2. CASE r.q["profile"] \in {Absent, ""}
      <4>1. w = File("profile") /\ r.f["profile"].t # "none"
        BY <1>1, <1>5, <3>2, WantedIs, Zenon
      <4>2. w.t = "File" /\ w.v = "profile"
        BY <4>1 DEF File
      <4>3. ProfileArgs(r) = <<Lit("profile"), File("profile")>>
        BY <3>2, <4>1, Zenon DEF ProfileArgs
      <4>4. File("profile") \in Range(ProfileArgs(r))
        <5>1. \A a, b : b \in Range(<<a, b>>)
          BY DEF Range
        <5> QED BY <4>3, <5>1, Zenon
      <4> QED BY <4>2, <4>4, Zenon DEF Supplied, Stored
    <3> QED BY <3>1, <3>2, Zenon
  <2>2. f \notin {"level", "rasterDpi", "imageMaxPpi"}
    BY <1>3, <1>5, Zenon
  <2> HIDE DEF w
  <2>3. Leaves(f, w, files, lib) = Running
    BY <2>1, <2>2 DEF Leaves
  <2> QED BY <1>1, <2>3, Zenon DEF w
<1>6. CASE f = "level"
  <2>1. w = Lit(Get(r, f)) /\ Get(r, f) \in Levels \cup CheckOnly
    BY <1>6, LevelGiven, WantedIs, Zenon DEF LevelOk
  <2>2. w.v \in Levels \cup CheckOnly
    BY <2>1, ArgsAre, Zenon
  <2>3. f \notin Paths /\ f \notin {"rasterDpi", "imageMaxPpi"}
    BY <1>3, <1>6, Zenon
  <2> HIDE DEF w
  <2>4. Leaves(f, w, files, lib) = Running
    BY <2>2, <2>3 DEF Leaves
  <2> QED BY <1>1, <2>4, Zenon DEF w
<1>7. CASE f = "password"
  <2>1. f \notin Paths /\ f \notin {"rasterDpi", "imageMaxPpi", "level"}
    BY <1>3, <1>7, Zenon
  <2> HIDE DEF w
  <2>2. Leaves(f, w, files, lib) = Running
    BY <2>1 DEF Leaves
  <2> QED BY <1>1, <2>2, Zenon DEF w
<1>8. CASE f \in T
  <2>1. f \notin Paths /\ f # "level"
    BY <1>3, <1>8, Zenon
  <2>2. w = Lit(Get(r, f)) /\ Get(r, f) \notin {Absent, ""}
    BY <1>1, <1>8, WantedIs, Zenon
  <2>3. Leaves(f, w, files, lib) # Running
    BY <1>1, Zenon
  <2> HIDE DEF w
  <2>4. Leaves(f, w, files, lib) = Leaves(f, w, {}, {})
    BY <2>1 DEF Leaves
  <2>5. f \in {"rasterDpi", "imageMaxPpi"}
    BY <2>1, <2>3 DEF Leaves
  <2> QED BY <2>2, <2>3, <2>4, <2>5, Zenon DEF OutOfRange
<1> QED BY <1>2, <1>4, <1>5, <1>6, <1>7, <1>8, Zenon

\* main does what was asked for when it has read it.
LEMMA WantedMode ==
  ASSUME NEW r \in Arriving, Fit(r)
  PROVE  Mode(WantedCli(r)) = r.kind
<1> DEFINE c == WantedCli(r)
           n == Len(c.pos)
<1>1. c.exit = Running /\ c.opts = Wanted(r) /\ c.pos = WantedPaths(r)
  BY Zenon DEF WantedCli
<1>2. n = (IF r.kind = "convert" THEN 2 ELSE 1) /\ c.pos # <<>>
  <2>1. \A a, b : Len(<<a>>) = 1 /\ Len(<<a, b>>) = 2 /\ <<a>> # <<>> /\ <<a, b>> # <<>>
    BY Zenon
  <2>2. c.pos = IF r.kind = "convert" THEN <<Document(r), Out>> ELSE <<Document(r)>>
    BY <1>1, Zenon DEF WantedPaths
  <2> HIDE DEF c
  <2> QED BY <2>1, <2>2, Zenon
<1>3. ~(n > 2) /\ n <= 2 /\ (n = 2 <=> r.kind = "convert")
  <2> HIDE DEF n
  <2> QED BY <1>2
<1> DEFINE set(f) == c.opts[f] # NoValue
<1>4. set("verify-password") <=> r.kind = "verify"
  <2>1. Wanted(r)["verify-password"] = IF r.kind = "verify" THEN Lit("on") ELSE NoValue
    BY WantedIs, Zenon
  <2> HIDE DEF c
  <2> QED BY <1>1, <2>1, ArgsAre, Zenon
<1>5. set("check") <=> r.kind = "check"
  <2>1. Wanted(r)["check"] = IF r.kind = "check" THEN Lit("on") ELSE NoValue
    BY WantedIs, Zenon
  <2> HIDE DEF c
  <2> QED BY <1>1, <2>1, ArgsAre, Zenon
<1>6. ~set("batch")
  <2>1. Wanted(r)["batch"] = NoValue
    BY WantedIs, Zenon
  <2> HIDE DEF c
  <2> QED BY <1>1, <2>1, Zenon
<1>7. r.kind = "verify" \/ set("level")
  <2>1. r.kind = "verify" \/ Wanted(r)["level"] = Lit(Get(r, "level"))
    BY LevelGiven, WantedIs, Zenon
  <2> HIDE DEF c
  <2> QED BY <1>1, <2>1, ArgsAre, Zenon
<1>8. r.kind \in {"convert", "check", "verify"}
  BY RequestIs, Zenon
<1> HIDE DEF c
<1>9. CASE r.kind = "verify"
  <2>1. Mode(c) = "verify"
    BY <1>1, <1>2, <1>3, <1>4, <1>9, Zenon DEF Mode
  <2> QED BY <1>9, <2>1, Zenon DEF c
<1>10. CASE r.kind = "check"
  <2>1. Mode(c) = "check"
    BY <1>1, <1>2, <1>3, <1>4, <1>5, <1>6, <1>7, <1>10, Zenon DEF Mode
  <2> QED BY <1>10, <2>1, Zenon DEF c
<1>11. CASE r.kind = "convert"
  <2>1. Mode(c) = "convert"
    BY <1>1, <1>2, <1>3, <1>4, <1>5, <1>6, <1>7, <1>11, Zenon DEF Mode
  <2> QED BY <1>11, <2>1, Zenon DEF c
<1> QED BY <1>8, <1>9, <1>10, <1>11, Zenon

-----------------------------------------------------------------------------
(* The files of a list travel with it *)

\* What the directory of a request holds.
Needs(r) == IF r.kind = "verify" THEN {"in.pdf"} ELSE Stored(r) \cup {r.body}

\* A file that a part of the list names is one of its input files.
LEMMA FileAt ==
  ASSUME NEW l \in Seq(Arg), NEW d, NEW e, NEW q \in Seq(Arg), Spans(l, d, e, q), NEW n \in 1..Len(q), NEW v, q[n] = File(v)
  PROVE  v \in InputFiles(l)
<1> DEFINE j == d + n
<1>1. d \in Nat /\ d + Len(q) <= Len(l) /\ l[j] = q[n]
  BY Zenon DEF Spans, Has
<1>2. j \in DOMAIN l
  BY <1>1
<1>3. File(v).t = "File" /\ File(v).v = v
  BY Zenon DEF File
<1> HIDE DEF j
<1> QED BY <1>1, <1>2, <1>3, Zenon DEF InputFiles

\* A part that asks for a file names it.
LEMMA PieceNames ==
  ASSUME NEW l \in Seq(Arg), NEW d, NEW e, NEW r, Plain(r), NEW f \in Valued, NEW v, Wanted(r)[f] = File(v),
         Spans(l, d, e, Piece(r, f))
  PROVE  v \in InputFiles(l)
<1> DEFINE q == Piece(r, f)
<1>1. f \in Flags /\ f \notin Switches
  BY FlagsAre, Zenon DEF Flags
<1>2. q = <<Lit(f), File(v)>>
  BY <1>1, ArgsAre, Zenon DEF Piece
<1>3. q \in Seq(Arg)
  BY <1>1, PieceIs, Zenon
<1> HIDE DEF q
<1>4. 2 \in 1..Len(q) /\ q[2] = File(v)
  BY <1>2, SMTT(20)
<1> QED BY <1>3, <1>4, FileAt, Zenon DEF q

\* The list of a request names all that its directory holds.
LEMMA Carries ==
  ASSUME NEW r \in Arriving, Fit(r)
  PROVE  Needs(r) \subseteq InputFiles(JobArgs(r))
<1> DEFINE l == JobArgs(r)
           w == WantedPaths(r)
<1>1. l \in Seq(Arg) /\ Parted(l, 0, Len(l), OptionsOf(r), w) /\ w \in Seq(Arg) /\ Plain(r)
  BY JobCut, JobIs, PlainIs, Zenon
<1> HIDE DEF l
<1>2. PICK m : Spans(l, 0, m, OptionsOf(r)) /\ Spans(l, m, Len(l), w)
  BY <1>1, Zenon DEF Parted
<1>3. ASSUME NEW v, Document(r) = File(v) PROVE v \in InputFiles(l)
  <2>1. \A a, b : 1 \in 1..Len(<<a>>) /\ <<a>>[1] = a /\ 1 \in 1..Len(<<a, b>>) /\ <<a, b>>[1] = a
    OBVIOUS
  <2>2. 1 \in 1..Len(w) /\ w[1] = File(v)
    BY <1>3, <2>1, Zenon DEF WantedPaths
  <2> HIDE DEF w
  <2> QED BY <1>1, <1>2, <2>2, FileAt, Zenon
<1>4. CASE r.kind = "verify"
  BY <1>3, <1>4, Zenon DEF Needs, Document, l
<1>5. CASE r.kind # "verify"
  <2>1. r.body \in InputFiles(l)
    BY <1>3, <1>5, Zenon DEF Document
  <2>2. Spans(l, 0, m, BuildArgs(r))
    BY <1>2, <1>5, Zenon DEF OptionsOf
  <2>3. PICK k : Cuts(k, l, m, r)
    BY <1>1, <1>5, <2>2, BuildCuts, Zenon
  <2>4. ASSUME NEW f \in Range(FileFields), r.f[f].t # "none" PROVE f \in InputFiles(l)
    <3> DEFINE p == Pieces(r, FileFields)
    <3>1. PICK n \in DOMAIN FileFields : f = FileFields[n]
      BY Zenon DEF Range
    <3>2. p \in Seq(Seq(Arg)) /\ Len(p) = Len(FileFields) /\ p[n] = Piece(r, f) /\ n \in 1..Len(p)
      <4>1. FileFields \in Seq(Flags)
        BY TablesHold, Zenon
      <4>2. n \in 1..Len(FileFields)
        BY <3>1, <4>1
      <4>3. Len(p) = Len(FileFields)
        BY <1>1, <4>1, PiecesAre, Zenon
      <4> QED BY <1>1, <3>1, <4>1, <4>2, <4>3, PiecesAre, Zenon
    <3>3. Spans(l, k[6], m, Joined(p))
      BY <2>3, Zenon DEF Cuts
    <3> HIDE DEF p
    <3>4. k[6] \in Nat /\ Has(l, k[6], Joined(p))
      BY <3>3, Zenon DEF Spans
    <3>5. PICK e : Marks(e, l, k[6], p)
      BY <1>1, <3>2, <3>4, HasPieces, Zenon
    <3>6. n - 1 \in 0..Len(p)
      BY <3>2
    <3>7. Spans(l, e[n - 1], e[n], Piece(r, f))
      BY <3>2, <3>5, <3>6, Zenon DEF Marks, Spans
    <3>8. Wanted(r)[f] = File(f) /\ f \in Valued
      BY <1>5, <2>4, WantedIs, Zenon DEF Valued, Paths
    <3> QED BY <1>1, <3>7, <3>8, PieceNames, Zenon
  <2>5. ASSUME File("profile") \in Range(ProfileArgs(r)) PROVE "profile" \in InputFiles(l)
    <3>1. Wanted(r)["profile"] = File("profile")
      <4>1. CASE r.q["profile"] \notin {Absent, ""}
        <5> DEFINE x == Lit("profile")
                   y == Profile(r.q["profile"])
                   z == File("profile")
        <5>1. z \in Range(<<x, y>>)
          BY <2>5, <4>1, Zenon DEF ProfileArgs
        <5>2. z # x /\ z # y
          BY Zenon DEF Lit, Profile, File
        <5> HIDE DEF x, y, z
        <5>3. Range(<<x, y>>) = {x, y}
          BY DEF Range
        <5> QED BY <5>1, <5>2, <5>3, Zenon
      <4>2. CASE r.q["profile"] \in {Absent, ""} /\ r.f["profile"].t = "none"
        <5>1. ProfileArgs(r) = <<>>
          BY <4>2, Zenon DEF ProfileArgs
        <5>2. Range(<<>>) = {}
          BY DEF Range
        <5> QED BY <2>5, <5>1, <5>2, Zenon
      <4>3. CASE r.q["profile"] \in {Absent, ""} /\ r.f["profile"].t # "none"
        BY <1>5, <4>3, WantedIs, Zenon
      <4> QED BY <4>1, <4>2, <4>3, Zenon
    <3>2. Spans(l, k[5], k[6], Piece(r, "profile"))
      BY <2>3, Zenon DEF Cuts
    <3>3. "profile" \in Valued
      BY Zenon DEF Valued, Paths
    <3> QED BY <1>1, <3>1, <3>2, <3>3, PieceNames, Zenon
  <2>6. Stored(r) \subseteq InputFiles(l)
    BY <2>4, <2>5, Zenon DEF Stored
  <2> QED BY <1>5, <2>1, <2>6, Zenon DEF Needs, l
<1> QED BY <1>4, <1>5, Zenon

-----------------------------------------------------------------------------
(* validate_job asks for nothing but the files of the list and its profile *)

OptionStates(l) == [i : Nat, seen : SUBSET {l[j].v : j \in 1..Len(l)}]
OptionRounds(k, l, i, files, lib) ==
  /\ k \in [0..Len(l) -> OptionStates(l)] /\ k[0] = [i |-> i, seen |-> {}] /\ Options(l, i, files, lib) = k[Len(l)].i
  /\ \A n \in 1..Len(l) : k[n] = OptionRound(l, k[n - 1], files, lib)

\* A round of the option loop keeps the form of its state.
LEMMA OptionTyped ==
  ASSUME NEW l \in Seq(Arg), NEW s \in OptionStates(l), NEW files, NEW lib
  PROVE  OptionRound(l, s, files, lib) \in OptionStates(l)
<1> DEFINE V == {l[j].v : j \in 1..Len(l)}
           i == s.i
           e == s.seen
           r == OptionRound(l, s, files, lib)
           flag == l[i].v
<1>1. i \in Nat /\ e \in SUBSET V /\ s = [i |-> i, seen |-> e] /\ Len(l) \in Nat
  <2>1. Len(l) \in Nat
    OBVIOUS
  <2> QED BY <2>1, Zenon DEF OptionStates
<1>2. CASE i = 0 \/ i > Len(l) \/ l[i].t # "Lit"
  BY <1>2, Zenon DEF OptionRound
<1>3. CASE ~(i = 0 \/ i > Len(l) \/ l[i].t # "Lit")
  <2>1. i \in 1..Len(l) /\ i + 1 \in Nat /\ i + 2 \in Nat /\ 0 \in Nat
    <3>1. ~(i = 0) /\ ~(i > Len(l))
      BY <1>3, Zenon
    <3> HIDE DEF i
    <3> QED BY <1>1, <3>1
  <2>2. flag \in V
    BY <2>1, Zenon
  <2>3. r \in {[s EXCEPT !.i = 0], [i |-> i + 1, seen |-> e \cup {flag}], [i |-> i + 2, seen |-> e \cup {flag}]}
    BY <1>3, Zenon DEF OptionRound
  <2>4. [s EXCEPT !.i = 0] \in OptionStates(l)
    BY <2>1, Zenon DEF OptionStates
  <2> HIDE DEF i, e, r, flag
  <2>5. e \cup {flag} \in SUBSET V
    BY <1>1, <2>2, Zenon
  <2>6. [i |-> i + 1, seen |-> e \cup {flag}] \in OptionStates(l) /\ [i |-> i + 2, seen |-> e \cup {flag}] \in OptionStates(l)
    BY <2>1, <2>5, Zenon DEF OptionStates
  <2> QED BY <2>3, <2>4, <2>6, Zenon DEF r
<1> QED BY <1>2, <1>3, Zenon

\* The option loop goes through its rounds.
LEMMA OptionsIs ==
  ASSUME NEW l \in Seq(Arg), NEW i \in Nat, NEW files, NEW lib
  PROVE  \E k : OptionRounds(k, l, i, files, lib)
<1> DEFINE N == Len(l)
           S == OptionStates(l)
           a == [i |-> i, seen |-> {}]
           g == [n \in Nat |-> [s \in S |-> OptionRound(l, s, files, lib)]]
           Rec(f) == f = [n \in 0..N |-> IF n = 0 THEN a ELSE OptionRound(l, f[n - 1], files, lib)]
<1>1. N \in Nat /\ 0 \in 0..N /\ N \in 0..N /\ \A n \in 1..N : n \in Nat /\ n \in 0..N /\ n - 1 \in 0..N /\ n # 0
  OBVIOUS
<1>2. a \in S
  BY Zenon DEF OptionStates
<1>3. StepsIn(S, g)
  <2> HIDE DEF S
  <2>1. \A s \in S : OptionRound(l, s, files, lib) \in S
    BY OptionTyped, Zenon DEF S
  <2> QED BY <2>1, Zenon DEF StepsIn
<1>4. \A n \in 1..N, s \in S : g[n][s] = OptionRound(l, s, files, lib)
  BY <1>1, Zenon
<1> HIDE DEF N, S, a, g
<1>5. PICK k : Rounds(k, S, g, a, N)
  BY <1>1, <1>2, <1>3, Iterates, Zenon
<1>6. k \in [0..N -> S] /\ k[0] = a /\ \A n \in 1..N : k[n] = OptionRound(l, k[n - 1], files, lib)
  BY <1>1, <1>4, <1>5, Zenon DEF Rounds
<1>7. Rec(k)
  <2>1. \A n \in 0..N : k[n] = IF n = 0 THEN a ELSE OptionRound(l, k[n - 1], files, lib)
    <3>1. \A n \in 0..N : n = 0 \/ n \in 1..N
      BY <1>1
    <3> QED BY <1>6, <3>1, Zenon
  <2> QED BY <1>6, <2>1, Zenon
<1> DEFINE c == CHOOSE f : Rec(f)
<1>8. Rec(c)
  <2> HIDE DEF Rec
  <2> QED BY <1>7, Zenon
<1>9. Options(l, i, files, lib) = c[N].i
  BY Zenon DEF Options, N, a
<1> HIDE DEF c
<1>10. Follows(c, S, g, a, N)
  <2>1. \A n \in 0..N : c[n] = IF n = 0 THEN a ELSE OptionRound(l, c[n - 1], files, lib)
    BY <1>8, Zenon
  <2> QED BY <1>1, <1>4, <2>1, Zenon DEF Follows
<1>11. \A n \in 0..N : c[n] = k[n]
  <2>1. N \in Nat
    BY <1>1, Zenon
  <2>2. Agree(c, k, N)
    BY <2>1, <1>5, <1>10, SameRounds, Zenon
  <2> QED BY <2>2, Zenon DEF Agree
<1>12. Options(l, i, files, lib) = k[N].i
  BY <1>1, <1>9, <1>11, Zenon
<1>13. OptionRounds(k, l, i, files, lib)
  BY <1>6, <1>12, Zenon DEF OptionRounds, N, S, a
<1> QED BY <1>13, Zenon

\* The directory files2 has what the list l names of files, and so has the library.
Covers(l, files, lib, files2, lib2) == files \cap InputFiles(l) \subseteq files2 /\ lib \subseteq lib2

\* With the files and profiles of the list at hand an operand stays acceptable.
LEMMA OperandStays ==
  ASSUME NEW l \in Seq(Arg), NEW files, NEW lib, NEW files2, NEW lib2, Covers(l, files, lib, files2, lib2),
         NEW flag, NEW j \in 1..Len(l), OperandOk(flag, l[j], files, lib)
  PROVE  OperandOk(flag, l[j], files2, lib2)
<1>1. ASSUME l[j] = File(flag), flag \in files PROVE flag \in files2
  <2>1. j \in DOMAIN l
    OBVIOUS
  <2>2. l[j].t = "File" /\ l[j].v = flag
    BY <1>1 DEF File
  <2>3. flag \in InputFiles(l)
    BY <2>1, <2>2, Zenon DEF InputFiles
  <2> QED BY <1>1, <2>3, Zenon DEF Covers
<1> QED BY <1>1, Zenon DEF OperandOk, Covers

\* And so does a round.
LEMMA OptionStays ==
  ASSUME NEW l \in Seq(Arg), NEW files, NEW lib, NEW files2, NEW lib2, Covers(l, files, lib, files2, lib2),
         NEW s \in OptionStates(l)
  PROVE  \/ OptionRound(l, s, files, lib).i = 0
         \/ OptionRound(l, s, files, lib) = OptionRound(l, s, files2, lib2)
<1> DEFINE r == OptionRound(l, s, files, lib)
           i == s.i
           flag == l[i].v
           ok == i < Len(l) /\ OperandOk(flag, l[i + 1], files, lib)
           ok2 == i < Len(l) /\ OperandOk(flag, l[i + 1], files2, lib2)
<1>1. i \in Nat /\ Len(l) \in Nat /\ [s EXCEPT !.i = 0].i = 0
  <2>1. Len(l) \in Nat
    OBVIOUS
  <2> QED BY <2>1, Zenon DEF OptionStates
<1>2. CASE i = 0 \/ i > Len(l) \/ l[i].t # "Lit" \/ flag \in s.seen \/ flag \in Range(BoolFlags)
  BY <1>2, Zenon DEF OptionRound
<1>3. CASE ~(i = 0 \/ i > Len(l) \/ l[i].t # "Lit" \/ flag \in s.seen \/ flag \in Range(BoolFlags)) /\ ok
  <2>1. i + 1 \in 1..Len(l)
    <3>1. i < Len(l)
      BY <1>3, Zenon
    <3> HIDE DEF i
    <3> QED BY <1>1, <3>1
  <2>2. ok2
    <3> DEFINE x == i + 1
    <3>1. x \in 1..Len(l) /\ OperandOk(flag, l[x], files, lib) /\ i < Len(l)
      BY <1>3, <2>1, Zenon
    <3> HIDE DEF x, i, flag
    <3>2. OperandOk(flag, l[x], files2, lib2)
      BY <3>1, OperandStays, Zenon
    <3> QED BY <3>1, <3>2, Zenon DEF x
  <2> QED BY <1>3, <2>2, Zenon DEF OptionRound
<1>4. CASE ~(i = 0 \/ i > Len(l) \/ l[i].t # "Lit" \/ flag \in s.seen \/ flag \in Range(BoolFlags)) /\ ~ok
  <2>1. r = [s EXCEPT !.i = 0]
    BY <1>4, Zenon DEF OptionRound
  <2> HIDE DEF r
  <2> QED BY <1>1, <2>1, Zenon DEF r
<1> QED BY <1>2, <1>3, <1>4, Zenon

SameEnd(l, i, files, lib, files2, lib2) == Options(l, i, files2, lib2) = Options(l, i, files, lib)

\* The options end where they ended.
LEMMA OptionsStay ==
  ASSUME NEW l \in Seq(Arg), NEW i \in Nat, NEW files, NEW lib, NEW files2, NEW lib2, Covers(l, files, lib, files2, lib2),
         Options(l, i, files, lib) > 0
  PROVE  SameEnd(l, i, files, lib, files2, lib2)
<1> DEFINE N == Len(l)
<1>1. PICK k : OptionRounds(k, l, i, files, lib)
  BY OptionsIs, Zenon
<1>2. PICK m : OptionRounds(m, l, i, files2, lib2)
  BY OptionsIs, Zenon
<1>3. N \in Nat /\ N <= N
  OBVIOUS
<1>4. /\ k \in [0..N -> OptionStates(l)] /\ k[0] = [i |-> i, seen |-> {}] /\ Options(l, i, files, lib) = k[N].i
      /\ \A n \in 1..N : k[n] = OptionRound(l, k[n - 1], files, lib)
  BY <1>1, Zenon DEF OptionRounds
<1>5. /\ m[0] = [i |-> i, seen |-> {}] /\ Options(l, i, files2, lib2) = m[N].i
      /\ \A n \in 1..N : m[n] = OptionRound(l, m[n - 1], files2, lib2)
  BY <1>2, Zenon DEF OptionRounds
<1> HIDE DEF N
<1> DEFINE Q == {n \in Nat : n <= N => k[n].i = 0 \/ k[n] = m[n]}
<1>6. 0 \in Q
  BY <1>4, <1>5, Zenon
<1>7. ASSUME NEW n \in Nat, n \in Q PROVE n + 1 \in Q
  <2> SUFFICES ASSUME n + 1 <= N PROVE k[n + 1].i = 0 \/ k[n + 1] = m[n + 1]
    OBVIOUS
  <2> DEFINE x == n + 1
             s == k[n]
  <2>1. x \in 1..N /\ x - 1 = n /\ n <= N /\ n \in 0..N
    BY <1>3
  <2> HIDE DEF x
  <2>2. s \in OptionStates(l) /\ k[x] = OptionRound(l, s, files, lib) /\ m[x] = OptionRound(l, m[n], files2, lib2)
    BY <1>4, <1>5, <2>1, Zenon
  <2>3. s.i = 0 \/ s = m[n]
    BY <1>7, <2>1, Zenon
  <2> HIDE DEF s
  <2>4. CASE s.i = 0
    <3>1. OptionRound(l, s, files, lib) = s
      BY <2>4, Zenon DEF OptionRound
    <3> QED BY <2>2, <2>4, <3>1, Zenon DEF x
  <2>5. CASE s = m[n]
    <3>1. OptionRound(l, s, files, lib).i = 0 \/ OptionRound(l, s, files, lib) = OptionRound(l, s, files2, lib2)
      BY <2>2, OptionStays
    <3> QED BY <2>2, <2>5, <3>1, Zenon DEF x
  <2> QED BY <2>3, <2>4, <2>5, Zenon
<1>8. N \in Q
  <2> HIDE DEF Q
  <2> QED BY <1>3, <1>6, <1>7, Induct, Zenon
<1>9. k[N].i = 0 \/ k[N] = m[N]
  BY <1>3, <1>8, Zenon
<1>10. Options(l, i, files, lib) # 0
  OBVIOUS
<1> QED BY <1>4, <1>5, <1>9, <1>10, Zenon DEF SameEnd

\* The document of the list stays too.
LEMMA DocumentStays ==
  ASSUME NEW l \in Seq(Arg), NEW files, NEW lib, NEW files2, NEW lib2, Covers(l, files, lib, files2, lib2),
         NEW j \in 1..Len(l), NEW v, l[j] = File(v), v \in files
  PROVE  v \in files2
<1>1. j \in DOMAIN l
  OBVIOUS
<1>2. l[j].t = "File" /\ l[j].v = v
  BY DEF File
<1>3. v \in InputFiles(l)
  BY <1>1, <1>2, Zenon DEF InputFiles
<1> QED BY <1>3, Zenon DEF Covers

\* validate_job accepts again what it has accepted.
LEMMA ValidStays ==
  ASSUME NEW kind, NEW l \in Seq(Arg), NEW files, NEW lib, NEW files2, NEW lib2, Covers(l, files, lib, files2, lib2),
         ValidateJob(kind, l, files, lib)
  PROVE  ValidateJob(kind, l, files2, lib2)
<1>1. CASE kind = "verify"
  <2> DEFINE rest == IF Len(l) > 2 /\ l[2] = Lit("password") /\ l[3].t = "Lit" /\ PasswordOk(l[3].v)
                     THEN SubSeq(l, 4, Len(l)) ELSE Tail(l)
  <2>1. l # <<>> /\ l[1] = Lit("verify-password") /\ rest = <<File("in.pdf")>> /\ "in.pdf" \in files
    BY <1>1, Zenon DEF ValidateJob, ValidVerify
  <2>2. \E j \in 1..Len(l) : l[j] = File("in.pdf")
    <3> DEFINE a == File("in.pdf")
    <3>1. Len(<<a>>) = 1 /\ <<a>>[1] = a
      BY Zenon
    <3> HIDE DEF a
    <3>2. CASE rest = SubSeq(l, 4, Len(l)) /\ Len(l) > 2
      <4>1. SubSeq(l, 4, Len(l)) = <<a>>
        BY <2>1, <3>2, Zenon DEF a
      <4>2. Len(SubSeq(l, 4, Len(l))) = 1 /\ SubSeq(l, 4, Len(l))[1] = a
        BY <3>1, <4>1, Zenon
      <4> HIDE DEF rest
      <4>3. Len(l) = 4 /\ l[4] = a
        BY <3>2, <4>2
      <4> QED BY <4>3 DEF a
    <3>3. CASE rest = Tail(l)
      <4>1. Tail(l) = <<a>>
        BY <2>1, <3>3, Zenon DEF a
      <4>2. Len(Tail(l)) = 1 /\ Tail(l)[1] = a
        BY <3>1, <4>1, Zenon
      <4> HIDE DEF rest
      <4>3. Len(l) = 2 /\ l[2] = a
        BY <2>1, <4>2
      <4> QED BY <4>3 DEF a
    <3> QED BY <3>2, <3>3, Zenon
  <2>3. "in.pdf" \in files2
    BY <2>1, <2>2, DocumentStays, Zenon
  <2> QED BY <1>1, <2>1, <2>3, Zenon DEF ValidateJob, ValidVerify
<1>2. CASE kind # "verify"
  <2> DEFINE o == IF kind = "check" THEN 1 ELSE 0
             e == Options(l, o + 3, files, lib)
  <2>1. /\ kind = "check" => l # <<>> /\ l[1] = Lit("check")
        /\ Len(l) > o + 2 /\ l[o + 1] = Lit("level") /\ l[o + 2].t = "Lit" /\ LevelOk(kind, l[o + 2].v)
        /\ e > 0 /\ e <= Len(l)
        /\ l[e] \in {File("in.pdf"), File("in.jpg")} /\ l[e].v \in files
        /\ SubSeq(l, e + 1, Len(l)) = IF kind = "convert" THEN <<Out>> ELSE <<>>
    BY <1>2, Zenon DEF ValidateJob
  <2>2. o + 3 \in Nat
    OBVIOUS
  <2> DEFINE x == o + 3
  <2>3. Options(l, o + 3, files2, lib2) = e
    <3> HIDE DEF o
    <3>1. x \in Nat /\ Options(l, x, files, lib) > 0
      BY <2>1, <2>2, Zenon
    <3> HIDE DEF x
    <3>2. SameEnd(l, x, files, lib, files2, lib2)
      BY <3>1, OptionsStay, Zenon
    <3> QED BY <3>2, Zenon DEF SameEnd, x
  <2>4. e \in Nat
    <3> HIDE DEF o
    <3>1. PICK k : OptionRounds(k, l, x, files, lib)
      BY <2>2, OptionsIs, Zenon
    <3>2. Len(l) \in 0..Len(l)
      OBVIOUS
    <3> QED BY <3>1, <3>2, Zenon DEF OptionRounds, OptionStates
  <2>5. e \in 1..Len(l)
    <3>1. e \in Nat /\ e > 0 /\ e <= Len(l)
      BY <2>1, <2>4, Zenon
    <3> HIDE DEF e
    <3> QED BY <3>1
  <2>6. l[e] = File(l[e].v)
    <3> DEFINE a == l[e]
    <3>1. a \in {File("in.pdf"), File("in.jpg")}
      BY <2>1, Zenon
    <3> HIDE DEF a
    <3>2. a = File(a.v)
      BY <3>1 DEF File
    <3> QED BY <3>2, Zenon DEF a
  <2>7. l[e].v \in files2
    <3> HIDE DEF e
    <3> QED BY <2>1, <2>5, <2>6, DocumentStays, Zenon
  <2> QED BY <1>2, <2>1, <2>3, <2>7, Zenon DEF ValidateJob
<1> QED BY <1>1, <1>2, Zenon

-----------------------------------------------------------------------------
(* The request on its way *)

\* What main may have made of the list.
ReadCli(c, r) == c = WantedCli(r) \/ (c.exit \in {1, 64} /\ r.kind # "verify")
Ended(r, c, x) ==
  \/ ReadCli(c, r) /\ x \in Endings(c) \cup KilledEndings
  \/ c = NoCli /\ x = Result(64, FALSE, FALSE)

\* What is known of request r at stage s, with its list l, what main made of
\* it, c, the result x and the answer a.
JobAt(r, s, l, c, x, a) ==
  /\ r \in Arriving
  /\ s = "arrived" => l = <<>> /\ c = NoCli /\ x = NoRun /\ a = NoAnswer
  /\ s \in {"accepted", "queued"} => Fit(r) /\ l = JobArgs(r) /\ c = NoCli /\ x = NoRun /\ a = NoAnswer
  /\ s = "starts" => Fit(r) /\ ReadCli(c, r) /\ x = NoRun /\ a = NoAnswer
  /\ s = "ran" => Fit(r) /\ Ended(r, c, x) /\ a = NoAnswer
  /\ s = "answered" =>
       \/ a.status \in {400, 500} /\ c = NoCli /\ x = NoRun
       \/ Fit(r) /\ Ended(r, c, x) /\ a = Respond(r.kind, x, r.q["report"] = "json")
  /\ s \in {"arrived", "accepted", "queued", "starts", "ran", "answered"}
JobInv == JobAt(req, stage, args, cli, run, answer)

\* With the profiles of the API's machine on the one that runs the job.
RightCli(c, r) == c = WantedCli(r) \/ (c.exit \in {1, 64} /\ OutOfRange(r))
SameLibraryInv ==
  /\ stage \in {"accepted", "queued"} => Needs(req) \subseteq dir /\ ValidateJob(req.kind, args, dir, FarLibrary)
  /\ stage \in {"starts", "ran"} => RightCli(cli, req)
  /\ stage = "answered" =>
       \/ cli = NoCli /\ run = NoRun /\ (answer.status = 500 => args = <<>>)
       \/ RightCli(cli, req) /\ run # NoRun

\* What main makes of the list of a request.
LEMMA CliIs ==
  ASSUME NEW r \in Arriving, Fit(r), NEW files, NEW lib
  PROVE  ReadCli(Loop(JobArgs(r), files, lib), r)
<1>1. Gone(JobArgs(r), files, lib, r) \/ Makes(JobArgs(r), files, lib, WantedCli(r))
  BY ReadRequest, Zenon DEF ReadsWell
<1> QED BY <1>1, VerifyGoesOn, Zenon DEF Gone, Makes, ReadCli

\* And with its files and its profile at hand.
LEMMA CliIsRight ==
  ASSUME NEW r \in Arriving, Fit(r), NEW files, NEW lib, r.kind = "verify" \/ Supplied(r, files, lib)
  PROVE  RightCli(Loop(JobArgs(r), files, lib), r)
<1>1. Gone(JobArgs(r), files, lib, r) \/ Makes(JobArgs(r), files, lib, WantedCli(r))
  BY ReadRequest, Zenon DEF ReadsWell
<1> QED BY <1>1, VerifyGoesOn, StopsAtNumbers, Zenon DEF Gone, Makes, RightCli

EndsAs(r, c, x) ==
  \/ x \in KilledEndings
  \/ x \in {Result(1, FALSE, FALSE), Result(64, FALSE, FALSE)} /\ r.kind # "verify"
  \/ Mode(c) = r.kind /\ r.kind = "verify"
       /\ x \in {Result(0, TRUE, FALSE), Result(1, TRUE, FALSE), Result(2, FALSE, FALSE)}
  \/ Mode(c) = r.kind /\ r.kind = "check"
       /\ x \in {Result(0, TRUE, FALSE), Result(1, TRUE, FALSE), Result(2, TRUE, FALSE), Result(2, FALSE, FALSE)}
  \/ Mode(c) = r.kind /\ r.kind = "convert"
       /\ x \in {Result(0, TRUE, TRUE), Result(2, TRUE, FALSE), Result(2, FALSE, FALSE)}

\* How main may end, by what it has read.
LEMMA EndingsAre ==
  ASSUME NEW r \in Arriving, Fit(r), NEW c, ReadCli(c, r), NEW x \in Endings(c) \cup KilledEndings
  PROVE  EndsAs(r, c, x)
<1> USE DEF EndsAs
<1>1. CASE x \in KilledEndings
  BY <1>1, Zenon
<1>2. CASE x \in Endings(c) /\ c = WantedCli(r)
  <2>1. Mode(c) = r.kind
    BY <1>2, WantedMode, Zenon
  <2>2. r.kind \in {"convert", "check", "verify"}
    BY RequestIs, Zenon
  <2>3. CASE r.kind = "verify"
    <3>1. Mode(c) = "verify"
      BY <2>1, <2>3, Zenon
    <3>2. Endings(c) = {Result(0, TRUE, FALSE), Result(1, TRUE, FALSE), Result(2, FALSE, FALSE)}
      BY <3>1, Zenon DEF Endings
    <3> QED BY <1>2, <2>1, <2>3, <3>2, Zenon
  <2>4. CASE r.kind = "check"
    <3>1. Mode(c) = "check"
      BY <2>1, <2>4, Zenon
    <3>2. Endings(c) = {Result(0, TRUE, FALSE), Result(1, TRUE, FALSE), Result(2, TRUE, FALSE), Result(2, FALSE, FALSE)}
      BY <3>1, Zenon DEF Endings
    <3> QED BY <1>2, <2>1, <2>4, <3>2, Zenon
  <2>5. CASE r.kind = "convert"
    <3>1. Mode(c) = "convert"
      BY <2>1, <2>5, Zenon
    <3>2. Endings(c) = {Result(0, TRUE, TRUE), Result(2, TRUE, FALSE), Result(2, FALSE, FALSE)}
      BY <3>1, Zenon DEF Endings
    <3> QED BY <1>2, <2>1, <2>5, <3>2, Zenon
  <2> QED BY <2>2, <2>3, <2>4, <2>5, Zenon
<1>3. CASE x \in Endings(c) /\ c.exit \in {1, 64} /\ r.kind # "verify"
  <2>1. c.exit # Running
    BY <1>3 DEF Running
  <2>2. Mode(c) = "left"
    BY <2>1, Zenon DEF Mode
  <2>3. Endings(c) = {Result(c.exit, FALSE, FALSE)}
    BY <2>2, Zenon DEF Endings
  <2> QED BY <1>3, <2>3, Zenon
<1> QED BY <1>1, <1>2, <1>3, Zenon DEF ReadCli

\* None of them is the one before the engine has run.
LEMMA EndingsHappen ==
  ASSUME NEW r \in Arriving, Fit(r), NEW c, ReadCli(c, r), NEW x \in Endings(c) \cup KilledEndings
  PROVE  x # NoRun
<1> DEFINE R == {Result(1, FALSE, FALSE), Result(64, FALSE, FALSE), Result(0, TRUE, FALSE), Result(1, TRUE, FALSE),
                  Result(2, FALSE, FALSE), Result(2, TRUE, FALSE), Result(0, TRUE, TRUE)}
<1>1. x \in KilledEndings \/ x \in R
  <2>1. {Result(0, TRUE, FALSE), Result(1, TRUE, FALSE), Result(2, FALSE, FALSE)} \subseteq R
    BY Zenon
  <2>2. {Result(0, TRUE, FALSE), Result(1, TRUE, FALSE), Result(2, TRUE, FALSE), Result(2, FALSE, FALSE)} \subseteq R
    BY Zenon
  <2>3. {Result(0, TRUE, TRUE), Result(2, TRUE, FALSE), Result(2, FALSE, FALSE)} \subseteq R
    BY Zenon
  <2>4. {Result(1, FALSE, FALSE), Result(64, FALSE, FALSE)} \subseteq R
    BY Zenon
  <2> HIDE DEF R
  <2>5. EndsAs(r, c, x)
    BY EndingsAre, Zenon
  <2> QED BY <2>1, <2>2, <2>3, <2>4, <2>5, Zenon DEF EndsAs
<1>2. \A a, b, d : Result(a, b, d).code = a
  BY Zenon DEF Result
<1>3. TimedOut.code = -2
  BY Zenon DEF TimedOut
<1>4. x.code \in {0, 1, 2, 3, 64, -2}
  <2>1. CASE x \in KilledEndings
    BY <1>3, <2>1 DEF KilledEndings, Result
  <2>2. CASE x \in R
    BY <2>2 DEF Result
  <2> QED BY <1>1, <2>1, <2>2, Zenon
<1>5. NoRun.code = -3
  BY <1>2, Zenon DEF NoRun
<1> QED BY <1>4, <1>5

\* An answer of 200 is one to what was asked for.
LEMMA RespondIs ==
  ASSUME NEW r \in Arriving, Fit(r), NEW c, ReadCli(c, r), NEW x \in Endings(c) \cup KilledEndings, NEW j,
         Respond(r.kind, x, j).status = 200
  PROVE  Mode(c) = r.kind /\ x.report /\ x.pdf = (r.kind = "convert")
<1>1. r.kind \in {"convert", "check", "verify"}
  BY RequestIs, Zenon
<1> DEFINE Good == Mode(c) = r.kind /\ x.report /\ x.pdf = (r.kind = "convert")
<1>2. \/ x \in KilledEndings
      \/ x \in {Result(1, FALSE, FALSE), Result(64, FALSE, FALSE)} /\ r.kind # "verify"
      \/ Mode(c) = r.kind /\ r.kind = "verify"
           /\ x \in {Result(0, TRUE, FALSE), Result(1, TRUE, FALSE), Result(2, FALSE, FALSE)}
      \/ Mode(c) = r.kind /\ r.kind = "check"
           /\ x \in {Result(0, TRUE, FALSE), Result(1, TRUE, FALSE), Result(2, TRUE, FALSE), Result(2, FALSE, FALSE)}
      \/ Mode(c) = r.kind /\ r.kind = "convert"
           /\ x \in {Result(0, TRUE, TRUE), Result(2, TRUE, FALSE), Result(2, FALSE, FALSE)}
  <2>1. EndsAs(r, c, x)
    BY EndingsAre, Zenon
  <2> QED BY <2>1, Zenon DEF EndsAs
<1> USE DEF Respond, Outcome, EngineFailure, Json
<1>3. CASE x \in KilledEndings
  BY <1>1, <1>3 DEF KilledEndings, Result, TimedOut
<1>4. CASE x \in {Result(1, FALSE, FALSE), Result(64, FALSE, FALSE)} /\ r.kind # "verify"
  BY <1>1, <1>4 DEF Result
<1>5. CASE Mode(c) = r.kind /\ r.kind = "verify"
           /\ x \in {Result(0, TRUE, FALSE), Result(1, TRUE, FALSE), Result(2, FALSE, FALSE)}
  <2>1. x.report /\ x.pdf = FALSE
    BY <1>5 DEF Result
  <2> QED BY <1>5, <2>1, Zenon
<1>6. CASE Mode(c) = r.kind /\ r.kind = "check"
           /\ x \in {Result(0, TRUE, FALSE), Result(1, TRUE, FALSE), Result(2, TRUE, FALSE), Result(2, FALSE, FALSE)}
  <2>1. x.report /\ x.pdf = FALSE
    BY <1>6 DEF Result
  <2> QED BY <1>6, <2>1, Zenon
<1>7. CASE Mode(c) = r.kind /\ r.kind = "convert"
           /\ x \in {Result(0, TRUE, TRUE), Result(2, TRUE, FALSE), Result(2, FALSE, FALSE)}
  <2>1. x.report /\ x.pdf = TRUE
    BY <1>7 DEF Result
  <2> QED BY <1>7, <2>1, Zenon
<1> HIDE DEF Good
<1> QED BY <1>2, <1>3, <1>4, <1>5, <1>6, <1>7, Zenon DEF Good

\* What main has read of the list shows that it has run.
LEMMA CliRan == ASSUME NEW c, NEW r, ReadCli(c, r) \/ RightCli(c, r) PROVE c # NoCli
<1>1. NoCli.pos = <<>> /\ NoCli.exit = Running /\ 1 # Running /\ 64 # Running
  BY DEF NoCli, Running
<1>2. WantedCli(r).pos # <<>>
  <2>1. \A a, b : <<a>> # <<>> /\ <<a, b>> # <<>>
    BY Zenon
  <2>2. WantedCli(r).pos = WantedPaths(r)
    BY Zenon DEF WantedCli
  <2> QED BY <2>1, <2>2, Zenon DEF WantedPaths
<1> QED BY <1>1, <1>2, Zenon DEF ReadCli, RightCli

\* The request arrives.
LEMMA JobInvInit == JobInit => JobInv
BY Zenon DEF JobInit, JobInv, JobAt

\* Every step keeps what is known of the request, whatever profiles the other
\* machine has.
LEMMA JobInvNext == JobInv /\ [JobNext]_jobVars => JobInv'
<1> SUFFICES ASSUME JobInv, [JobNext]_jobVars PROVE JobInv'
  BY Zenon
<1>1. CASE Reject
  <2>1. Json(400).status = 400
    BY Zenon DEF Json
  <2> QED BY <1>1, <2>1, Zenon DEF JobInv, JobAt, Reject, Reply
<1>2. CASE DiskFails
  <2>1. Json(500).status = 500
    BY Zenon DEF Json
  <2> QED BY <1>2, <2>1, Zenon DEF JobInv, JobAt, DiskFails, Reply
<1>3. CASE Prepare
  <2>1. Json(400).status = 400
    BY Zenon DEF Json
  <2>2. Fit(req)
    BY <1>3, Zenon DEF Prepare, Fit
  <2> QED BY <1>3, <2>1, <2>2 DEF JobInv, JobAt, Prepare, Reply
<1>4. CASE RunHere
  <2>1. req \in Arriving /\ Fit(req) /\ args = JobArgs(req) /\ run = NoRun /\ answer = NoAnswer
    BY <1>4, Zenon DEF JobInv, JobAt, RunHere
  <2>2. ReadCli(Loop(args, dir, Library), req)
    BY <2>1, CliIs, Zenon
  <2> QED BY <1>4, <2>1, <2>2, Zenon DEF JobInv, JobAt, RunHere
<1>5. CASE Enqueue
  BY <1>5, Zenon DEF JobInv, JobAt, Enqueue
<1>6. CASE SubmitFar
  <2>1. Json(500).status = 500
    BY Zenon DEF Json
  <2>2. /\ req \in Arriving /\ Fit(req) /\ args = JobArgs(req) /\ cli = NoCli /\ run = NoRun /\ answer = NoAnswer
        /\ req' = req /\ args' = args /\ cli' = cli /\ run' = run
    BY <1>6, Zenon DEF JobInv, JobAt, SubmitFar
  <2>3. (stage' = "queued" /\ answer' = answer) \/ (stage' = "answered" /\ answer' = Json(500))
    BY <1>6, Zenon DEF SubmitFar, Reply
  <2>4. JobAt(req, stage', args, cli, run, answer')
    BY <2>1, <2>2, <2>3 DEF JobAt
  <2> QED BY <2>2, <2>4, Zenon DEF JobInv
<1>7. CASE WorkerStarts
  <2>1. req \in Arriving /\ Fit(req) /\ args = JobArgs(req) /\ cli = NoCli /\ run = NoRun /\ answer = NoAnswer
    BY <1>7, Zenon DEF JobInv, JobAt, WorkerStarts
  <2>2. ReadCli(Loop(args, dir', FarLibrary), req)
    BY <2>1, CliIs, Zenon
  <2> QED BY <1>7, <2>1, <2>2, Zenon DEF JobInv, JobAt, WorkerStarts, Ended
<1>8. CASE EngineEnds
  BY <1>8, Zenon DEF JobInv, JobAt, EngineEnds, Ended
<1>9. CASE Answer
  BY <1>9, Zenon DEF JobInv, JobAt, Answer, Reply, Ended
<1>10. CASE UNCHANGED jobVars
  <2>1. req' = req /\ stage' = stage /\ args' = args /\ cli' = cli /\ run' = run /\ answer' = answer
    BY <1>10, Zenon DEF jobVars
  <2> QED BY <2>1, Zenon DEF JobInv
<1> QED BY <1>1, <1>2, <1>3, <1>4, <1>5, <1>6, <1>7, <1>8, <1>9, <1>10, Zenon DEF JobNext, Done

\* Hence it is always known.
THEOREM JobKnown == JobSpec => []JobInv
BY JobInvInit, JobInvNext, PTL DEF JobSpec

\* build_args and main's option loop agree: on every machine, and whatever its
\* profiles, the engine reads from the list the options, the document and the
\* output of the request, or leaves main before it has read all of it.
THEOREM EngineReadsRequest == JobSpec => []EngineSeesRequest
<1>1. JobInv => EngineSeesRequest
  <2> SUFFICES ASSUME JobInv, Started, cli.exit = Running
               PROVE  /\ cli.opts = Wanted(req)
                      /\ cli.pos = (IF req.kind = "verify" THEN <<File("in.pdf")>> ELSE <<File(req.body)>>)
                                     \o (IF req.kind = "convert" THEN <<Out>> ELSE <<>>)
    BY Zenon DEF EngineSeesRequest
  <2>1. ReadCli(cli, req) /\ req \in Arriving /\ Fit(req)
    BY Zenon DEF JobInv, JobAt, Started, Ended
  <2>2. 1 # Running /\ 64 # Running
    BY DEF Running
  <2>3. cli = WantedCli(req)
    BY <2>1, <2>2, Zenon DEF ReadCli
  <2>4. cli.opts = Wanted(req) /\ cli.pos = WantedPaths(req)
    BY <2>3 DEF WantedCli
  <2> DEFINE a == Document(req)
             o == Out
  <2>5. a \in Arg /\ o \in Arg
    <3>1. \E v \in {"in.pdf", "in.jpg"} : a = File(v)
      BY <2>1, Zenon DEF Document, Fit
    <3> QED BY <3>1, ArgsAre, Zenon
  <2>6. (IF req.kind = "verify" THEN <<File("in.pdf")>> ELSE <<File(req.body)>>) = <<a>>
    BY Zenon DEF Document
  <2> HIDE DEF a, o
  <2>7. <<a>> \o <<o>> = <<a, o>>
    BY <2>5, TwoEntries, Zenon
  <2>8. <<a>> \o <<>> = <<a>>
    BY <2>5
  <2>9. WantedPaths(req) = <<a>> \o (IF req.kind = "convert" THEN <<o>> ELSE <<>>)
    BY <2>7, <2>8, Zenon DEF WantedPaths, a, o
  <2> QED BY <2>4, <2>6, <2>9, Zenon DEF o
<1> QED BY <1>1, JobKnown, PTL

\* outcome, engine_failure and respond answer 200 only to an engine that did
\* what was asked for and reported on it, with a PDF exactly for a conversion.
THEOREM VerdictsAreAnswered == JobSpec => []AnswerFromVerdict
<1>1. JobInv => AnswerFromVerdict
  <2> SUFFICES ASSUME JobInv, answer.status = 200
               PROVE  Mode(cli) = req.kind /\ run.report /\ run.pdf = (req.kind = "convert")
    BY Zenon DEF AnswerFromVerdict
  <2>1. NoAnswer.status # 200 /\ 400 # 200 /\ 500 # 200
    BY DEF NoAnswer
  <2>2. stage = "answered"
    BY <2>1 DEF JobInv, JobAt
  <2>3. req \in Arriving /\ Fit(req) /\ Ended(req, cli, run) /\ answer = Respond(req.kind, run, req.q["report"] = "json")
    BY <2>1, <2>2 DEF JobInv, JobAt
  <2>4. CASE cli = NoCli /\ run = Result(64, FALSE, FALSE)
    <3> DEFINE x == Result(64, FALSE, FALSE)
    <3>1. x.code = 64 /\ x.timedOut = FALSE /\ x.report = FALSE /\ 64 # 0 /\ 64 # 1 /\ 64 # 3 /\ 64 # 2
      BY DEF Result
    <3> HIDE DEF x
    <3>2. EngineFailure(x) = Json(400)
      BY <3>1 DEF EngineFailure
    <3>3. Outcome(req.kind, x) = EngineFailure(x)
      BY <3>1 DEF Outcome
    <3>4. Json(400).body # "pdf" /\ Json(400).status = 400
      BY Zenon DEF Json
    <3> DEFINE j == req.q["report"] = "json"
    <3>5. answer = Respond(req.kind, x, j)
      BY <2>3, <2>4, Zenon DEF x
    <3> HIDE DEF j
    <3>6. answer = Json(400)
      BY <3>2, <3>3, <3>4, <3>5 DEF Respond
    <3> QED BY <2>1, <3>4, <3>6
  <2>5. CASE ReadCli(cli, req) /\ run \in Endings(cli) \cup KilledEndings
    <3> DEFINE j == req.q["report"] = "json"
    <3>1. Respond(req.kind, run, j).status = 200
      BY <2>3, Zenon
    <3> HIDE DEF j
    <3> QED BY <2>3, <2>5, <3>1, RespondIs
  <2> QED BY <2>3, <2>4, <2>5, Zenon DEF Ended
<1> QED BY <1>1, JobKnown, PTL

\* The directory of a request has its files, and a profile that build_args let
\* pass is one of the library.
LEMMA NeedsSupply ==
  ASSUME NEW r, Fit(r), NEW files, NEW lib, Needs(r) \subseteq files, Library \subseteq lib
  PROVE  r.kind = "verify" \/ Supplied(r, files, lib)
<1> SUFFICES ASSUME r.kind # "verify" PROVE Supplied(r, files, lib)
  BY Zenon
<1>1. Stored(r) \subseteq files /\ BadArgs(r) = "none"
  BY Zenon DEF Needs, Fit
<1>2. r.q["profile"] \in {Absent, ""} \cup Library
  BY <1>1, Zenon DEF BadArgs
<1> QED BY <1>1, <1>2, Zenon DEF Supplied

\* The input files of a list are enough for whoever gets it.
LEMMA TravelsWell ==
  ASSUME NEW r \in Arriving, Fit(r), NEW files, Needs(r) \subseteq files, NEW lib, ValidateJob(r.kind, JobArgs(r), files, lib)
  PROVE  /\ Needs(r) \subseteq files \cap InputFiles(JobArgs(r))
         /\ ValidateJob(r.kind, JobArgs(r), files \cap InputFiles(JobArgs(r)), lib)
<1> DEFINE l == JobArgs(r)
           g == files \cap InputFiles(l)
<1>1. l \in Seq(Arg) /\ Needs(r) \subseteq InputFiles(l)
  BY JobCut, Carries, Zenon
<1>2. Covers(l, files, lib, g, lib)
  BY Zenon DEF Covers
<1> HIDE DEF l
<1>3. ValidateJob(r.kind, l, files, lib)
  BY Zenon DEF l
<1> HIDE DEF g
<1>4. ValidateJob(r.kind, l, g, lib)
  BY <1>1, <1>2, <1>3, ValidStays, Zenon
<1> QED BY <1>1, <1>4, Zenon DEF l, g

\* With the profiles of the API's machine on the one that runs the job, what is
\* accepted stays so.
LEMMA SameLibraryNext ==
  ASSUME Library \subseteq FarLibrary
  PROVE  JobInv /\ JobInv' /\ SameLibraryInv /\ [JobNext]_jobVars => SameLibraryInv'
<1> SUFFICES ASSUME JobInv, JobInv', SameLibraryInv, [JobNext]_jobVars PROVE SameLibraryInv'
  BY Zenon
<1>1. CASE Reject
  <2>1. Json(400).status # 500
    BY DEF Json
  <2>2. stage' = "answered" /\ cli' = NoCli /\ run' = NoRun /\ answer' = Json(400)
    BY <1>1, Zenon DEF JobInv, JobAt, Reject, Reply
  <2> QED BY <2>1, <2>2, Zenon DEF SameLibraryInv
<1>2. CASE DiskFails
  <2>1. stage' = "answered" /\ cli' = NoCli /\ run' = NoRun /\ args' = <<>>
    BY <1>2 DEF JobInv, JobAt, DiskFails, Reply
  <2> QED BY <2>1, Zenon DEF SameLibraryInv
<1>3. CASE Prepare
  <2> DEFINE ok == ValidateJob(req.kind, args', dir', Library)
  <2>1. req \in Arriving /\ Fit(req) /\ args' = JobArgs(req) /\ dir' = Needs(req) /\ req' = req
        /\ cli' = NoCli /\ run' = NoRun
        /\ IF ok THEN stage' = "accepted" /\ answer' = answer ELSE stage' = "answered" /\ answer' = Json(400)
    BY <1>3, Zenon DEF JobInv, JobAt, Prepare, Reply, Fit, Needs
  <2>2. CASE ok
    <3>1. args' \in Seq(Arg)
      BY <2>1, JobCut, Zenon
    <3>2. Covers(args', dir', Library, dir', FarLibrary)
      BY Zenon DEF Covers
    <3>3. ValidateJob(req.kind, args', dir', FarLibrary)
      BY <2>2, <3>1, <3>2, ValidStays, Zenon
    <3>4. stage' = "accepted"
      BY <2>1, <2>2, Zenon
    <3> QED BY <2>1, <3>3, <3>4, Zenon DEF SameLibraryInv
  <2>3. CASE ~ok
    <3>1. Json(400).status # 500
      BY DEF Json
    <3>2. stage' = "answered" /\ answer' = Json(400)
      BY <2>1, <2>3, Zenon
    <3> QED BY <2>1, <3>1, <3>2, Zenon DEF SameLibraryInv
  <2> QED BY <2>2, <2>3, Zenon
<1>4. CASE RunHere
  <2>1. /\ req \in Arriving /\ Fit(req) /\ args = JobArgs(req) /\ Needs(req) \subseteq dir
        /\ stage' = "starts" /\ req' = req /\ cli' = Loop(args, dir, Library)
    BY <1>4, Zenon DEF JobInv, JobAt, SameLibraryInv, RunHere
  <2>2. req.kind = "verify" \/ Supplied(req, dir, Library)
    BY <2>1, NeedsSupply, Zenon
  <2>3. RightCli(Loop(args, dir, Library), req)
    BY <2>1, <2>2, CliIsRight, Zenon
  <2> QED BY <2>1, <2>3, Zenon DEF SameLibraryInv
<1>5. CASE Enqueue
  <2>1. Needs(req) \subseteq dir /\ ValidateJob(req.kind, args, dir, FarLibrary)
        /\ stage' = "queued" /\ req' = req /\ args' = args /\ dir' = dir
    BY <1>5, Zenon DEF SameLibraryInv, Enqueue
  <2> QED BY <2>1, Zenon DEF SameLibraryInv
<1>6. CASE SubmitFar
  <2>1. /\ req \in Arriving /\ Fit(req) /\ args = JobArgs(req) /\ Needs(req) \subseteq dir
        /\ ValidateJob(req.kind, args, dir, FarLibrary) /\ dir' = dir \cap InputFiles(args) /\ req' = req /\ args' = args
        /\ IF ValidateJob(req.kind, args, dir', FarLibrary)
           THEN stage' = "queued" /\ answer' = answer ELSE stage' = "answered" /\ answer' = Json(500)
    BY <1>6, Zenon DEF JobInv, JobAt, SameLibraryInv, SubmitFar, Reply
  <2>2. Needs(req) \subseteq dir' /\ ValidateJob(req.kind, args, dir', FarLibrary)
    BY <2>1, TravelsWell, Zenon
  <2>3. stage' = "queued"
    BY <2>1, <2>2, Zenon
  <2> QED BY <2>1, <2>2, <2>3, Zenon DEF SameLibraryInv
<1>7. CASE WorkerStarts
  <2>1. /\ req \in Arriving /\ Fit(req) /\ args = JobArgs(req) /\ Needs(req) \subseteq dir
        /\ ValidateJob(req.kind, args, dir, FarLibrary) /\ dir' = dir \cap InputFiles(args) /\ req' = req
        /\ IF ValidateJob(req.kind, args, dir', FarLibrary)
           THEN stage' = "starts" /\ cli' = Loop(args, dir', FarLibrary) /\ UNCHANGED run
           ELSE stage' = "ran" /\ run' = Result(64, FALSE, FALSE) /\ UNCHANGED cli
    BY <1>7, Zenon DEF JobInv, JobAt, SameLibraryInv, WorkerStarts
  <2>2. Needs(req) \subseteq dir' /\ ValidateJob(req.kind, args, dir', FarLibrary)
    BY <2>1, TravelsWell, Zenon
  <2>3. stage' = "starts" /\ cli' = Loop(args, dir', FarLibrary)
    BY <2>1, <2>2, Zenon
  <2>4. req.kind = "verify" \/ Supplied(req, dir', FarLibrary)
    BY <2>1, <2>2, NeedsSupply, Zenon
  <2>5. RightCli(Loop(args, dir', FarLibrary), req)
    BY <2>1, <2>4, CliIsRight, Zenon
  <2> QED BY <2>1, <2>3, <2>5, Zenon DEF SameLibraryInv
<1>8. CASE EngineEnds
  <2>1. RightCli(cli, req) /\ stage' = "ran" /\ req' = req /\ cli' = cli
    BY <1>8, Zenon DEF SameLibraryInv, EngineEnds
  <2> QED BY <2>1, Zenon DEF SameLibraryInv
<1>9. CASE Answer
  <2>1. RightCli(cli, req) /\ stage' = "answered" /\ req' = req /\ cli' = cli /\ run' = run
        /\ req \in Arriving /\ Fit(req) /\ Ended(req, cli, run)
    BY <1>9, Zenon DEF JobInv, JobAt, SameLibraryInv, Answer, Reply
  <2>2. cli # NoCli
    BY <2>1, CliRan, Zenon
  <2>3. run # NoRun
    BY <2>1, <2>2, EndingsHappen, Zenon DEF Ended
  <2> QED BY <2>1, <2>3, Zenon DEF SameLibraryInv
<1>10. CASE UNCHANGED jobVars
  <2>1. req' = req /\ stage' = stage /\ args' = args /\ dir' = dir /\ cli' = cli /\ run' = run /\ answer' = answer
    BY <1>10, Zenon DEF jobVars
  <2> QED BY <2>1, Zenon DEF SameLibraryInv
<1> QED BY <1>1, <1>2, <1>3, <1>4, <1>5, <1>6, <1>7, <1>8, <1>9, <1>10, Zenon DEF JobNext, Done

\* A list that the API accepted is accepted by the coordinator and by the
\* worker with the files that travelled, and main starts what was asked for or
\* refuses a number out of its range, when the machine that runs the job has
\* the profiles of the API's.
THEOREM AcceptedStaysAccepted ==
  ASSUME Library \subseteq FarLibrary
  PROVE  JobSpec => []AcceptedEverywhere
<1>1. JobInit => SameLibraryInv
  BY Zenon DEF JobInit, SameLibraryInv
<1>2. JobInv /\ JobInv' /\ SameLibraryInv /\ [JobNext]_jobVars => SameLibraryInv'
  BY SameLibraryNext, Zenon
<1>3. JobInv /\ SameLibraryInv => AcceptedEverywhere
  <2> SUFFICES ASSUME JobInv, SameLibraryInv PROVE AcceptedEverywhere
    OBVIOUS
  <2>1. ASSUME args # <<>>, answer.status = 500 PROVE run # NoRun
    <3>1. NoAnswer.status # 500
      BY DEF NoAnswer
    <3>2. stage = "answered"
      BY <2>1, <3>1, Zenon DEF JobInv, JobAt
    <3> QED BY <2>1, <3>2, Zenon DEF SameLibraryInv
  <2>2. ASSUME stage = "ran" PROVE cli # NoCli
    BY <2>2, CliRan, Zenon DEF SameLibraryInv
  <2>3. ASSUME Started PROVE Mode(cli) = req.kind \/ OutOfRange(req)
    <3>1. RightCli(cli, req)
      BY <2>3, Zenon DEF SameLibraryInv, Started
    <3>2. req \in Arriving /\ Fit(req)
      BY <2>3, Zenon DEF JobInv, JobAt, Started
    <3> QED BY <3>1, <3>2, WantedMode, Zenon DEF RightCli
  <2> QED BY <2>1, <2>2, <2>3, Zenon DEF AcceptedEverywhere
<1> QED BY <1>1, <1>2, <1>3, JobKnown, PTL DEF JobSpec
=============================================================================
