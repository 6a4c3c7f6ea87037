---------------------- MODULE StoreTransactionProofs ----------------------
(***************************************************************************)
(* The transactions over one store root, for any layers, columns, zooms,   *)
(* processes, and numbers of runs and kills: locks and fences have one     *)
(* owner, damage is under a marker or owed, and a pack captures none.      *)
(*                                                                         *)
(* The argument has two halves.  Of the programs, by their text alone: what*)
(* is held, fenced and passed at each of their places (ProgramFits).  Of   *)
(* the state: a process holds what its program says, owns the fences it is *)
(* in, and what it has passed in a fence is derived but for what others    *)
(* changed and answer for (TransactionInv).                                *)
(***************************************************************************)
EXTENDS StoreTransactions, SequenceTheorems, WellFoundedInduction, TLAPS

-----------------------------------------------------------------------------
(* Concatenations.                                                         *)

Precedes == {ss \in Nat \X Nat : ss[1] < ss[2]}

LEMMA PrecedesIsWellFounded == IsWellFoundedOn(Precedes, Nat)
BY NatLessThanWellFounded, Zenon DEF OpToRel, Precedes

LEMMA LeastNatural ==
    ASSUME NEW T, T \subseteq Nat, T # {}
    PROVE  \E x \in T : \A y \in T : x <= y
<1>1. PICK x \in T : \A y \in T : ~(<<y, x>> \in Precedes)
  BY PrecedesIsWellFounded, WFMin
<1>2. \A y \in T : ~(y < x)
  BY <1>1 DEF Precedes
<1> QED BY <1>2

LEMMA Climbs ==
    ASSUME NEW lo \in Nat, NEW hi \in Nat, NEW T, lo \in T,
           \A k \in (lo + 1) .. hi : k - 1 \in T => k \in T
    PROVE  \A k \in lo .. hi : k \in T
<1> DEFINE Bad == {k \in lo .. hi : k \notin T}
<1> SUFFICES ASSUME Bad # {} PROVE FALSE
  OBVIOUS
<1>1. Bad \subseteq Nat
  OBVIOUS
<1>2. \E x \in Bad : \A y \in Bad : x <= y
  <2> HIDE DEF Bad
  <2> QED BY <1>1, LeastNatural
<1>3. PICK k \in Bad : \A y \in Bad : k <= y
  BY <1>2
<1>4. k \in (lo + 1) .. hi
  BY <1>3
<1>5. k - 1 \notin Bad /\ k - 1 \in lo .. hi
  BY <1>3, <1>4
<1> QED BY <1>3, <1>4, <1>5

\* f[i] is the concatenation of the first i sequences.
Joins(f, seqs, n) ==
    /\ DOMAIN f = 1 .. n
    /\ \A i \in 1 .. n : f[i] = IF i = 1 THEN seqs[i] ELSE f[i - 1] \o seqs[i]

\* The same, one step at a time.
Steps(f, seqs, n) ==
    /\ n >= 1 => f[1] = seqs[1]
    /\ \A k \in 2 .. n : f[k] = f[k - 1] \o seqs[k]

LEMMA JoinsSteps ==
    ASSUME NEW f, NEW seqs, NEW n \in Nat, Joins(f, seqs, n)
    PROVE  Steps(f, seqs, n)
<1>1. \A i \in 1 .. n : f[i] = IF i = 1 THEN seqs[i] ELSE f[i - 1] \o seqs[i]
  BY DEF Joins
<1>2. n >= 1 => 1 \in 1 .. n
  OBVIOUS
<1>3. \A k \in 2 .. n : k \in 1 .. n /\ k # 1
  OBVIOUS
<1> QED BY ONLY <1>1, <1>2, <1>3 DEF Steps

LEMMA SomethingJoins ==
    ASSUME NEW S, NEW seqs \in Seq(S)
    PROVE  \E f : Joins(f, seqs, Len(seqs))
<1> DEFINE Good == {k \in 0 .. Len(seqs) : \E f : Joins(f, seqs, k)}
<1>1. 0 \in Good
  <2>1. Joins(<<>>, seqs, 0)
    BY DEF Joins
  <2> QED BY <2>1
<1>2. ASSUME NEW k \in (0 + 1) .. Len(seqs), k - 1 \in Good
      PROVE  k \in Good
  <2>2. PICK g : Joins(g, seqs, k - 1)
    BY <1>2
  <2> DEFINE f == [i \in 1 .. k |-> IF i = k THEN (IF k = 1 THEN seqs[k] ELSE g[k - 1] \o seqs[k]) ELSE g[i]]
  <2>3. ASSUME NEW i \in 1 .. k
        PROVE  f[i] = IF i = 1 THEN seqs[i] ELSE f[i - 1] \o seqs[i]
    <3>1. CASE i = k
      BY <3>1
    <3>2. CASE i # k
      <4>1. i \in 1 .. (k - 1)
        BY <3>2
      <4>2. f[i] = g[i] /\ (i # 1 => f[i - 1] = g[i - 1])
        BY <4>1
      <4> QED BY <4>1, <4>2, <2>2 DEF Joins
    <3> QED BY <3>1, <3>2
  <2>4. DOMAIN f = 1 .. k
    OBVIOUS
  <2>5. Joins(f, seqs, k)
    BY ONLY <2>3, <2>4 DEF Joins
  <2> QED BY <2>5
<1>3. Len(seqs) \in Nat /\ 0 \in Nat
  OBVIOUS
<1>4. \A k \in 0 .. Len(seqs) : k \in Good
  <2> HIDE DEF Good
  <2> QED BY <1>1, <1>2, <1>3, Climbs
<1> QED BY <1>3, <1>4

LEMMA FlattenJoins ==
    ASSUME NEW S, NEW seqs \in Seq(S), seqs # <<>>
    PROVE  \E f : Steps(f, seqs, Len(seqs)) /\ FlattenSeq(seqs) = f[Len(seqs)]
<1> DEFINE n == Len(seqs)
           Rule(f) == f = [i \in 1 .. n |-> IF i = 1 THEN seqs[i] ELSE f[i - 1] \o seqs[i]]
           c == CHOOSE f : Rule(f)
<1>1. n \in Nat \ {0}
  OBVIOUS
<1>2. PICK f : Joins(f, seqs, n)
  BY SomethingJoins, <1>1
<1> DEFINE g == [i \in 1 .. n |-> f[i]]
<1>3. Rule(g)
  <2>1. \A i \in 1 .. n : i # 1 => i - 1 \in 1 .. n
    BY <1>1
  <2> QED BY <1>2, <2>1 DEF Joins
<1>4. Rule(c)
  <2> HIDE DEF Rule
  <2> QED BY <1>3
<1>5. FlattenSeq(seqs) = c[n]
  BY <1>1 DEF FlattenSeq
<1>6. Joins(c, seqs, n)
  BY <1>4 DEF Joins
<1>7. Steps(c, seqs, n)
  BY ONLY <1>1, <1>6, JoinsSteps
<1> HIDE DEF c
<1> QED BY <1>5, <1>7

\* What concatenations of its members do not leave, flattening does not.
Joinable(T) == <<>> \in T /\ \A a, b \in T : a \o b \in T

LEMMA FlattenIn ==
    ASSUME NEW T, Joinable(T), NEW seqs \in Seq(T)
    PROVE  FlattenSeq(seqs) \in T
<1>1. CASE seqs = <<>>
  BY <1>1 DEF FlattenSeq, Joinable
<1>2. CASE seqs # <<>>
  <2>0. Len(seqs) \in Nat /\ Len(seqs) >= 1 /\ 1 \in Nat /\ \A k \in 1 .. Len(seqs) : seqs[k] \in T
    BY <1>2
  <2>1. PICK f : Steps(f, seqs, Len(seqs)) /\ FlattenSeq(seqs) = f[Len(seqs)]
    BY <1>2, FlattenJoins
  <2> DEFINE Good == {k \in 1 .. Len(seqs) : f[k] \in T}
  <2>2. 1 \in Good
    BY <2>0, <2>1 DEF Steps
  <2>3. ASSUME NEW k \in (1 + 1) .. Len(seqs), k - 1 \in Good
        PROVE  k \in Good
    <3>0. k \in 2 .. Len(seqs) /\ k \in 1 .. Len(seqs)
      BY <2>0
    <3>1. f[k] = f[k - 1] \o seqs[k] /\ seqs[k] \in T /\ f[k - 1] \in T
      BY <3>0, <2>0, <2>1, <2>3, Zenon DEF Steps
    <3>2. f[k] \in T
      BY <3>1 DEF Joinable
    <3> QED BY <3>2
  <2>4. \A k \in 1 .. Len(seqs) : k \in Good
    <3> HIDE DEF Good
    <3> QED BY <2>0, <2>2, <2>3, Climbs
  <2> QED BY <2>0, <2>1, <2>4
<1> QED BY <1>1, <1>2

Assoc(x, y, z) == (x \o y) \o z = x \o (y \o z)

LEMMA Associates ==
    ASSUME NEW S
    PROVE  \A x, y, z \in Seq(S) : Assoc(x, y, z)
BY ConcatAssociative DEF Assoc

\* c is the concatenation of a and b.
IsConcat(S, a, b, c) ==
    /\ c \in Seq(S)
    /\ Len(c) = Len(a) + Len(b)
    /\ \A j \in 1 .. (Len(a) + Len(b)) : c[j] = IF j <= Len(a) THEN a[j] ELSE b[j - Len(a)]

LEMMA ConcatIsConcat ==
    ASSUME NEW S, NEW a \in Seq(S), NEW b \in Seq(S)
    PROVE  IsConcat(S, a, b, a \o b)
BY ConcatProperties DEF IsConcat

\* Every member of the sequence is a part of its concatenation.
LEMMA FlattenCovers ==
    ASSUME NEW S, NEW seqs \in Seq(Seq(S)), NEW i \in DOMAIN seqs
    PROVE  \E u, v \in Seq(S) : FlattenSeq(seqs) = u \o seqs[i] \o v
<1> DEFINE n == Len(seqs)
<1>0. n \in Nat /\ i \in 1 .. n /\ i \in Nat /\ seqs # <<>> /\ \A k \in 1 .. n : seqs[k] \in Seq(S)
  OBVIOUS
<1>1. PICK f : Steps(f, seqs, n) /\ FlattenSeq(seqs) = f[n]
  BY <1>0, FlattenJoins
<1> DEFINE Good == {k \in 1 .. n : f[k] \in Seq(S)}
           Best == {k \in 1 .. n : \E u, v \in Seq(S) : f[k] = u \o seqs[i] \o v}
<1> HIDE DEF n
<1>e. <<>> \in Seq(S)
  OBVIOUS
<1>2. \A k \in 1 .. n : f[k] \in Seq(S)
  <2>1. 1 \in Good
    BY <1>0, <1>1 DEF Steps
  <2>2. ASSUME NEW k \in (1 + 1) .. n, k - 1 \in Good
        PROVE  k \in Good
    <3>0. k \in 2 .. n /\ k \in 1 .. n
      BY <1>0
    <3>1. f[k] = f[k - 1] \o seqs[k] /\ seqs[k] \in Seq(S) /\ f[k - 1] \in Seq(S)
      BY <3>0, <1>0, <1>1, <2>2, Zenon DEF Steps
    <3>2. f[k] \in Seq(S)
      BY <3>1, ConcatProperties
    <3> QED BY <3>2, <1>0
  <2>3. \A k \in 1 .. n : k \in Good
    <3> HIDE DEF Good
    <3> QED BY <1>0, <2>1, <2>2, Climbs
  <2> QED BY <2>3
<1>3. i \in Best
  <2>1. PICK u \in Seq(S) : f[i] = u \o seqs[i]
    <3>1. CASE i = 1
      <4>1. f[i] = seqs[i]
        BY <3>1, <1>0, <1>1 DEF Steps
      <4>2. seqs[i] = <<>> \o seqs[i]
        BY <1>0, ConcatEmptySeq
      <4> QED BY <4>1, <4>2, <1>e
    <3>2. CASE i # 1
      <4>0. i \in 2 .. n /\ i - 1 \in 1 .. n
        BY <3>2, <1>0
      <4>1. f[i] = f[i - 1] \o seqs[i] /\ i - 1 \in 1 .. n
        BY <4>0, <1>1, Zenon DEF Steps
      <4> QED BY <4>1, <1>2
    <3> QED BY <3>1, <3>2
  <2>2. u \o seqs[i] \in Seq(S)
    BY <1>0, <2>1, ConcatProperties
  <2>3. f[i] = u \o seqs[i] \o <<>>
    BY <2>1, <2>2, ConcatEmptySeq
  <2> QED BY <2>1, <2>3, <1>e, <1>0
<1>4. ASSUME NEW k \in (i + 1) .. n, k - 1 \in Best
      PROVE  k \in Best
  <2>0. k \in 2 .. n /\ k \in 1 .. n
    BY <1>0
  <2>1. f[k] = f[k - 1] \o seqs[k] /\ seqs[k] \in Seq(S) /\ seqs[i] \in Seq(S) /\ k \in 1 .. n
    BY <2>0, <1>0, <1>1, Zenon DEF Steps
  <2>2. PICK u, v \in Seq(S) : f[k - 1] = u \o seqs[i] \o v
    BY <1>4
  <2>3. u \o seqs[i] \in Seq(S) /\ v \o seqs[k] \in Seq(S)
    BY <2>1, <2>2, ConcatProperties
  <2>4. (u \o seqs[i] \o v) \o seqs[k] = u \o seqs[i] \o (v \o seqs[k])
    <3>1. PICK x \in Seq(S) : x = u \o seqs[i]
      BY <2>3
    <3>2. PICK y \in Seq(S) : y = seqs[k]
      BY <2>1
    <3>3. Assoc(x, v, y)
      BY Associates
    <3> QED BY <3>1, <3>2, <3>3, Zenon DEF Assoc
  <2>5. f[k] = u \o seqs[i] \o (v \o seqs[k])
    BY <2>1, <2>2, <2>4
  <2> QED BY <2>1, <2>2, <2>3, <2>5
<1>5. \A k \in i .. n : k \in Best
  <2> HIDE DEF Best
  <2> QED BY <1>0, <1>3, <1>4, Climbs
<1>6. n \in i .. n
  BY <1>0
<1> QED BY <1>1, <1>5, <1>6

\* A concatenation of parts of five.
LEMMA FlattenFives ==
    ASSUME NEW S, NEW seqs \in Seq(Seq(S)), \A i \in DOMAIN seqs : Len(seqs[i]) = 5
    PROVE  /\ FlattenSeq(seqs) \in Seq(S)
           /\ Len(FlattenSeq(seqs)) = 5 * Len(seqs)
           /\ \A i \in DOMAIN seqs, k \in 1 .. 5 : FlattenSeq(seqs)[5 * (i - 1) + k] = seqs[i][k]
<1>1. CASE seqs = <<>>
  BY <1>1 DEF FlattenSeq
<1>2. CASE seqs # <<>>
  <2> DEFINE n == Len(seqs)
  <2>0. n \in Nat /\ n \in 1 .. n /\ 1 \in Nat /\ \A k \in 1 .. n : seqs[k] \in Seq(S) /\ Len(seqs[k]) = 5
    BY <1>2
  <2>1. PICK f : Steps(f, seqs, n) /\ FlattenSeq(seqs) = f[n]
    BY <1>2, FlattenJoins
  <2> DEFINE Fives(m) == \A i \in 1 .. m, k \in 1 .. 5 : f[m][5 * (i - 1) + k] = seqs[i][k]
             Good == {m \in 1 .. n : f[m] \in Seq(S) /\ Len(f[m]) = 5 * m /\ Fives(m)}
  <2>d. DOMAIN seqs = 1 .. n
    OBVIOUS
  <2> HIDE DEF n
  <2>2. 1 \in Good
    <3>1. f[1] = seqs[1]
      BY <2>0, <2>1 DEF Steps
    <3>2. ASSUME NEW i \in 1 .. 1, NEW k \in 1 .. 5
          PROVE  f[1][5 * (i - 1) + k] = seqs[i][k]
      <4>1. i = 1 /\ 5 * (i - 1) + k = k
        OBVIOUS
      <4> QED BY <4>1, <3>1
    <3>3. f[1] \in Seq(S) /\ Len(f[1]) = 5 * 1
      BY <2>0, <3>1
    <3> QED BY <2>0, <3>2, <3>3
  <2>3. ASSUME NEW m \in (1 + 1) .. n, m - 1 \in Good
        PROVE  m \in Good
    <3>0. m \in 2 .. n /\ m \in 1 .. n /\ m - 1 \in Nat /\ m \in Nat
      BY <2>0
    <3>1. f[m] = f[m - 1] \o seqs[m] /\ seqs[m] \in Seq(S) /\ Len(seqs[m]) = 5
      BY <3>0, <2>0, <2>1, Zenon DEF Steps
    <3>2. f[m - 1] \in Seq(S) /\ Len(f[m - 1]) = 5 * (m - 1) /\ Fives(m - 1)
      BY <2>3
    <3>c. IsConcat(S, f[m - 1], seqs[m], f[m])
      BY <3>1, <3>2, ConcatIsConcat
    <3>d. Len(f[m - 1]) = 5 * (m - 1) /\ Len(seqs[m]) = 5
      BY <3>1, <3>2
    <3>3. f[m] \in Seq(S) /\ Len(f[m]) = 5 * (m - 1) + 5
      BY ONLY <3>c, <3>d DEF IsConcat
    <3>4. \A j \in 1 .. (5 * (m - 1) + 5) : f[m][j] = IF j <= 5 * (m - 1) THEN f[m - 1][j] ELSE seqs[m][j - 5 * (m - 1)]
      BY ONLY <3>c, <3>d DEF IsConcat
    <3>5. ASSUME NEW i \in 1 .. m, NEW k \in 1 .. 5
          PROVE  f[m][5 * (i - 1) + k] = seqs[i][k]
      <4>0. 5 * (i - 1) + k \in 1 .. (5 * (m - 1) + 5)
        OBVIOUS
      <4>1. CASE i = m
        <5>1. f[m][5 * (i - 1) + k] = seqs[m][5 * (i - 1) + k - 5 * (m - 1)]
          BY <3>4, <4>0, <4>1
        <5>2. 5 * (i - 1) + k - 5 * (m - 1) = k
          BY <4>1
        <5> QED BY <5>1, <5>2, <4>1
      <4>2. CASE i # m
        <5>1. i \in 1 .. (m - 1) /\ 5 * (i - 1) + k <= 5 * (m - 1)
          BY <4>2
        <5>2. f[m][5 * (i - 1) + k] = f[m - 1][5 * (i - 1) + k]
          BY <3>4, <4>0, <5>1
        <5>3. f[m - 1][5 * (i - 1) + k] = seqs[i][k]
          BY <3>2, <5>1
        <5> QED BY <5>2, <5>3
      <4> QED BY <4>1, <4>2
    <3>6. Fives(m) /\ m \in 1 .. n
      BY <3>5
    <3>7. Len(f[m]) = 5 * m
      BY <3>3
    <3> HIDE DEF Fives
    <3> QED BY <3>3, <3>6, <3>7
  <2>4. \A k \in 1 .. n : k \in Good
    <3> HIDE DEF Good
    <3> QED BY <2>0, <2>2, <2>3, Climbs
  <2>5. f[n] \in Seq(S) /\ Len(f[n]) = 5 * n /\ Fives(n)
    BY <2>0, <2>4
  <2> QED BY <2>1, <2>5, <2>d DEF n
<1> QED BY <1>1, <1>2

-----------------------------------------------------------------------------
(* Places of a program.                                                    *)

Ops == {"lock", "lockWithin", "unlock", "begin", "finish", "scan", "open", "put",
        "tripwire", "bail", "reject", "ship", "end"}
Instructions == [op : Ops, dir : Dirs \cup {Root}, zoom : Nat]

Is(x, op, d) == x.op = op /\ x.dir = d
Takes(x, l) == x.op \in {"lock", "lockWithin"} /\ <<x.dir, x.zoom>> = l
Drops(x, l) == x.op = "unlock" /\ <<x.dir, x.zoom>> = l
Works(x) == x.op \in {"scan", "open", "put"}
Puts(x, d, z) == x.op = "put" /\ x.dir = d /\ x.zoom = z

\* What place i has behind it.
Behind(prog, i, op, d) == \E n \in 1 .. (i - 1) : Is(prog[n], op, d)
Written(prog, i, d, z) == \E n \in 1 .. (i - 1) : Puts(prog[n], d, z)

\* A lock is held from where it is taken until it is dropped.
Holding(prog, i, l) ==
    \E m \in 1 .. (i - 1) : Takes(prog[m], l) /\ \A n \in (m + 1) .. (i - 1) : ~Drops(prog[n], l)

\* Place m begins the fence over d that place i is in.
Fences(prog, m, i, d) ==
    m < i /\ Is(prog[m], "begin", d) /\ \A n \in (m + 1) .. (i - 1) : ~Is(prog[n], "finish", d)
Fencing(prog, i, d) == \E m \in 1 .. (i - 1) : Fences(prog, m, i, d)

\* The level was written in the fence that place i is in.
Passed(prog, i, d, z) ==
    \E m, n \in 1 .. (i - 1) : m < n /\ Fences(prog, m, i, d) /\ Puts(prog[n], d, z)

\* A level is scanned before it is locked and opened, a base level after.
InTurn(prog, i) ==
    LET x == prog[i]
    IN  /\ x.op = "open" /\ x.zoom < BaseZoom =>
               /\ i > 2
               /\ prog[i - 1].op \in {"lock", "lockWithin"}
               /\ prog[i - 2] = [x EXCEPT !.op = "scan"]
        /\ x.op = "put" =>
               i > 1 /\ prog[i - 1] = [x EXCEPT !.op = IF x.zoom < BaseZoom THEN "open" ELSE "scan"]
        /\ x.op = "scan" /\ x.zoom = BaseZoom => i > 1 /\ prog[i - 1] = [x EXCEPT !.op = "open"]

\* H are the locks held around the part of a program that is looked at.
LocksFit(H, prog, i) ==
    LET x == prog[i]
    IN  /\ x.op \in {"lock", "lockWithin", "unlock"} => <<x.dir, x.zoom>> \in Locks
        /\ x.op = "unlock" => <<x.dir, x.zoom>> \notin H /\ Holding(prog, i, <<x.dir, x.zoom>>)

FencesFit(prog, i) ==
    \A d \in Dirs :
        /\ Is(prog[i], "begin", d) \/ Is(prog[i], "finish", d) \/ Fencing(prog, i, d) => Holding(prog, i, Mutex(d))
        /\ Is(prog[i], "finish", d) =>
               Fencing(prog, i, d) /\ \A z \in MinZoom .. (BaseZoom - 1) : Passed(prog, i, d, z)

WorkFits(prog, i) ==
    LET x == prog[i]
    IN  Works(x) =>
            /\ x.dir \in Dirs /\ x.zoom \in Zooms
            /\ x.op # "scan" => Holding(prog, i, Level(x.dir, x.zoom))
            /\ x.zoom < BaseZoom \/ x.dir = Total => Fencing(prog, i, x.dir)
            /\ \A z \in Zooms : z <= x.zoom => ~Passed(prog, i, x.dir, z)

\* What depends on the kind of the process: who holds the master while it
\* writes a base level, and who writes which.
KindFits(kind, layers, H, prog, i) ==
    LET x == prog[i]
        covered == Master \in H \/ Holding(prog, i, Master)
    IN  /\ Works(x) /\ x.zoom = BaseZoom =>
               /\ kind # "hub" => covered
               /\ x.dir = Total => kind \in {"scoped", "world", "combine"}
               /\ x.dir # Total =>
                      /\ kind \in {"scoped", "world", "hub"}
                      /\ kind = "world" => Fencing(prog, i, x.dir)
                      /\ kind = "scoped" => x.dir \in Members(layers)
        /\ kind = "scoped" /\ (\E d \in Dirs : Fencing(prog, i, d)) => covered
        /\ Is(x, "finish", Total) /\ kind # "pyramid" => Passed(prog, i, Total, BaseZoom)

PlaceFits(kind, layers, H, prog, i) ==
    /\ InTurn(prog, i)
    /\ LocksFit(H, prog, i)
    /\ FencesFit(prog, i)
    /\ WorkFits(prog, i)
    /\ KindFits(kind, layers, H, prog, i)

\* Every fence over a directory that is begun is finished.
Closed(prog) ==
    \A m \in DOMAIN prog, d \in Dirs :
        Is(prog[m], "begin", d) => \E f \in (m + 1) .. Len(prog) : Is(prog[f], "finish", d)

\* A part of a program, in which every place fits.
Part(kind, layers, H, prog) ==
    /\ prog \in Seq(Instructions)
    /\ Closed(prog)
    /\ \A i \in DOMAIN prog : PlaceFits(kind, layers, H, prog, i)

-----------------------------------------------------------------------------
(* Programs put together.                                                  *)

Agree(P, w, i) == \A m \in 1 .. (i - 1) : P[m] = w[m]

LEMMA SameBehind ==
    ASSUME NEW P, NEW w, NEW i \in Nat, Agree(P, w, i)
    PROVE  /\ \A l : Holding(P, i, l) <=> Holding(w, i, l)
           /\ \A d : Fencing(P, i, d) <=> Fencing(w, i, d)
           /\ \A d, z : Passed(P, i, d, z) <=> Passed(w, i, d, z)
           /\ \A op, d : Behind(P, i, op, d) <=> Behind(w, i, op, d)
           /\ \A d, z : Written(P, i, d, z) <=> Written(w, i, d, z)
<1>0. \A m \in 1 .. (i - 1) : P[m] = w[m]
  BY DEF Agree
<1>1. \A l : Holding(P, i, l) <=> Holding(w, i, l)
  <2>1. \A m \in 1 .. (i - 1) : \A n \in (m + 1) .. (i - 1) : n \in 1 .. (i - 1)
    OBVIOUS
  <2> QED BY ONLY <1>0, <2>1 DEF Holding
<1>2. \A d : \A m \in 1 .. (i - 1) : (Fences(P, m, i, d) <=> Fences(w, m, i, d))
  <2>1. \A m \in 1 .. (i - 1) : \A n \in (m + 1) .. (i - 1) : n \in 1 .. (i - 1)
    OBVIOUS
  <2> QED BY ONLY <1>0, <2>1 DEF Fences
<1>3. \A d : Fencing(P, i, d) <=> Fencing(w, i, d)
  BY ONLY <1>2 DEF Fencing
<1>4. \A d, z : Passed(P, i, d, z) <=> Passed(w, i, d, z)
  BY ONLY <1>0, <1>2 DEF Passed
<1>5. \A op, d : Behind(P, i, op, d) <=> Behind(w, i, op, d)
  BY ONLY <1>0 DEF Behind
<1>6. \A d, z : Written(P, i, d, z) <=> Written(w, i, d, z)
  BY ONLY <1>0 DEF Written
<1> QED BY <1>1, <1>3, <1>4, <1>5, <1>6

LEMMA PrefixFits ==
    ASSUME NEW kind, NEW layers, NEW H, NEW P, NEW w, NEW i \in Nat, i >= 1, Agree(P, w, i + 1)
    PROVE  PlaceFits(kind, layers, H, P, i) <=> PlaceFits(kind, layers, H, w, i)
<1>1. Agree(P, w, i) /\ P[i] = w[i] /\ (i > 1 => P[i - 1] = w[i - 1]) /\ (i > 2 => P[i - 2] = w[i - 2])
  BY DEF Agree
<1>2. /\ \A l : Holding(P, i, l) <=> Holding(w, i, l)
      /\ \A d : Fencing(P, i, d) <=> Fencing(w, i, d)
      /\ \A d, z : Passed(P, i, d, z) <=> Passed(w, i, d, z)
  BY <1>1, SameBehind
<1>3. InTurn(P, i) <=> InTurn(w, i)
  BY <1>1 DEF InTurn
<1>4. LocksFit(H, P, i) <=> LocksFit(H, w, i)
  BY ONLY <1>1, <1>2 DEF LocksFit
<1>5. FencesFit(P, i) <=> FencesFit(w, i)
  BY ONLY <1>1, <1>2 DEF FencesFit
<1>6. WorkFits(P, i) <=> WorkFits(w, i)
  BY ONLY <1>1, <1>2 DEF WorkFits
<1>7. KindFits(kind, layers, H, P, i) <=> KindFits(kind, layers, H, w, i)
  BY ONLY <1>1, <1>2 DEF KindFits
<1> QED BY <1>3, <1>4, <1>5, <1>6, <1>7 DEF PlaceFits

\* P is u and then s, for as far as place j of s.
Follows(P, u, s, j) ==
    /\ u \in Seq(Instructions)
    /\ j \in Nat /\ j >= 1
    /\ \A m \in 1 .. Len(u) : P[m] = u[m]
    /\ \A m \in 1 .. (j - 1) : P[Len(u) + m] = s[m]

LEMMA ShiftedHolding ==
    ASSUME NEW P, NEW u, NEW s, NEW j, Follows(P, u, s, j), NEW l, Holding(s, j, l)
    PROVE  Holding(P, Len(u) + j, l)
<1>0. Len(u) \in Nat /\ j \in Nat
  BY DEF Follows
<1>1. PICK m \in 1 .. (j - 1) : Takes(s[m], l) /\ \A n \in (m + 1) .. (j - 1) : ~Drops(s[n], l)
  BY DEF Holding
<1>2. Len(u) + m \in 1 .. (Len(u) + j - 1) /\ P[Len(u) + m] = s[m]
  BY <1>0, <1>1 DEF Follows
<1>3. ASSUME NEW n \in (Len(u) + m + 1) .. (Len(u) + j - 1)
      PROVE  ~Drops(P[n], l)
  <2>1. n - Len(u) \in (m + 1) .. (j - 1) /\ n - Len(u) \in 1 .. (j - 1) /\ Len(u) + (n - Len(u)) = n
    BY <1>0, <1>1
  <2>2. P[n] = s[n - Len(u)]
    BY <2>1 DEF Follows
  <2> QED BY <1>1, <2>1, <2>2
<1> QED BY <1>0, <1>1, <1>2, <1>3 DEF Holding

LEMMA ShiftedFences ==
    ASSUME NEW P, NEW u, NEW s, NEW j, Follows(P, u, s, j), NEW d \in Dirs, Closed(u)
    PROVE  /\ \A m \in 1 .. (j - 1) : Fences(s, m, j, d) <=> Fences(P, Len(u) + m, Len(u) + j, d)
           /\ \A m \in 1 .. Len(u) : ~Fences(P, m, Len(u) + j, d)
<1>0. Len(u) \in Nat /\ j \in Nat /\ DOMAIN u = 1 .. Len(u)
  BY DEF Follows
<1>1. ASSUME NEW m \in 1 .. (j - 1)
      PROVE  Fences(s, m, j, d) <=> Fences(P, Len(u) + m, Len(u) + j, d)
  <2>1. m < j /\ Len(u) + m < Len(u) + j /\ P[Len(u) + m] = s[m]
    BY <1>0 DEF Follows
  <2>2. ASSUME NEW n \in (Len(u) + m + 1) .. (Len(u) + j - 1)
        PROVE  n - Len(u) \in (m + 1) .. (j - 1) /\ P[n] = s[n - Len(u)]
    <3>1. n - Len(u) \in (m + 1) .. (j - 1) /\ n - Len(u) \in 1 .. (j - 1) /\ Len(u) + (n - Len(u)) = n
      BY <1>0
    <3> QED BY <3>1 DEF Follows
  <2>3. ASSUME NEW n \in (m + 1) .. (j - 1)
        PROVE  Len(u) + n \in (Len(u) + m + 1) .. (Len(u) + j - 1) /\ P[Len(u) + n] = s[n]
    <3>1. Len(u) + n \in (Len(u) + m + 1) .. (Len(u) + j - 1) /\ n \in 1 .. (j - 1)
      BY <1>0
    <3> QED BY <3>1 DEF Follows
  <2> QED BY <1>0, <2>1, <2>2, <2>3 DEF Fences
<1>2. ASSUME NEW m \in 1 .. Len(u), Fences(P, m, Len(u) + j, d)
      PROVE  FALSE
  <2>1. Is(u[m], "begin", d)
    BY <1>2 DEF Fences, Follows
  <2>2. PICK f \in (m + 1) .. Len(u) : Is(u[f], "finish", d)
    BY <2>1, <1>0 DEF Closed
  <2>3. f \in (m + 1) .. (Len(u) + j - 1) /\ f \in 1 .. Len(u)
    BY <1>0 DEF Follows
  <2>4. P[f] = u[f]
    BY <2>3 DEF Follows
  <2> QED BY <1>0, <1>2, <2>2, <2>3, <2>4 DEF Fences
<1> QED BY <1>1, <1>2

LEMMA ShiftedFencing ==
    ASSUME NEW P, NEW u, NEW s, NEW j, Follows(P, u, s, j), NEW d \in Dirs, Closed(u)
    PROVE  Fencing(P, Len(u) + j, d) <=> Fencing(s, j, d)
<1>0. Len(u) \in Nat /\ j \in Nat
  BY DEF Follows
<1>1. ASSUME Fencing(s, j, d)
      PROVE  Fencing(P, Len(u) + j, d)
  <2>1. PICK m \in 1 .. (j - 1) : Fences(s, m, j, d)
    BY <1>1 DEF Fencing
  <2>2. Len(u) + m \in 1 .. (Len(u) + j - 1)
    BY <1>0
  <2> QED BY <1>0, <2>1, <2>2, ShiftedFences DEF Fencing
<1>2. ASSUME Fencing(P, Len(u) + j, d)
      PROVE  Fencing(s, j, d)
  <2>1. PICK m \in 1 .. (Len(u) + j - 1) : Fences(P, m, Len(u) + j, d)
    BY <1>0, <1>2 DEF Fencing
  <2>2. m \notin 1 .. Len(u)
    BY <2>1, ShiftedFences
  <2>3. m - Len(u) \in 1 .. (j - 1) /\ Len(u) + (m - Len(u)) = m
    BY <1>0, <2>2
  <2>4. Fences(s, m - Len(u), j, d)
    BY <2>1, <2>3, ShiftedFences
  <2> QED BY <2>3, <2>4 DEF Fencing
<1> QED BY <1>1, <1>2

LEMMA ShiftedPassed ==
    ASSUME NEW P, NEW u, NEW s, NEW j, Follows(P, u, s, j), NEW d \in Dirs, Closed(u), NEW z
    PROVE  Passed(P, Len(u) + j, d, z) <=> Passed(s, j, d, z)
<1>0. Len(u) \in Nat /\ j \in Nat
  BY DEF Follows
<1>1. ASSUME Passed(s, j, d, z)
      PROVE  Passed(P, Len(u) + j, d, z)
  <2>1. PICK m, n \in 1 .. (j - 1) : m < n /\ Fences(s, m, j, d) /\ Puts(s[n], d, z)
    BY <1>1 DEF Passed
  <2>2. /\ Len(u) + m \in 1 .. (Len(u) + j - 1) /\ Len(u) + n \in 1 .. (Len(u) + j - 1)
        /\ Len(u) + m < Len(u) + n
    BY <1>0, <2>1
  <2>3. P[Len(u) + n] = s[n]
    BY DEF Follows
  <2>4. Fences(P, Len(u) + m, Len(u) + j, d)
    BY <2>1, ShiftedFences
  <2> QED BY <1>0, <2>1, <2>2, <2>3, <2>4 DEF Passed
<1>2. ASSUME Passed(P, Len(u) + j, d, z)
      PROVE  Passed(s, j, d, z)
  <2>1. PICK m, n \in 1 .. (Len(u) + j - 1) : m < n /\ Fences(P, m, Len(u) + j, d) /\ Puts(P[n], d, z)
    BY <1>0, <1>2 DEF Passed
  <2>2. m \notin 1 .. Len(u)
    BY <2>1, ShiftedFences
  <2>3. /\ m - Len(u) \in 1 .. (j - 1) /\ Len(u) + (m - Len(u)) = m
        /\ n - Len(u) \in 1 .. (j - 1) /\ Len(u) + (n - Len(u)) = n /\ m - Len(u) < n - Len(u)
    BY <1>0, <2>1, <2>2
  <2>4. Fences(s, m - Len(u), j, d)
    BY <2>1, <2>3, ShiftedFences
  <2>5. P[n] = s[n - Len(u)]
    BY <2>3 DEF Follows
  <2> QED BY <2>1, <2>3, <2>4, <2>5 DEF Passed
<1> QED BY <1>1, <1>2

LEMMA ShiftedFits ==
    ASSUME NEW kind, NEW layers, NEW H, NEW P, NEW u, NEW s, NEW j, Follows(P, u, s, j + 1), j \in Nat, j >= 1,
           Closed(u), PlaceFits(kind, layers, H, s, j), s[j] \in Instructions
    PROVE  PlaceFits(kind, layers, H, P, Len(u) + j)
<1> DEFINE i == Len(u) + j
<1>0. Len(u) \in Nat /\ i \in Nat /\ Total \in Dirs
  BY DEF Follows, Dirs
<1>1. Follows(P, u, s, j)
  BY DEF Follows
<1>2. P[i] = s[j] /\ (j > 1 => P[i - 1] = s[j - 1]) /\ (j > 2 => P[i - 2] = s[j - 2])
  <2>1. j \in 1 .. j /\ (j > 1 => j - 1 \in 1 .. j /\ Len(u) + (j - 1) = i - 1)
                     /\ (j > 2 => j - 2 \in 1 .. j /\ Len(u) + (j - 2) = i - 2)
    BY <1>0
  <2>2. \A m \in 1 .. j : P[Len(u) + m] = s[m]
    BY DEF Follows
  <2> QED BY <1>0, <2>1, <2>2
<1>3. \A l : Holding(s, j, l) => Holding(P, i, l)
  BY <1>1, ShiftedHolding
<1>4. \A d \in Dirs : Fencing(P, i, d) <=> Fencing(s, j, d)
  BY <1>1, ShiftedFencing
<1>5. \A d \in Dirs : \A z : Passed(P, i, d, z) <=> Passed(s, j, d, z)
  BY <1>1, ShiftedPassed
<1>6. (j > 1 => i > 1) /\ (j > 2 => i > 2)
  BY <1>0
<1> HIDE DEF i
<1>7. InTurn(P, i)
  BY <1>2, <1>6 DEF InTurn, PlaceFits
<1>8. LocksFit(H, P, i)
  BY <1>2, <1>3 DEF LocksFit, PlaceFits
<1>9. FencesFit(P, i)
  <2> SUFFICES ASSUME NEW d \in Dirs
      PROVE  /\ Is(P[i], "begin", d) \/ Is(P[i], "finish", d) \/ Fencing(P, i, d) => Holding(P, i, Mutex(d))
             /\ Is(P[i], "finish", d) =>
                    Fencing(P, i, d) /\ \A z \in MinZoom .. (BaseZoom - 1) : Passed(P, i, d, z)
    BY DEF FencesFit
  <2> QED BY <1>2, <1>3, <1>4, <1>5 DEF FencesFit, PlaceFits
<1>10. WorkFits(P, i)
  BY <1>0, <1>2, <1>3, <1>4, <1>5 DEF WorkFits, PlaceFits
<1>11. KindFits(kind, layers, H, P, i)
  <2>1. KindFits(kind, layers, H, s, j) /\ WorkFits(s, j)
    BY DEF PlaceFits
  <2>2. Works(P[i]) => P[i].dir \in Dirs
    BY <2>1, <1>2 DEF WorkFits
  <2> QED BY <1>0, <1>2, <1>3, <1>4, <1>5, <2>1, <2>2 DEF KindFits
<1> QED BY <1>7, <1>8, <1>9, <1>10, <1>11 DEF PlaceFits, i

\* In a concatenation the first sees nothing of the second, and the second
\* follows the first.
LEMMA InConcat ==
    ASSUME NEW u \in Seq(Instructions), NEW s \in Seq(Instructions), NEW P, IsConcat(Instructions, u, s, P)
    PROVE  /\ P \in Seq(Instructions) /\ Len(P) = Len(u) + Len(s) /\ DOMAIN P = 1 .. (Len(u) + Len(s))
           /\ \A i \in Nat : i <= Len(u) + 1 => Agree(P, u, i)
           /\ \A j \in Nat : 1 <= j /\ j <= Len(s) + 1 => Follows(P, u, s, j)
           /\ \A i \in 1 .. Len(u) : P[i] = u[i]
           /\ \A j \in 1 .. Len(s) : P[Len(u) + j] = s[j] /\ Len(u) + j \in 1 .. Len(P)
           /\ \A i \in 1 .. Len(P) : i \in 1 .. Len(u) \/ (i - Len(u) \in 1 .. Len(s) /\ Len(u) + (i - Len(u)) = i)
<1>0. Len(u) \in Nat /\ Len(s) \in Nat
  OBVIOUS
<1>1. P \in Seq(Instructions) /\ Len(P) = Len(u) + Len(s)
  BY DEF IsConcat
<1>2. \A i \in 1 .. (Len(u) + Len(s)) : P[i] = IF i <= Len(u) THEN u[i] ELSE s[i - Len(u)]
  BY DEF IsConcat
<1>3. \A i \in 1 .. Len(u) : P[i] = u[i]
  BY <1>0, <1>2
<1>4. ASSUME NEW j \in 1 .. Len(s)
      PROVE  P[Len(u) + j] = s[j] /\ Len(u) + j \in 1 .. Len(P)
  <2>1. Len(u) + j \in 1 .. (Len(u) + Len(s)) /\ ~(Len(u) + j <= Len(u)) /\ (Len(u) + j) - Len(u) = j
    BY <1>0
  <2>2. P[Len(u) + j] = s[(Len(u) + j) - Len(u)]
    BY <1>2, <2>1
  <2> QED BY <1>1, <2>1, <2>2
<1>5. ASSUME NEW i \in Nat, i <= Len(u) + 1
      PROVE  Agree(P, u, i)
  BY <1>0, <1>3, <1>5 DEF Agree
<1>6. ASSUME NEW j \in Nat, 1 <= j, j <= Len(s) + 1
      PROVE  Follows(P, u, s, j)
  BY <1>0, <1>3, <1>4, <1>6 DEF Follows
<1>7. ASSUME NEW i \in 1 .. Len(P)
      PROVE  i \in 1 .. Len(u) \/ (i - Len(u) \in 1 .. Len(s) /\ Len(u) + (i - Len(u)) = i)
  BY <1>0, <1>1
<1>8. DOMAIN P = 1 .. (Len(u) + Len(s))
  BY <1>1
<1> QED BY <1>1, <1>3, <1>4, <1>5, <1>6, <1>7, <1>8

LEMMA ClosedConcat ==
    ASSUME NEW u \in Seq(Instructions), NEW s \in Seq(Instructions), NEW P, IsConcat(Instructions, u, s, P),
           Closed(u), Closed(s)
    PROVE  Closed(P)
<1> SUFFICES ASSUME NEW m \in DOMAIN P, NEW d \in Dirs, Is(P[m], "begin", d)
             PROVE  \E f \in (m + 1) .. Len(P) : Is(P[f], "finish", d)
  BY DEF Closed
<1>0. /\ Len(u) \in Nat /\ Len(s) \in Nat /\ DOMAIN u = 1 .. Len(u) /\ DOMAIN s = 1 .. Len(s)
      /\ m \in 1 .. Len(P) /\ Len(P) = Len(u) + Len(s)
  BY InConcat
<1>1. CASE m \in 1 .. Len(u)
  <2>1. P[m] = u[m]
    BY <1>1, InConcat
  <2>2. PICK f \in (m + 1) .. Len(u) : Is(u[f], "finish", d)
    BY <1>0, <1>1, <2>1 DEF Closed
  <2>3. f \in 1 .. Len(u) /\ f \in (m + 1) .. Len(P)
    BY <1>0, <1>1
  <2>4. P[f] = u[f]
    BY <2>3, InConcat
  <2> QED BY <2>2, <2>3, <2>4
<1>2. CASE m \notin 1 .. Len(u)
  <2>1. m - Len(u) \in 1 .. Len(s) /\ Len(u) + (m - Len(u)) = m
    BY <1>0, <1>2, InConcat
  <2>2. P[m] = s[m - Len(u)]
    BY <2>1, InConcat
  <2>3. PICK f \in (m - Len(u) + 1) .. Len(s) : Is(s[f], "finish", d)
    BY <1>0, <2>1, <2>2 DEF Closed
  <2>4. f \in 1 .. Len(s) /\ Len(u) + f \in (m + 1) .. Len(P)
    BY <1>0, <2>1
  <2>5. P[Len(u) + f] = s[f]
    BY <2>4, InConcat
  <2> QED BY <2>3, <2>4, <2>5
<1> QED BY <1>1, <1>2

LEMMA PartConcat ==
    ASSUME NEW kind, NEW layers, NEW H, NEW u, NEW s,
           Part(kind, layers, H, u), Part(kind, layers, H, s)
    PROVE  Part(kind, layers, H, u \o s)
<1>0. u \in Seq(Instructions) /\ s \in Seq(Instructions) /\ Closed(u) /\ Closed(s)
  BY DEF Part
<1>1. PICK P : P = u \o s
  OBVIOUS
<1>2. IsConcat(Instructions, u, s, P)
  BY <1>0, <1>1, ConcatIsConcat
<1>3. Closed(P) /\ P \in Seq(Instructions) /\ DOMAIN P = 1 .. Len(P)
  BY <1>0, <1>2, ClosedConcat, InConcat
<1>4. Len(u) \in Nat /\ Len(s) \in Nat /\ DOMAIN u = 1 .. Len(u) /\ DOMAIN s = 1 .. Len(s) /\ Len(P) = Len(u) + Len(s)
  BY <1>0, <1>2, InConcat
<1>5. ASSUME NEW i \in 1 .. Len(P)
      PROVE  PlaceFits(kind, layers, H, P, i)
  <2>1. CASE i \in 1 .. Len(u)
    <3>1. P[i] = u[i] /\ Agree(P, u, i + 1)
      <4>1. P[i] = u[i]
        BY <1>0, <1>2, <2>1, InConcat
      <4>2. \A k \in Nat : k <= Len(u) + 1 => Agree(P, u, k)
        BY <1>0, <1>2, InConcat
      <4>3. i + 1 \in Nat /\ i + 1 <= Len(u) + 1
        BY <1>4, <2>1
      <4> QED BY <4>1, <4>2, <4>3
    <3>2. PlaceFits(kind, layers, H, u, i)
      BY <1>4, <2>1 DEF Part
    <3> QED BY <2>1, <3>1, <3>2, PrefixFits
  <2>2. CASE i \notin 1 .. Len(u)
    <3>1. PICK j \in 1 .. Len(s) : Len(u) + j = i
      BY <1>0, <1>2, <2>2, InConcat
    <3>2. P[i] = s[j] /\ Follows(P, u, s, j + 1)
      <4>1. P[Len(u) + j] = s[j]
        BY <1>0, <1>2, <3>1, InConcat
      <4>2. \A k \in Nat : 1 <= k /\ k <= Len(s) + 1 => Follows(P, u, s, k)
        BY <1>0, <1>2, InConcat
      <4>3. j + 1 \in Nat /\ 1 <= j + 1 /\ j + 1 <= Len(s) + 1
        BY <1>4
      <4> QED BY <3>1, <4>1, <4>2, <4>3
    <3>3. PlaceFits(kind, layers, H, s, j) /\ s[j] \in Instructions
      BY <1>0, <1>4 DEF Part
    <3>5. j \in Nat /\ j >= 1
      BY <1>4
    <3>4. PlaceFits(kind, layers, H, P, Len(u) + j)
      BY <1>0, <3>2, <3>3, <3>5, ShiftedFits
    <3> QED BY <3>1, <3>2, <3>3, <3>4
  <2> QED BY <2>1, <2>2
<1>6. Part(kind, layers, H, P)
  BY <1>3, <1>5 DEF Part
<1> QED BY <1>1, <1>6

LEMMA PartEmpty ==
    ASSUME NEW kind, NEW layers, NEW H
    PROVE  Part(kind, layers, H, <<>>)
BY DEF Part, Closed

-----------------------------------------------------------------------------
(* A lock around a part.                                                   *)

LEMMA NotFencingAfterClosed ==
    ASSUME NEW P, NEW u \in Seq(Instructions), Closed(u), Agree(P, u, Len(u) + 1), NEW d \in Dirs
    PROVE  ~Fencing(P, Len(u) + 1, d)
<1>0. Len(u) \in Nat /\ DOMAIN u = 1 .. Len(u)
  OBVIOUS
<1> SUFFICES ASSUME NEW m \in 1 .. Len(u), Fences(P, m, Len(u) + 1, d)
             PROVE  FALSE
  BY <1>0 DEF Fencing
<1>1. Is(u[m], "begin", d)
  BY <1>0 DEF Fences, Agree
<1>2. PICK f \in (m + 1) .. Len(u) : Is(u[f], "finish", d)
  BY <1>0, <1>1 DEF Closed
<1>3. f \in (m + 1) .. (Len(u) + 1 - 1) /\ f \in 1 .. (Len(u) + 1 - 1)
  BY <1>0
<1>4. P[f] = u[f]
  BY <1>3 DEF Agree
<1> QED BY <1>2, <1>3, <1>4 DEF Fences

LEMMA HeldFits ==
    ASSUME NEW kind, NEW layers, NEW H, NEW l, NEW P, NEW i,
           PlaceFits(kind, layers, H \cup {l}, P, i), Holding(P, i, l)
    PROVE  PlaceFits(kind, layers, H, P, i)
<1>1. LocksFit(H, P, i)
  BY DEF PlaceFits, LocksFit
<1>2. KindFits(kind, layers, H, P, i)
  <2>1. Master \in H \cup {l} \/ Holding(P, i, Master) => Master \in H \/ Holding(P, i, Master)
    OBVIOUS
  <2> QED BY <2>1 DEF PlaceFits, KindFits
<1> QED BY <1>1, <1>2 DEF PlaceFits

\* An instruction that is no work and no fence's asks for little.
LEMMA PlainFits ==
    ASSUME NEW kind, NEW layers, NEW H, NEW P, NEW i,
           P[i].op \notin {"scan", "open", "put", "begin", "finish"},
           \A d \in Dirs : ~Fencing(P, i, d),
           LocksFit(H, P, i)
    PROVE  PlaceFits(kind, layers, H, P, i)
<1>1. InTurn(P, i) /\ WorkFits(P, i)
  BY DEF InTurn, WorkFits, Works
<1>2. FencesFit(P, i)
  BY DEF FencesFit, Is
<1>3. KindFits(kind, layers, H, P, i)
  BY DEF KindFits, Works, Is
<1> QED BY <1>1, <1>2, <1>3 DEF PlaceFits

LEMMA NothingAtFirst ==
    ASSUME NEW P
    PROVE  /\ \A l : ~Holding(P, 1, l)
           /\ \A d : ~Fencing(P, 1, d)
           /\ \A d, z : ~Passed(P, 1, d, z)
           /\ \A op, d : ~Behind(P, 1, op, d)
           /\ \A d, z : ~Written(P, 1, d, z)
<1>1. \A m \in 1 .. (1 - 1) : FALSE
  OBVIOUS
<1> QED BY <1>1 DEF Holding, Fencing, Passed, Behind, Written

LEMMA SingletonSeq ==
    ASSUME NEW S, NEW x \in S
    PROVE  <<x>> \in Seq(S) /\ Len(<<x>>) = 1 /\ <<x>>[1] = x
OBVIOUS

\* What is P: x, then s, then y.
Wraps(P, x, s, y) ==
    /\ P \in Seq(Instructions) /\ Len(P) = Len(s) + 2 /\ DOMAIN P = 1 .. (Len(s) + 2)
    /\ P[1] = x /\ P[Len(s) + 2] = y
    /\ \A j \in 1 .. Len(s) : P[j + 1] = s[j]
    /\ \A j \in 1 .. Len(s) : Follows(P, <<x>>, s, j + 1)

LEMMA Wrapped ==
    ASSUME NEW x \in Instructions, NEW y \in Instructions, NEW s \in Seq(Instructions)
    PROVE  Wraps(<<x>> \o s \o <<y>>, x, s, y)
<1>1. PICK u \in Seq(Instructions) : u = <<x>> /\ Len(u) = 1 /\ u[1] = x
  BY SingletonSeq
<1>2. PICK v \in Seq(Instructions) : v = <<y>> /\ Len(v) = 1 /\ v[1] = y
  BY SingletonSeq
<1>a. Len(u) = 1 /\ u[1] = x
  BY <1>1
<1>b. Len(v) = 1 /\ v[1] = y
  BY <1>2
<1>3. PICK Q : Q = u \o s
  OBVIOUS
<1>4. IsConcat(Instructions, u, s, Q)
  BY <1>3, ConcatIsConcat
<1>5. Q \in Seq(Instructions) /\ Len(Q) = Len(s) + 1 /\ Len(s) \in Nat
  <2>1. Q \in Seq(Instructions) /\ Len(Q) = Len(u) + Len(s)
    BY <1>4, InConcat
  <2> QED BY <1>a, <2>1
<1>6. PICK P : P = Q \o v
  OBVIOUS
<1>7. IsConcat(Instructions, Q, v, P)
  BY <1>5, <1>6, ConcatIsConcat
<1>8. P \in Seq(Instructions) /\ Len(P) = Len(s) + 2 /\ DOMAIN P = 1 .. (Len(s) + 2)
  <2>1. P \in Seq(Instructions) /\ Len(P) = Len(Q) + Len(v)
    BY <1>5, <1>7, InConcat
  <2> QED BY <1>b, <1>5, <2>1
<1>9. \A i \in 1 .. (Len(s) + 1) : P[i] = Q[i]
  BY <1>5, <1>7, InConcat
<1>10. P[Len(s) + 2] = y
  <2>1. 1 \in 1 .. Len(v)
    BY <1>b
  <2>2. P[Len(Q) + 1] = v[1]
    BY <1>5, <1>7, <2>1, InConcat
  <2> QED BY <1>b, <1>5, <2>2
<1>11. Q[1] = x
  <2>1. 1 \in 1 .. Len(u)
    BY <1>a
  <2>2. Q[1] = u[1]
    BY <2>1, <1>4, InConcat
  <2> QED BY <1>a, <2>2
<1>12. \A j \in 1 .. Len(s) : Q[1 + j] = s[j]
  <2>1. \A j \in 1 .. Len(s) : Q[Len(u) + j] = s[j]
    BY <1>4, InConcat
  <2> QED BY <1>a, <2>1
<1>13. \A j \in 1 .. Len(s) : P[j + 1] = s[j]
  <2> TAKE j \in 1 .. Len(s)
  <2>1. j + 1 \in 1 .. (Len(s) + 1) /\ 1 + j = j + 1
    BY <1>5
  <2> QED BY <2>1, <1>9, <1>12
<1>14. P[1] = x
  BY <1>5, <1>9, <1>11
<1>15. ASSUME NEW j \in 1 .. Len(s)
       PROVE  Follows(P, u, s, j + 1)
  <2>1. \A m \in 1 .. Len(u) : P[m] = u[m]
    BY <1>1, <1>14
  <2>2. \A m \in 1 .. ((j + 1) - 1) : P[Len(u) + m] = s[m]
    <3> TAKE m \in 1 .. ((j + 1) - 1)
    <3>1. m \in 1 .. Len(s) /\ Len(u) + m = m + 1
      BY <1>1, <1>5
    <3> QED BY <3>1, <1>13
  <2>3. j + 1 \in Nat /\ j + 1 >= 1
    BY <1>5
  <2> QED BY <2>1, <2>2, <2>3 DEF Follows
<1>16. Wraps(P, x, s, y)
  BY <1>1, <1>8, <1>10, <1>13, <1>14, <1>15 DEF Wraps
<1> QED BY <1>1, <1>2, <1>3, <1>6, <1>16

LEMMA LockWraps ==
    ASSUME NEW kind, NEW layers, NEW H, NEW l \in Locks, l \notin H, NEW x \in Instructions, NEW y \in Instructions,
           Takes(x, l), Drops(y, l), NEW s, Part(kind, layers, H \cup {l}, s)
    PROVE  Part(kind, layers, H, <<x>> \o s \o <<y>>)
<1>0. PICK P : P = <<x>> \o s \o <<y>>
  OBVIOUS
<1>1. s \in Seq(Instructions) /\ Closed(s) /\ Len(s) \in Nat /\ DOMAIN s = 1 .. Len(s)
  BY DEF Part
<1>2. Wraps(P, x, s, y)
  BY <1>0, <1>1, Wrapped
<1>3. P \in Seq(Instructions) /\ Len(P) = Len(s) + 2 /\ DOMAIN P = 1 .. (Len(s) + 2) /\ P[1] = x /\ P[Len(s) + 2] = y
  BY <1>2 DEF Wraps
<1>4. \A j \in 1 .. Len(s) : P[j + 1] = s[j]
  BY <1>2 DEF Wraps
<1>5. \A j \in 1 .. Len(s) : ~Drops(s[j], l)
  <2> TAKE j \in 1 .. Len(s)
  <2>1. LocksFit(H \cup {l}, s, j)
    BY <1>1 DEF Part, PlaceFits
  <2> QED BY <2>1 DEF LocksFit, Drops
<1>6. \A i \in 2 .. (Len(s) + 2) : Holding(P, i, l)
  <2> TAKE i \in 2 .. (Len(s) + 2)
  <2>1. 1 \in 1 .. (i - 1) /\ Takes(P[1], l)
    BY <1>1, <1>3
  <2>2. ASSUME NEW n \in (1 + 1) .. (i - 1)
        PROVE  ~Drops(P[n], l)
    <3>1. n - 1 \in 1 .. Len(s) /\ (n - 1) + 1 = n
      BY <1>1
    <3>2. P[n] = s[n - 1]
      BY <1>4, <3>1
    <3> QED BY <1>5, <3>1, <3>2
  <2> QED BY <2>1, <2>2 DEF Holding
<1>7. Closed(P) /\ \A d \in Dirs : ~Fencing(P, Len(s) + 2, d)
  <2>1. PICK u \in Seq(Instructions) : u = <<x>> /\ Len(u) = 1 /\ u[1] = x
    BY SingletonSeq
  <2>2. PICK v \in Seq(Instructions) : v = <<y>> /\ Len(v) = 1 /\ v[1] = y
    BY SingletonSeq
  <2>a. Len(u) = 1 /\ u[1] = x /\ Len(v) = 1 /\ v[1] = y
    BY <2>1, <2>2
  <2>c. Closed(u) /\ Closed(v)
    <3>1. (\A d : ~Is(x, "begin", d)) /\ \A d : ~Is(y, "begin", d)
      BY DEF Is, Takes, Drops
    <3> QED BY <2>a, <3>1 DEF Closed
  <2>3. PICK Q : Q = u \o s
    OBVIOUS
  <2>4. IsConcat(Instructions, u, s, Q)
    BY <1>1, <2>3, ConcatIsConcat
  <2>b. Q \in Seq(Instructions) /\ Closed(Q) /\ Len(Q) = Len(u) + Len(s)
    BY <1>1, <2>c, <2>4, ClosedConcat, InConcat
  <2>6. IsConcat(Instructions, Q, v, P)
    BY <1>0, <2>1, <2>2, <2>3, <2>b, ConcatIsConcat
  <2>7. Closed(P)
    BY <2>c, <2>b, <2>6, ClosedConcat
  <2>8. Agree(P, Q, Len(Q) + 1)
    <3>1. Len(Q) \in Nat /\ Len(Q) + 1 \in Nat
      BY <2>b
    <3> QED BY <2>b, <2>6, <3>1, InConcat
  <2>9. Len(Q) + 1 = Len(s) + 2
    BY <1>1, <2>a, <2>b
  <2> QED BY <2>b, <2>7, <2>8, <2>9, NotFencingAfterClosed
<1>8. PlaceFits(kind, layers, H, P, 1)
  <2>1. LocksFit(H, P, 1)
    BY <1>3 DEF LocksFit, Takes
  <2>2. P[1].op \in {"lock", "lockWithin"}
    BY <1>3 DEF Takes
  <2> QED BY <2>1, <2>2, NothingAtFirst, PlainFits
<1>9. PlaceFits(kind, layers, H, P, Len(s) + 2)
  <2>1. Len(s) + 2 \in 2 .. (Len(s) + 2)
    BY <1>1
  <2>2. LocksFit(H, P, Len(s) + 2)
    BY <1>3, <1>6, <2>1 DEF LocksFit, Drops
  <2>3. P[Len(s) + 2].op = "unlock"
    BY <1>3 DEF Drops
  <2> QED BY <1>7, <2>2, <2>3, PlainFits
<1>10. ASSUME NEW j \in 1 .. Len(s)
       PROVE  PlaceFits(kind, layers, H, P, j + 1)
  <2>1. Follows(P, <<x>>, s, j + 1) /\ P[j + 1] = s[j] /\ j \in Nat /\ j >= 1
    BY <1>1, <1>2, <1>4 DEF Wraps
  <2>2. PlaceFits(kind, layers, H \cup {l}, s, j) /\ s[j] \in Instructions
    <3>1. j \in DOMAIN s /\ s[j] \in Instructions
      BY <1>1
    <3> QED BY <3>1 DEF Part
  <2>3. Closed(<<x>>) /\ Len(<<x>>) = 1
    <3>1. \A d : ~Is(x, "begin", d)
      BY DEF Is, Takes
    <3> QED BY <3>1, SingletonSeq DEF Closed
  <2>4. PlaceFits(kind, layers, H \cup {l}, P, Len(<<x>>) + j)
    BY <2>1, <2>2, <2>3, ShiftedFits
  <2>5. Len(<<x>>) + j = j + 1 /\ j + 1 \in 2 .. (Len(s) + 2)
    BY <1>1, <2>3
  <2>6. PlaceFits(kind, layers, H \cup {l}, P, j + 1) /\ Holding(P, j + 1, l)
    BY <1>6, <2>4, <2>5
  <2> QED BY <2>1, <2>2, <2>6, HeldFits
<1>11. ASSUME NEW i \in DOMAIN P
       PROVE  PlaceFits(kind, layers, H, P, i)
  <2>1. i = 1 \/ i = Len(s) + 2 \/ \E j \in 1 .. Len(s) : i = j + 1
    <3>1. i # 1 /\ i # Len(s) + 2 => i - 1 \in 1 .. Len(s) /\ i = (i - 1) + 1
      BY <1>1, <1>3
    <3> QED BY <3>1
  <2> QED BY <2>1, <1>8, <1>9, <1>10
<1>12. Part(kind, layers, H, P)
  BY <1>3, <1>7, <1>11 DEF Part
<1> QED BY <1>0, <1>12

-----------------------------------------------------------------------------
(* What the transaction of one store looks like.                           *)

I(op, d, z) == [op |-> op, dir |-> d, zoom |-> z]

LEMMA InstructionsAre ==
    ASSUME NEW op \in Ops, NEW d \in Dirs \cup {Root}, NEW z \in Nat
    PROVE  I(op, d, z) \in Instructions
BY DEF I, Instructions

LEMMA OneMore ==
    ASSUME NEW S, NEW s \in Seq(S), NEW x \in S
    PROVE  LET P == s \o <<x>> IN
           /\ P \in Seq(S) /\ Len(P) = Len(s) + 1 /\ P[Len(s) + 1] = x
           /\ \A i \in 1 .. Len(s) : P[i] = s[i]
<1>1. PICK v \in Seq(S) : v = <<x>> /\ Len(v) = 1 /\ v[1] = x
  BY SingletonSeq
<1>2. Len(v) = 1 /\ v[1] = x
  BY <1>1
<1>3. PICK P : P = s \o v
  OBVIOUS
<1>4. IsConcat(S, s, v, P) /\ Len(s) \in Nat
  BY <1>3, ConcatIsConcat
<1>5. P \in Seq(S) /\ Len(P) = Len(s) + 1 /\ P[Len(s) + 1] = x /\ \A i \in 1 .. Len(s) : P[i] = s[i]
  BY <1>2, <1>4 DEF IsConcat
<1> QED BY <1>1, <1>3, <1>5

\* A part of five instructions.
Five(P, a, b, c, d, e) == Len(P) = 5 /\ P[1] = a /\ P[2] = b /\ P[3] = c /\ P[4] = d /\ P[5] = e

LEMMA FiveIs ==
    ASSUME NEW S, NEW a \in S, NEW b \in S, NEW c \in S, NEW d \in S, NEW e \in S
    PROVE  LET P == <<a>> \o <<b>> \o <<c>> \o <<d>> \o <<e>> IN P \in Seq(S) /\ Five(P, a, b, c, d, e)
<1>1. PICK p \in Seq(S) : p = <<a>> /\ Len(p) = 1 /\ p[1] = a
  BY SingletonSeq
<1>a. Len(p) = 1 /\ p[1] = a
  BY <1>1
<1>2. PICK q \in Seq(S) : q = p \o <<b>>
  BY OneMore
<1>b. Len(q) = 2 /\ q[1] = a /\ q[2] = b
  <2>1. Len(q) = Len(p) + 1 /\ q[Len(p) + 1] = b /\ \A i \in 1 .. Len(p) : q[i] = p[i]
    BY <1>2, OneMore
  <2> QED BY <1>a, <2>1
<1>3. PICK r \in Seq(S) : r = q \o <<c>>
  BY OneMore
<1>c. Len(r) = 3 /\ r[1] = a /\ r[2] = b /\ r[3] = c
  <2>1. Len(r) = Len(q) + 1 /\ r[Len(q) + 1] = c /\ \A i \in 1 .. Len(q) : r[i] = q[i]
    BY <1>3, OneMore
  <2> QED BY <1>b, <2>1
<1>4. PICK s \in Seq(S) : s = r \o <<d>>
  BY OneMore
<1>d. Len(s) = 4 /\ s[1] = a /\ s[2] = b /\ s[3] = c /\ s[4] = d
  <2>1. Len(s) = Len(r) + 1 /\ s[Len(r) + 1] = d /\ \A i \in 1 .. Len(r) : s[i] = r[i]
    BY <1>4, OneMore
  <2> QED BY <1>c, <2>1
<1>5. PICK t \in Seq(S) : t = s \o <<e>>
  BY OneMore
<1>e. Five(t, a, b, c, d, e)
  <2>1. Len(t) = Len(s) + 1 /\ t[Len(s) + 1] = e /\ \A i \in 1 .. Len(s) : t[i] = s[i]
    BY <1>5, OneMore
  <2> QED BY <1>d, <2>1 DEF Five
<1> QED BY <1>1, <1>2, <1>3, <1>4, <1>5, <1>e, Zenon

LEMMA ZoomsAre ==
    /\ BaseZoom \in Nat /\ MinZoom \in Nat /\ MinZoom >= 1 /\ MinZoom <= BaseZoom
    /\ Zooms = MinZoom .. BaseZoom
BY TransactionAssumption DEF TransactionAssumption, Zooms

LEMMA OneLevelIs ==
    ASSUME NEW d \in Dirs, NEW z \in Nat
    PROVE  /\ BuildOneLevel(d, z) \in Seq(Instructions)
           /\ Five(BuildOneLevel(d, z), I("scan", d, z), I("lock", d, z), I("open", d, z), I("put", d, z),
                   I("unlock", d, z))
<1>1. /\ I("scan", d, z) \in Instructions /\ I("lock", d, z) \in Instructions /\ I("open", d, z) \in Instructions
      /\ I("put", d, z) \in Instructions /\ I("unlock", d, z) \in Instructions
  BY InstructionsAre DEF Ops
<1>2. /\ At("scan", d, z) = <<I("scan", d, z)>> /\ Lock(Level(d, z)) = <<I("lock", d, z)>>
      /\ At("open", d, z) = <<I("open", d, z)>> /\ At("put", d, z) = <<I("put", d, z)>>
      /\ Unlock(Level(d, z)) = <<I("unlock", d, z)>>
  BY DEF At, Lock, Unlock, Level, I
<1> QED BY ONLY <1>1, <1>2, FiveIs DEF BuildOneLevel

LEMMA RewriteBaseIs ==
    ASSUME NEW d \in Dirs
    PROVE  /\ RewriteBase(d) \in Seq(Instructions)
           /\ Five(RewriteBase(d), I("lock", d, BaseZoom), I("open", d, BaseZoom), I("scan", d, BaseZoom),
                   I("put", d, BaseZoom), I("unlock", d, BaseZoom))
<1>0. PICK z \in Nat : z = BaseZoom
  BY ZoomsAre
<1>1. /\ I("scan", d, z) \in Instructions /\ I("lock", d, z) \in Instructions /\ I("open", d, z) \in Instructions
      /\ I("put", d, z) \in Instructions /\ I("unlock", d, z) \in Instructions
  BY InstructionsAre DEF Ops
<1>2. /\ Do("scan", d) = <<I("scan", d, z)>> /\ Lock(Level(d, BaseZoom)) = <<I("lock", d, z)>>
      /\ Do("open", d) = <<I("open", d, z)>> /\ Do("put", d) = <<I("put", d, z)>>
      /\ Unlock(Level(d, BaseZoom)) = <<I("unlock", d, z)>>
  BY <1>0 DEF At, Do, Lock, Unlock, Level, I
<1>3. /\ RewriteBase(d) \in Seq(Instructions)
      /\ Five(RewriteBase(d), I("lock", d, z), I("open", d, z), I("scan", d, z), I("put", d, z), I("unlock", d, z))
  BY ONLY <1>1, <1>2, FiveIs DEF RewriteBase
<1> QED BY <1>0, <1>3

LevelsOf(d) == [i \in 1 .. (BaseZoom - MinZoom) |-> BuildOneLevel(d, BaseZoom - i)]

LEMMA PyramidLevelsAre ==
    ASSUME NEW d \in Dirs
    PROVE  /\ BuildPyramidLevels(d) \in Seq(Instructions)
           /\ Len(BuildPyramidLevels(d)) = 5 * (BaseZoom - MinZoom)
           /\ \A j \in 1 .. (BaseZoom - MinZoom), k \in 1 .. 5 :
                  BuildPyramidLevels(d)[5 * (j - 1) + k] = BuildOneLevel(d, BaseZoom - j)[k]
<1>1. BaseZoom - MinZoom \in Nat /\ \A i \in 1 .. (BaseZoom - MinZoom) : BaseZoom - i \in Nat
  BY ZoomsAre
<1>2. PICK seqs : seqs = LevelsOf(d)
  OBVIOUS
<1>3. \A i \in 1 .. (BaseZoom - MinZoom) : seqs[i] = BuildOneLevel(d, BaseZoom - i)
  BY <1>2 DEF LevelsOf
<1>4. \A i \in 1 .. (BaseZoom - MinZoom) : seqs[i] \in Seq(Instructions) /\ Len(seqs[i]) = 5
  BY <1>1, <1>3, OneLevelIs DEF Five
<1>5. seqs \in Seq(Seq(Instructions)) /\ Len(seqs) = BaseZoom - MinZoom /\ DOMAIN seqs = 1 .. (BaseZoom - MinZoom)
  <2>1. seqs = [i \in 1 .. (BaseZoom - MinZoom) |-> seqs[i]]
    BY <1>2 DEF LevelsOf
  <2>2. seqs \in Seq(Seq(Instructions))
    BY <1>1, <1>4, <2>1
  <2> QED BY <1>1, <2>1, <2>2
<1>6. FlattenSeq(seqs) = BuildPyramidLevels(d)
  BY <1>2 DEF BuildPyramidLevels, LevelsOf
<1>7. /\ FlattenSeq(seqs) \in Seq(Instructions)
      /\ Len(FlattenSeq(seqs)) = 5 * Len(seqs)
      /\ \A i \in DOMAIN seqs, k \in 1 .. 5 : FlattenSeq(seqs)[5 * (i - 1) + k] = seqs[i][k]
  BY <1>4, <1>5, FlattenFives
<1> QED BY <1>3, <1>5, <1>6, <1>7

LEMMA FencedIs ==
    ASSUME NEW d \in Dirs, NEW body \in Seq(Instructions)
    PROVE  LET P == Fenced(d, body) IN
           /\ P \in Seq(Instructions) /\ Len(P) = Len(body) + 4 /\ DOMAIN P = 1 .. (Len(body) + 4)
           /\ P[1] = I("lockWithin", d, 0) /\ P[2] = I("begin", d, BaseZoom)
           /\ \A m \in 1 .. Len(body) : P[m + 2] = body[m]
           /\ P[Len(body) + 3] = I("finish", d, BaseZoom) /\ P[Len(body) + 4] = I("unlock", d, 0)
<1>0. PICK n \in Nat : n = Len(body)
  OBVIOUS
<1>1. PICK a \in Instructions : a = I("lockWithin", d, 0)
  BY InstructionsAre DEF Ops
<1>2. PICK b \in Instructions : b = I("begin", d, BaseZoom)
  BY InstructionsAre, ZoomsAre DEF Ops
<1>3. PICK e \in Instructions : e = I("finish", d, BaseZoom)
  BY InstructionsAre, ZoomsAre DEF Ops
<1>4. PICK f \in Instructions : f = I("unlock", d, 0)
  BY InstructionsAre DEF Ops
<1>5. /\ LockWithin(Mutex(d)) = <<a>> /\ Do("begin", d) = <<b>> /\ Do("finish", d) = <<e>> /\ Unlock(Mutex(d)) = <<f>>
  BY <1>1, <1>2, <1>3, <1>4 DEF LockWithin, Unlock, Do, At, Mutex, I
<1>6. PICK u \in Seq(Instructions) : u = <<a>> \o <<b>> /\ Len(u) = 2 /\ u[1] = a /\ u[2] = b
  <2>1. PICK t \in Seq(Instructions) : t = <<a>>
    BY SingletonSeq
  <2>2. Len(t) = 1 /\ t[1] = a
    BY <2>1
  <2>a. PICK u : u = t \o <<b>>
    OBVIOUS
  <2>3. u \in Seq(Instructions) /\ Len(u) = Len(t) + 1 /\ u[Len(t) + 1] = b /\ \A i \in 1 .. Len(t) : u[i] = t[i]
    BY <2>a, OneMore
  <2>4. Len(u) = 2 /\ u[1] = a /\ u[2] = b
    BY <2>2, <2>3
  <2> QED BY <2>1, <2>a, <2>3, <2>4
<1>a. Len(u) = 2 /\ u[1] = a /\ u[2] = b
  BY <1>6
<1>7. PICK v \in Seq(Instructions) : v = <<e>> /\ Len(v) = 1 /\ v[1] = e
  BY SingletonSeq
<1>b. Len(v) = 1 /\ v[1] = e
  BY <1>7
<1>8. PICK w \in Seq(Instructions) : w = <<f>> /\ Len(w) = 1 /\ w[1] = f
  BY SingletonSeq
<1>c. Len(w) = 1 /\ w[1] = f
  BY <1>8
<1>9. PICK Q : Q = u \o body
  OBVIOUS
<1>10. PICK R : R = Q \o v
  OBVIOUS
<1>11. PICK P : P = R \o w
  OBVIOUS
<1>12. Fenced(d, body) = P
  BY <1>5, <1>6, <1>7, <1>8, <1>9, <1>10, <1>11, Zenon DEF Fenced
<1>13. IsConcat(Instructions, u, body, Q)
  BY <1>9, ConcatIsConcat
<1>14. Q \in Seq(Instructions) /\ Len(Q) = n + 2
  BY <1>0, <1>a, <1>13 DEF IsConcat
<1>15. IsConcat(Instructions, Q, v, R)
  BY <1>10, <1>14, ConcatIsConcat
<1>16. R \in Seq(Instructions) /\ Len(R) = n + 3
  BY <1>b, <1>14, <1>15 DEF IsConcat
<1>17. IsConcat(Instructions, R, w, P)
  BY <1>11, <1>16, ConcatIsConcat
<1>18. P \in Seq(Instructions) /\ Len(P) = n + 4
  BY <1>c, <1>16, <1>17 DEF IsConcat
<1>19. \A i \in 1 .. (n + 3) : P[i] = R[i]
  <2> SUFFICES ASSUME NEW i \in 1 .. (n + 3) PROVE P[i] = R[i]
    OBVIOUS
  <2>1. i \in 1 .. (Len(R) + Len(w)) /\ i <= Len(R)
    BY <1>16, <1>c
  <2> QED BY <1>17, <2>1 DEF IsConcat
<1>20. P[n + 4] = f
  BY <1>16, <1>17, <1>c DEF IsConcat
<1>21. \A i \in 1 .. (n + 2) : R[i] = Q[i]
  BY <1>14, <1>15, <1>b DEF IsConcat
<1>22. R[n + 3] = e
  BY <1>14, <1>15, <1>b DEF IsConcat
<1>23. Q[1] = a /\ Q[2] = b
  BY <1>0, <1>13, <1>a DEF IsConcat
<1>24. \A m \in 1 .. n : Q[m + 2] = body[m]
  <2> TAKE m \in 1 .. n
  <2>1. m + 2 \in 1 .. (Len(u) + Len(body)) /\ ~(m + 2 <= Len(u)) /\ (m + 2) - Len(u) = m
    BY <1>0, <1>a
  <2>2. Q[m + 2] = body[(m + 2) - Len(u)]
    BY <1>13, <2>1 DEF IsConcat
  <2> QED BY <2>1, <2>2
<1>25. P[1] = a /\ P[2] = b /\ P[n + 3] = e
  BY <1>19, <1>21, <1>22, <1>23
<1>26. \A m \in 1 .. n : P[m + 2] = body[m]
  BY <1>19, <1>21, <1>24
<1>27. DOMAIN P = 1 .. (n + 4)
  BY <1>18
<1> QED BY <1>0, <1>1, <1>2, <1>3, <1>4, <1>12, <1>18, <1>20, <1>25, <1>26, <1>27

Rungs == BaseZoom - MinZoom

\* The transaction of store d, with or without (b = 5 or 0) its base level.
StoreShape(P, d, b) ==
    /\ P \in Seq(Instructions) /\ Len(P) = 5 * Rungs + b + 4 /\ DOMAIN P = 1 .. (5 * Rungs + b + 4)
    /\ P[1] = I("lockWithin", d, 0) /\ P[2] = I("begin", d, BaseZoom)
    /\ P[5 * Rungs + b + 3] = I("finish", d, BaseZoom) /\ P[5 * Rungs + b + 4] = I("unlock", d, 0)
    /\ b = 5 => /\ P[3] = I("lock", d, BaseZoom) /\ P[4] = I("open", d, BaseZoom) /\ P[5] = I("scan", d, BaseZoom)
                /\ P[6] = I("put", d, BaseZoom) /\ P[7] = I("unlock", d, BaseZoom)
    /\ \A j \in 1 .. Rungs :
           /\ P[5 * j + b - 2] = I("scan", d, BaseZoom - j) /\ P[5 * j + b - 1] = I("lock", d, BaseZoom - j)
           /\ P[5 * j + b] = I("open", d, BaseZoom - j) /\ P[5 * j + b + 1] = I("put", d, BaseZoom - j)
           /\ P[5 * j + b + 2] = I("unlock", d, BaseZoom - j)

LEMMA RungsAre ==
    /\ Rungs \in Nat
    /\ \A j \in 1 .. Rungs : BaseZoom - j \in MinZoom .. (BaseZoom - 1)
    /\ \A z \in MinZoom .. (BaseZoom - 1) : BaseZoom - z \in 1 .. Rungs /\ BaseZoom - (BaseZoom - z) = z
BY ZoomsAre DEF Rungs

LEMMA LevelOf ==
    ASSUME NEW d \in Dirs, NEW j \in 1 .. Rungs
    PROVE  LET L == BuildPyramidLevels(d) IN
           /\ L[5 * j - 4] = I("scan", d, BaseZoom - j) /\ L[5 * j - 3] = I("lock", d, BaseZoom - j)
           /\ L[5 * j - 2] = I("open", d, BaseZoom - j) /\ L[5 * j - 1] = I("put", d, BaseZoom - j)
           /\ L[5 * j] = I("unlock", d, BaseZoom - j)
<1>0. PICK z \in Nat : z = BaseZoom - j
  BY RungsAre, ZoomsAre
<1>1. PICK L : L = BuildPyramidLevels(d)
  OBVIOUS
<1>2. PICK B : B = BuildOneLevel(d, z)
  OBVIOUS
<1>3. \A k \in 1 .. 5 : L[5 * (j - 1) + k] = B[k]
  BY <1>0, <1>1, <1>2, PyramidLevelsAre DEF Rungs
<1>4. Five(B, I("scan", d, z), I("lock", d, z), I("open", d, z), I("put", d, z), I("unlock", d, z))
  BY <1>2, OneLevelIs
<1>5. /\ 5 * (j - 1) + 1 = 5 * j - 4 /\ 5 * (j - 1) + 2 = 5 * j - 3 /\ 5 * (j - 1) + 3 = 5 * j - 2
      /\ 5 * (j - 1) + 4 = 5 * j - 1 /\ 5 * (j - 1) + 5 = 5 * j
  BY RungsAre
<1>6. L[5 * (j - 1) + 1] = B[1] /\ L[5 * (j - 1) + 2] = B[2] /\ L[5 * (j - 1) + 3] = B[3]
      /\ L[5 * (j - 1) + 4] = B[4] /\ L[5 * (j - 1) + 5] = B[5]
  BY ONLY <1>3
<1>7. /\ L[5 * j - 4] = B[1] /\ L[5 * j - 3] = B[2] /\ L[5 * j - 2] = B[3] /\ L[5 * j - 1] = B[4] /\ L[5 * j] = B[5]
  BY ONLY <1>5, <1>6
<1> QED BY <1>0, <1>1, <1>4, <1>7 DEF Five

LEMMA PyramidShape ==
    ASSUME NEW d \in Dirs
    PROVE  StoreShape(BuildPyramid(d), d, 0)
<1>1. PICK L \in Seq(Instructions) : L = BuildPyramidLevels(d)
  BY PyramidLevelsAre
<1>2. Len(L) = 5 * Rungs /\ Rungs \in Nat
  BY <1>1, PyramidLevelsAre, RungsAre DEF Rungs
<1>3. PICK P : P = Fenced(d, L)
  OBVIOUS
<1>4. /\ P \in Seq(Instructions) /\ Len(P) = Len(L) + 4 /\ DOMAIN P = 1 .. (Len(L) + 4)
      /\ P[1] = I("lockWithin", d, 0) /\ P[2] = I("begin", d, BaseZoom)
      /\ \A m \in 1 .. Len(L) : P[m + 2] = L[m]
      /\ P[Len(L) + 3] = I("finish", d, BaseZoom) /\ P[Len(L) + 4] = I("unlock", d, 0)
  BY <1>3, FencedIs
<1>5. ASSUME NEW j \in 1 .. Rungs
      PROVE  /\ P[5 * j + 0 - 2] = I("scan", d, BaseZoom - j) /\ P[5 * j + 0 - 1] = I("lock", d, BaseZoom - j)
             /\ P[5 * j + 0] = I("open", d, BaseZoom - j) /\ P[5 * j + 0 + 1] = I("put", d, BaseZoom - j)
             /\ P[5 * j + 0 + 2] = I("unlock", d, BaseZoom - j)
  <2>1. /\ 5 * j - 4 \in 1 .. Len(L) /\ (5 * j - 4) + 2 = 5 * j + 0 - 2
        /\ 5 * j - 3 \in 1 .. Len(L) /\ (5 * j - 3) + 2 = 5 * j + 0 - 1
        /\ 5 * j - 2 \in 1 .. Len(L) /\ (5 * j - 2) + 2 = 5 * j + 0
        /\ 5 * j - 1 \in 1 .. Len(L) /\ (5 * j - 1) + 2 = 5 * j + 0 + 1
        /\ 5 * j \in 1 .. Len(L) /\ (5 * j) + 2 = 5 * j + 0 + 2
    BY <1>2
  <2>2. /\ P[5 * j + 0 - 2] = L[5 * j - 4] /\ P[5 * j + 0 - 1] = L[5 * j - 3] /\ P[5 * j + 0] = L[5 * j - 2]
        /\ P[5 * j + 0 + 1] = L[5 * j - 1] /\ P[5 * j + 0 + 2] = L[5 * j]
    BY <1>4, <2>1
  <2> QED BY <1>1, <2>2, LevelOf
<1>6. Len(L) + 4 = 5 * Rungs + 0 + 4 /\ Len(L) + 3 = 5 * Rungs + 0 + 3
  BY <1>2
<1>7. StoreShape(P, d, 0)
  BY <1>4, <1>5, <1>6 DEF StoreShape
<1> QED BY <1>1, <1>3, <1>7 DEF BuildPyramid

LEMMA RewriteShape ==
    ASSUME NEW d \in Dirs
    PROVE  StoreShape(RewriteStore(d), d, 5)
<1>1. PICK L \in Seq(Instructions) : L = BuildPyramidLevels(d)
  BY PyramidLevelsAre
<1>2. Len(L) = 5 * Rungs /\ Rungs \in Nat
  BY <1>1, PyramidLevelsAre, RungsAre DEF Rungs
<1>b. PICK B \in Seq(Instructions) : B = RewriteBase(d)
  BY RewriteBaseIs
<1>c. Five(B, I("lock", d, BaseZoom), I("open", d, BaseZoom), I("scan", d, BaseZoom), I("put", d, BaseZoom),
           I("unlock", d, BaseZoom))
  BY <1>b, RewriteBaseIs
<1>d. PICK body : body = B \o L
  OBVIOUS
<1>e. IsConcat(Instructions, B, L, body) /\ Len(B) = 5
  BY <1>c, <1>d, ConcatIsConcat DEF Five
<1>f. body \in Seq(Instructions) /\ Len(body) = 5 * Rungs + 5
  BY <1>2, <1>e DEF IsConcat
<1>g. \A i \in 1 .. 5 : body[i] = B[i]
  BY <1>2, <1>e DEF IsConcat
<1>h. \A i \in 1 .. Len(L) : body[5 + i] = L[i]
  <2> TAKE i \in 1 .. Len(L)
  <2>1. 5 + i \in 1 .. (Len(B) + Len(L)) /\ ~(5 + i <= Len(B)) /\ (5 + i) - Len(B) = i
    BY <1>2, <1>e
  <2>2. body[5 + i] = L[(5 + i) - Len(B)]
    BY <2>1, <1>e DEF IsConcat
  <2> QED BY <2>1, <2>2
<1>3. PICK P : P = Fenced(d, body)
  OBVIOUS
<1>4. /\ P \in Seq(Instructions) /\ Len(P) = Len(body) + 4 /\ DOMAIN P = 1 .. (Len(body) + 4)
      /\ P[1] = I("lockWithin", d, 0) /\ P[2] = I("begin", d, BaseZoom)
      /\ \A m \in 1 .. Len(body) : P[m + 2] = body[m]
      /\ P[Len(body) + 3] = I("finish", d, BaseZoom) /\ P[Len(body) + 4] = I("unlock", d, 0)
  BY <1>3, <1>f, FencedIs
<1>5. ASSUME NEW j \in 1 .. Rungs
      PROVE  /\ P[5 * j + 5 - 2] = I("scan", d, BaseZoom - j) /\ P[5 * j + 5 - 1] = I("lock", d, BaseZoom - j)
             /\ P[5 * j + 5] = I("open", d, BaseZoom - j) /\ P[5 * j + 5 + 1] = I("put", d, BaseZoom - j)
             /\ P[5 * j + 5 + 2] = I("unlock", d, BaseZoom - j)
  <2>1. ASSUME NEW m \in 1 .. Len(L)
        PROVE  P[m + 7] = L[m]
    <3>1. 5 + m \in 1 .. Len(body) /\ (5 + m) + 2 = m + 7
      BY <1>2, <1>f
    <3> QED BY <1>4, <1>h, <3>1
  <2>2. /\ 5 * j - 4 \in 1 .. Len(L) /\ (5 * j - 4) + 7 = 5 * j + 5 - 2
        /\ 5 * j - 3 \in 1 .. Len(L) /\ (5 * j - 3) + 7 = 5 * j + 5 - 1
        /\ 5 * j - 2 \in 1 .. Len(L) /\ (5 * j - 2) + 7 = 5 * j + 5
        /\ 5 * j - 1 \in 1 .. Len(L) /\ (5 * j - 1) + 7 = 5 * j + 5 + 1
        /\ 5 * j \in 1 .. Len(L) /\ (5 * j) + 7 = 5 * j + 5 + 2
    BY <1>2
  <2>3. /\ P[5 * j + 5 - 2] = L[5 * j - 4] /\ P[5 * j + 5 - 1] = L[5 * j - 3] /\ P[5 * j + 5] = L[5 * j - 2]
        /\ P[5 * j + 5 + 1] = L[5 * j - 1] /\ P[5 * j + 5 + 2] = L[5 * j]
    BY <2>1, <2>2
  <2> QED BY <1>1, <2>3, LevelOf
<1>6. Len(body) + 4 = 5 * Rungs + 5 + 4 /\ Len(body) + 3 = 5 * Rungs + 5 + 3
  BY <1>2, <1>f
<1>7. P[3] = B[1] /\ P[4] = B[2] /\ P[5] = B[3] /\ P[6] = B[4] /\ P[7] = B[5]
  <2>1. \A m \in 1 .. 5 : P[m + 2] = B[m]
    <3>1. \A m \in 1 .. 5 : m \in 1 .. Len(body)
      BY <1>2, <1>f
    <3> QED BY <1>4, <1>g, <3>1
  <2> QED BY ONLY <2>1
<1>8. StoreShape(P, d, 5)
  BY <1>4, <1>5, <1>6, <1>7, <1>c DEF StoreShape, Five
<1> QED BY <1>1, <1>3, <1>8, <1>b, <1>d DEF RewriteStore

-----------------------------------------------------------------------------
(* The transaction of one store is a part of a program.                    *)

PlaceOf(b, i) ==
    \/ i \in {1, 2, 5 * Rungs + b + 3, 5 * Rungs + b + 4}
    \/ b = 5 /\ i \in {3, 4, 5, 6, 7}
    \/ \E j \in 1 .. Rungs : i \in {5 * j + b - 2, 5 * j + b - 1, 5 * j + b, 5 * j + b + 1, 5 * j + b + 2}

LEMMA StorePlaces ==
    ASSUME NEW P, NEW d, NEW b \in {0, 5}, StoreShape(P, d, b), NEW i \in DOMAIN P
    PROVE  PlaceOf(b, i)
<1>1. i \in 1 .. (5 * Rungs + b + 4) /\ Rungs \in Nat
  BY RungsAre DEF StoreShape
<1>2. CASE i < b + 3 \/ i > 5 * Rungs + b + 2
  BY <1>1, <1>2 DEF PlaceOf
<1>3. CASE ~(i < b + 3 \/ i > 5 * Rungs + b + 2)
  <2> DEFINE j == (i - b + 2) \div 5
  <2>1. j \in Int /\ 5 * j <= i - b + 2 /\ i - b + 2 <= 5 * j + 4
    BY <1>1
  <2> HIDE DEF j
  <2>2. j \in 1 .. Rungs
    BY <1>1, <1>3, <2>1
  <2>3. i \in {5 * j + b - 2, 5 * j + b - 1, 5 * j + b, 5 * j + b + 1, 5 * j + b + 2}
    BY <1>1, <2>1
  <2> QED BY <2>2, <2>3 DEF PlaceOf
<1> QED BY <1>2, <1>3

\* What is at place i.
TextAt(P, d, b, i) ==
    /\ P[i].dir = d
    /\ P[i].op \in {"lock", "lockWithin", "unlock", "begin", "finish", "scan", "open", "put"}
    /\ P[i].op = "begin" <=> i = 2
    /\ P[i].op = "finish" <=> i = 5 * Rungs + b + 3
    /\ Drops(P[i], Mutex(d)) => i = 5 * Rungs + b + 4
    /\ P[i].op = "put" => /\ i = 5 * (BaseZoom - P[i].zoom) + b + 1
                          /\ P[i].zoom = BaseZoom => b = 5
                          /\ P[i].zoom \in Zooms

LEMMA StoreTexts ==
    ASSUME NEW P, NEW d, NEW b \in {0, 5}, StoreShape(P, d, b), NEW i \in DOMAIN P
    PROVE  TextAt(P, d, b, i)
<1>0. Rungs \in Nat /\ i \in 1 .. (5 * Rungs + b + 4)
  BY RungsAre DEF StoreShape
<1>1. CASE i = 1
  <2>1. P[i] = I("lockWithin", d, 0) /\ i # 2 /\ i # 5 * Rungs + b + 3
    BY <1>0, <1>1 DEF StoreShape
  <2> QED BY <2>1 DEF TextAt, I, Drops
<1>2. CASE i = 2
  <2>1. P[i] = I("begin", d, BaseZoom) /\ i # 5 * Rungs + b + 3
    BY <1>0, <1>2 DEF StoreShape
  <2> QED BY <1>2, <2>1 DEF TextAt, I, Drops
<1>3. CASE i = 5 * Rungs + b + 3
  <2>1. P[i] = I("finish", d, BaseZoom) /\ i # 2
    BY <1>0, <1>3 DEF StoreShape
  <2> QED BY <1>3, <2>1 DEF TextAt, I, Drops
<1>4. CASE i = 5 * Rungs + b + 4
  <2>1. P[i] = I("unlock", d, 0) /\ i # 2 /\ i # 5 * Rungs + b + 3
    BY <1>0, <1>4 DEF StoreShape
  <2> QED BY <1>4, <2>1 DEF TextAt, I, Drops
<1>5. CASE b = 5 /\ i \in {3, 4, 5, 6, 7}
  <2>1. /\ P[i] \in {I("lock", d, BaseZoom), I("open", d, BaseZoom), I("scan", d, BaseZoom), I("unlock", d, BaseZoom)}
           \/ (P[i] = I("put", d, BaseZoom) /\ i = 6)
        /\ i # 2 /\ i # 5 * Rungs + b + 3
    BY <1>0, <1>5 DEF StoreShape
  <2>2. BaseZoom # 0 /\ BaseZoom \in Zooms /\ 5 * (BaseZoom - BaseZoom) + b + 1 = 6
    BY <1>5, ZoomsAre
  <2> QED BY ONLY <1>5, <2>1, <2>2 DEF TextAt, I, Drops, Mutex
<1>6. ASSUME NEW j \in 1 .. Rungs, i \in {5 * j + b - 2, 5 * j + b - 1, 5 * j + b, 5 * j + b + 1, 5 * j + b + 2}
      PROVE  TextAt(P, d, b, i)
  <2>1. PICK z \in MinZoom .. (BaseZoom - 1) : z = BaseZoom - j
    BY RungsAre
  <2>2. z \in Zooms /\ z # BaseZoom /\ z # 0 /\ BaseZoom - z = j /\ j \in Nat
    BY <2>1, ZoomsAre
  <2>3. i # 2 /\ i # 5 * Rungs + b + 3
    BY <1>6, RungsAre
  <2>4. P[i] \in {I("scan", d, z), I("lock", d, z), I("open", d, z), I("unlock", d, z)}
        \/ (P[i] = I("put", d, z) /\ i = 5 * j + b + 1)
    BY <1>6, <2>1 DEF StoreShape
  <2>5. P[i] = I("put", d, z) => i = 5 * (BaseZoom - z) + b + 1
    <3>1. I("put", d, z) \notin {I("scan", d, z), I("lock", d, z), I("open", d, z), I("unlock", d, z)}
      BY DEF I
    <3> QED BY <2>2, <2>4, <3>1
  <2> QED BY ONLY <2>2, <2>3, <2>4, <2>5 DEF TextAt, I, Drops, Mutex
<1>7. PlaceOf(b, i)
  BY StorePlaces
<1> QED BY <1>1, <1>2, <1>3, <1>4, <1>5, <1>6, <1>7 DEF PlaceOf

LEMMA StoreHolds ==
    ASSUME NEW P, NEW d, NEW b \in {0, 5}, StoreShape(P, d, b), NEW i \in DOMAIN P, i >= 2
    PROVE  Holding(P, i, Mutex(d))
<1>1. DOMAIN P = 1 .. (5 * Rungs + b + 4) /\ Rungs \in Nat /\ P[1] = I("lockWithin", d, 0)
  BY RungsAre DEF StoreShape
<1>2. Takes(P[1], Mutex(d)) /\ 1 \in 1 .. (i - 1)
  BY <1>1 DEF I, Takes, Mutex
<1>3. \A n \in (1 + 1) .. (i - 1) : ~Drops(P[n], Mutex(d))
  <2> TAKE n \in (1 + 1) .. (i - 1)
  <2>1. n \in DOMAIN P /\ n # 5 * Rungs + b + 4
    BY <1>1
  <2> QED BY <2>1, StoreTexts DEF TextAt
<1> QED BY <1>2, <1>3 DEF Holding

\* From the second place to the last but one the store's fence is up.
LEMMA StoreFences ==
    ASSUME NEW P, NEW d, NEW b \in {0, 5}, StoreShape(P, d, b), NEW i \in DOMAIN P, NEW e, NEW m \in 1 .. (i - 1)
    PROVE  Fences(P, m, i, e) <=> e = d /\ m = 2 /\ i <= 5 * Rungs + b + 3
<1>1. DOMAIN P = 1 .. (5 * Rungs + b + 4) /\ Rungs \in Nat
  BY RungsAre DEF StoreShape
<1>2. m \in DOMAIN P /\ i \in 1 .. (5 * Rungs + b + 4) /\ m < i
  BY <1>1
<1>3. ASSUME Fences(P, m, i, e)
      PROVE  e = d /\ m = 2 /\ i <= 5 * Rungs + b + 3
  <2>1. P[m].op = "begin" /\ P[m].dir = e
    BY <1>3 DEF Fences, Is
  <2>2. e = d /\ m = 2
    BY <1>2, <2>1, StoreTexts DEF TextAt
  <2>3. ASSUME i = 5 * Rungs + b + 4 PROVE FALSE
    <3>1. 5 * Rungs + b + 3 \in (m + 1) .. (i - 1) /\ 5 * Rungs + b + 3 \in DOMAIN P
      BY <1>1, <2>2, <2>3
    <3>2. Is(P[5 * Rungs + b + 3], "finish", d)
      BY <3>1, StoreTexts DEF TextAt, Is
    <3> QED BY <1>3, <2>2, <3>1, <3>2 DEF Fences
  <2> QED BY <1>2, <2>2, <2>3, <1>1
<1>4. ASSUME e = d, m = 2, i <= 5 * Rungs + b + 3
      PROVE  Fences(P, m, i, e)
  <2>1. Is(P[m], "begin", e)
    BY <1>2, <1>4, StoreTexts DEF TextAt, Is
  <2>2. \A n \in (m + 1) .. (i - 1) : ~Is(P[n], "finish", e)
    <3> TAKE n \in (m + 1) .. (i - 1)
    <3>1. n \in DOMAIN P /\ n # 5 * Rungs + b + 3
      BY <1>1, <1>2, <1>4
    <3> QED BY <3>1, StoreTexts DEF TextAt, Is
  <2> QED BY <1>2, <2>1, <2>2 DEF Fences
<1> QED BY <1>3, <1>4

LEMMA StoreFencing ==
    ASSUME NEW P, NEW d, NEW b \in {0, 5}, StoreShape(P, d, b), NEW i \in DOMAIN P, NEW e
    PROVE  Fencing(P, i, e) <=> e = d /\ 3 <= i /\ i <= 5 * Rungs + b + 3
<1>1. DOMAIN P = 1 .. (5 * Rungs + b + 4) /\ Rungs \in Nat
  BY RungsAre DEF StoreShape
<1>2. 2 \in 1 .. (i - 1) <=> 3 <= i
  BY <1>1
<1> QED BY <1>1, <1>2, StoreFences DEF Fencing

LEMMA StorePassed ==
    ASSUME NEW P, NEW d, NEW b \in {0, 5}, StoreShape(P, d, b), NEW i \in DOMAIN P, NEW z \in Zooms
    PROVE  Passed(P, i, d, z) <=> /\ z = BaseZoom => b = 5
                                  /\ 5 * (BaseZoom - z) + b + 1 < i
                                  /\ i <= 5 * Rungs + b + 3
<1>1. DOMAIN P = 1 .. (5 * Rungs + b + 4) /\ Rungs \in Nat /\ Len(P) \in Nat
  BY RungsAre DEF StoreShape
<1>2. BaseZoom - z \in 0 .. Rungs /\ BaseZoom \in Nat /\ z \in Nat
  BY ZoomsAre DEF Rungs
<1>3. ASSUME Passed(P, i, d, z)
      PROVE  (z = BaseZoom => b = 5) /\ 5 * (BaseZoom - z) + b + 1 < i /\ i <= 5 * Rungs + b + 3
  <2>1. PICK m, n \in 1 .. (i - 1) : m < n /\ Fences(P, m, i, d) /\ Puts(P[n], d, z)
    BY <1>3 DEF Passed
  <2>2. i <= 5 * Rungs + b + 3
    BY <2>1, StoreFences
  <2>3. n \in DOMAIN P /\ P[n].op = "put" /\ P[n].zoom = z
    BY <1>1, <2>1 DEF Puts
  <2>4. n = 5 * (BaseZoom - z) + b + 1 /\ (z = BaseZoom => b = 5)
    BY <2>3, StoreTexts DEF TextAt
  <2> QED BY <2>2, <2>4, <1>1
<1>4. ASSUME z = BaseZoom => b = 5, 5 * (BaseZoom - z) + b + 1 < i, i <= 5 * Rungs + b + 3
      PROVE  Passed(P, i, d, z)
  <2>1. PICK n : n = 5 * (BaseZoom - z) + b + 1
    OBVIOUS
  <2>2. P[n] = I("put", d, z)
    <3>1. CASE z = BaseZoom
      <4>1. b = 5 /\ n = 6
        BY <1>2, <1>4, <2>1, <3>1
      <4> QED BY <3>1, <4>1 DEF StoreShape
    <3>2. CASE z # BaseZoom
      <4>1. BaseZoom - z \in 1 .. Rungs /\ BaseZoom - (BaseZoom - z) = z
        BY <1>2, <3>2
      <4> QED BY <2>1, <4>1 DEF StoreShape
    <3> QED BY <3>1, <3>2
  <2>3. n \in 1 .. (i - 1) /\ 2 \in 1 .. (i - 1) /\ 2 < n
    BY <1>1, <1>2, <1>4, <2>1
  <2>4. Fences(P, 2, i, d)
    BY <1>4, <2>3, StoreFences
  <2> QED BY <2>2, <2>3, <2>4 DEF Passed, Puts, I
<1> QED BY <1>3, <1>4

LEMMA HeldSince ==
    ASSUME NEW P, NEW l, NEW m \in Nat, m >= 1, NEW i \in Nat, m < i, Takes(P[m], l),
           \A n \in (m + 1) .. (i - 1) : P[n].op # "unlock"
    PROVE  Holding(P, i, l)
<1>1. m \in 1 .. (i - 1)
  OBVIOUS
<1> QED BY <1>1 DEF Holding, Drops

\* Where and how the store's levels are worked on and locked.
WorkAt(P, d, b, H, i) ==
    /\ InTurn(P, i) /\ LocksFit(H, P, i)
    /\ Works(P[i]) => /\ 3 <= i /\ i <= 5 * Rungs + b + 3
                      /\ i <= 5 * (BaseZoom - P[i].zoom) + b + 1
                      /\ P[i].zoom \in Zooms
                      /\ P[i].zoom = BaseZoom => b = 5
                      /\ P[i].op # "scan" => Holding(P, i, Level(d, P[i].zoom))

LEMMA PlainWork ==
    ASSUME NEW P, NEW d, NEW b, NEW H, NEW i, P[i].op \notin {"scan", "open", "put"}, LocksFit(H, P, i)
    PROVE  WorkAt(P, d, b, H, i)
BY DEF WorkAt, InTurn, Works

LEMMA EndPlacesWork ==
    ASSUME NEW P, NEW d \in Dirs, NEW b \in {0, 5}, StoreShape(P, d, b), NEW H \in SUBSET {Master, IngestLock},
           NEW i \in {1, 2, 5 * Rungs + b + 3, 5 * Rungs + b + 4}
    PROVE  WorkAt(P, d, b, H, i)
<1>0. Rungs \in Nat /\ i \in DOMAIN P /\ i \in Nat
  BY RungsAre DEF StoreShape
<1>1. Mutex(d) \in Locks /\ Mutex(d) \notin H /\ Mutex(d) = <<d, 0>>
  BY TransactionAssumption DEF TransactionAssumption, Locks, Mutex, Master, IngestLock
<1>2. CASE i = 1
  <2>1. P[i] = I("lockWithin", d, 0)
    BY <1>2 DEF StoreShape
  <2>2. LocksFit(H, P, i)
    BY <1>1, <2>1 DEF LocksFit, I
  <2>3. P[i].op = "lockWithin"
    BY <2>1 DEF I
  <2> QED BY <2>2, <2>3, PlainWork
<1>3. CASE i \in {2, 5 * Rungs + b + 3}
  <2>1. P[i] \in {I("begin", d, BaseZoom), I("finish", d, BaseZoom)}
    BY <1>3 DEF StoreShape
  <2>2. P[i].op \in {"begin", "finish"}
    BY <2>1 DEF I
  <2>3. LocksFit(H, P, i)
    BY <2>2 DEF LocksFit
  <2> QED BY <2>2, <2>3, PlainWork
<1>4. CASE i = 5 * Rungs + b + 4
  <2>1. P[i] = I("unlock", d, 0)
    BY <1>4 DEF StoreShape
  <2>2. Holding(P, i, Mutex(d))
    <3>1. i >= 2
      BY <1>0, <1>4
    <3> QED BY <1>0, <3>1, StoreHolds
  <2>3. LocksFit(H, P, i)
    BY <1>1, <2>1, <2>2 DEF LocksFit, I
  <2>4. P[i].op = "unlock"
    BY <2>1 DEF I
  <2> QED BY <2>3, <2>4, PlainWork
<1> QED BY <1>2, <1>3, <1>4

LEMMA LevelsAreLocks ==
    ASSUME NEW d \in Dirs, NEW z \in Zooms, NEW H \in SUBSET {Master, IngestLock}
    PROVE  Level(d, z) \in Locks /\ Level(d, z) \notin H /\ Level(d, z) = <<d, z>>
BY TransactionAssumption DEF TransactionAssumption, Locks, Level, Master, IngestLock

LEMMA BasePlacesWork ==
    ASSUME NEW P, NEW d \in Dirs, NEW b \in {0, 5}, StoreShape(P, d, b), NEW H \in SUBSET {Master, IngestLock},
           b = 5, NEW i \in {3, 4, 5, 6, 7}
    PROVE  WorkAt(P, d, b, H, i)
<1>0. Rungs \in Nat /\ BaseZoom \in Zooms /\ BaseZoom \in Nat /\ i \in Nat
  BY RungsAre, ZoomsAre
<1>1. Level(d, BaseZoom) \in Locks /\ Level(d, BaseZoom) \notin H /\ Level(d, BaseZoom) = <<d, BaseZoom>>
  BY <1>0, LevelsAreLocks
<1>2. /\ P[3] = I("lock", d, BaseZoom) /\ P[4] = I("open", d, BaseZoom) /\ P[5] = I("scan", d, BaseZoom)
      /\ P[6] = I("put", d, BaseZoom) /\ P[7] = I("unlock", d, BaseZoom)
  BY DEF StoreShape
<1>3. ASSUME i > 3
      PROVE  Holding(P, i, Level(d, BaseZoom))
  <2>1. Takes(P[3], Level(d, BaseZoom))
    BY <1>1, <1>2 DEF I, Takes
  <2>2. \A n \in (3 + 1) .. (i - 1) : n \in {4, 5, 6}
    OBVIOUS
  <2>3. P[4].op # "unlock" /\ P[5].op # "unlock" /\ P[6].op # "unlock"
    BY <1>2 DEF I
  <2> QED BY <1>0, <1>3, <2>1, <2>2, <2>3, HeldSince
<1>4. /\ 3 <= i /\ i <= 5 * Rungs + b + 3
      /\ i # 7 => i <= 5 * (BaseZoom - BaseZoom) + b + 1
  BY <1>0
<1>5. CASE i \in {3, 7}
  <2>1. P[i] = I("lock", d, BaseZoom) \/ (P[i] = I("unlock", d, BaseZoom) /\ i > 3)
    BY <1>2, <1>5
  <2>2. LocksFit(H, P, i)
    BY <1>1, <1>3, <2>1 DEF LocksFit, I
  <2>3. P[i].op \in {"lock", "unlock"}
    BY <2>1 DEF I
  <2> QED BY <2>2, <2>3, PlainWork
<1>6. CASE i \in {4, 5, 6}
  <2>1. P[i] \in {I("open", d, BaseZoom), I("scan", d, BaseZoom), I("put", d, BaseZoom)}
    BY <1>2, <1>6
  <2>2. LocksFit(H, P, i)
    BY <2>1 DEF LocksFit, I
  <2>3. InTurn(P, i)
    <3>1. CASE i = 4
      <4>1. P[i] = I("open", d, BaseZoom)
        BY <1>2, <3>1
      <4> QED BY <1>0, <4>1 DEF InTurn, I
    <3>2. CASE i = 5
      <4>1. P[i] = I("scan", d, BaseZoom) /\ P[i - 1] = I("open", d, BaseZoom)
        BY <1>2, <3>2
      <4> QED BY <1>0, <3>2, <4>1 DEF InTurn, I
    <3>3. CASE i = 6
      <4>1. P[i] = I("put", d, BaseZoom) /\ P[i - 1] = I("scan", d, BaseZoom)
        BY <1>2, <3>3
      <4> QED BY <1>0, <3>3, <4>1 DEF InTurn, I
    <3> QED BY <1>6, <3>1, <3>2, <3>3
  <2>4. P[i].zoom = BaseZoom /\ i # 7 /\ i > 3
    BY <1>6, <2>1 DEF I
  <2> QED BY <1>0, <1>3, <1>4, <2>2, <2>3, <2>4 DEF WorkAt
<1> QED BY <1>5, <1>6

LEMMA LevelPlacesWork ==
    ASSUME NEW P, NEW d \in Dirs, NEW b \in {0, 5}, StoreShape(P, d, b), NEW H \in SUBSET {Master, IngestLock},
           NEW j \in 1 .. Rungs,
           NEW i \in {5 * j + b - 2, 5 * j + b - 1, 5 * j + b, 5 * j + b + 1, 5 * j + b + 2}
    PROVE  WorkAt(P, d, b, H, i)
<1>0. Rungs \in Nat /\ i \in Nat /\ j \in Nat
  BY RungsAre
<1>1. PICK z \in MinZoom .. (BaseZoom - 1) : z = BaseZoom - j
  BY RungsAre
<1>2. z \in Zooms /\ z < BaseZoom /\ z # BaseZoom /\ BaseZoom - z = j
  BY <1>1, ZoomsAre
<1>3. Level(d, z) \in Locks /\ Level(d, z) \notin H /\ Level(d, z) = <<d, z>>
  BY <1>2, LevelsAreLocks
<1>4. PICK m \in Nat : m = 5 * j + b - 1
  BY <1>0
<1>5. /\ P[m - 1] = I("scan", d, z) /\ P[m] = I("lock", d, z) /\ P[m + 1] = I("open", d, z)
      /\ P[m + 2] = I("put", d, z) /\ P[m + 3] = I("unlock", d, z)
  <2>1. m - 1 = 5 * j + b - 2 /\ m + 1 = 5 * j + b /\ m + 2 = 5 * j + b + 1 /\ m + 3 = 5 * j + b + 2
    BY <1>4, <1>0
  <2> QED BY <1>1, <1>4, <2>1 DEF StoreShape
<1>6. i \in {m - 1, m, m + 1, m + 2, m + 3} /\ m >= 4
  BY <1>0, <1>4
<1>7. ASSUME i > m
      PROVE  Holding(P, i, Level(d, z))
  <2>1. Takes(P[m], Level(d, z))
    BY <1>3, <1>5 DEF I, Takes
  <2>2. \A n \in (m + 1) .. (i - 1) : n \in {m + 1, m + 2}
    BY <1>6
  <2>3. P[m + 1].op # "unlock" /\ P[m + 2].op # "unlock"
    BY <1>5 DEF I
  <2>4. \A n \in (m + 1) .. (i - 1) : P[n].op # "unlock"
    BY <2>2, <2>3
  <2>5. m >= 1 /\ m < i
    BY <1>6, <1>7
  <2> QED BY ONLY <1>0, <1>4, <2>1, <2>4, <2>5, m \in Nat, HeldSince
<1>8. /\ 3 <= i /\ i <= 5 * Rungs + b + 3
      /\ i # m + 3 => i <= 5 * (BaseZoom - z) + b + 1
  BY <1>0, <1>2, <1>4, <1>6
<1>9. CASE i \in {m, m + 3}
  <2>1. P[i] = I("lock", d, z) \/ (P[i] = I("unlock", d, z) /\ i > m)
    BY <1>5, <1>9
  <2>2. LocksFit(H, P, i)
    BY <1>3, <1>7, <2>1 DEF LocksFit, I
  <2>3. P[i].op \in {"lock", "unlock"}
    BY <2>1 DEF I
  <2> QED BY <2>2, <2>3, PlainWork
<1>10. CASE i \in {m - 1, m + 1, m + 2}
  <2>1. P[i] \in {I("scan", d, z), I("open", d, z), I("put", d, z)}
    BY <1>5, <1>10
  <2>2. LocksFit(H, P, i)
    BY <2>1 DEF LocksFit, I
  <2>3. InTurn(P, i)
    <3>1. CASE i = m - 1
      <4>1. P[i] = I("scan", d, z)
        BY <1>5, <3>1
      <4> QED BY <1>2, <4>1 DEF InTurn, I
    <3>2. CASE i = m + 1
      <4>1. P[i] = I("open", d, z) /\ P[i - 1] = I("lock", d, z) /\ P[i - 2] = I("scan", d, z) /\ i > 2
        <5>1. i - 1 = m /\ i - 2 = m - 1 /\ i > 2
          BY <1>6, <3>2
        <5> QED BY <1>5, <3>2, <5>1
      <4> QED BY <4>1 DEF InTurn, I
    <3>3. CASE i = m + 2
      <4>1. P[i] = I("put", d, z) /\ P[i - 1] = I("open", d, z) /\ i > 1
        <5>1. i - 1 = m + 1 /\ i > 1
          BY <1>6, <3>3
        <5> QED BY <1>5, <3>3, <5>1
      <4> QED BY <1>2, <4>1 DEF InTurn, I
    <3> QED BY <1>10, <3>1, <3>2, <3>3
  <2>4. P[i].zoom = z /\ i # m + 3
    BY <1>6, <1>10, <2>1 DEF I
  <2>5. P[i].op # "scan" => i > m
    <3>1. P[m - 1].op = "scan"
      BY <1>5 DEF I
    <3> QED BY <1>10, <3>1
  <2> QED BY <1>2, <1>7, <1>8, <2>2, <2>3, <2>4, <2>5 DEF WorkAt
<1> QED BY <1>6, <1>9, <1>10

\* Who may run the transaction of a store, and holding the master.
MayRun(kind, H, d, b) ==
    /\ b = 5 => Master \in H /\ IF d = Total THEN kind \in {"scoped", "world", "combine"} ELSE kind = "world"
    /\ b = 0 => (kind = "scoped" => Master \in H) /\ (d = Total => kind = "pyramid")

LEMMA StoreFits ==
    ASSUME NEW kind, NEW layers, NEW H \in SUBSET {Master, IngestLock}, NEW d \in Dirs, NEW b \in {0, 5},
           MayRun(kind, H, d, b), NEW P, StoreShape(P, d, b)
    PROVE  Part(kind, layers, H, P)
<1>1. P \in Seq(Instructions) /\ Rungs \in Nat /\ DOMAIN P = 1 .. (5 * Rungs + b + 4) /\ Len(P) = 5 * Rungs + b + 4
  BY RungsAre DEF StoreShape
<1>2. Closed(P)
  <2> SUFFICES ASSUME NEW m \in DOMAIN P, NEW e \in Dirs, Is(P[m], "begin", e)
               PROVE  \E f \in (m + 1) .. Len(P) : Is(P[f], "finish", e)
    BY DEF Closed
  <2>1. m = 2 /\ e = d
    BY StoreTexts DEF TextAt, Is
  <2>2. Is(P[5 * Rungs + b + 3], "finish", d)
    BY DEF StoreShape, I, Is
  <2>3. 5 * Rungs + b + 3 \in (m + 1) .. Len(P)
    BY <1>1, <2>1
  <2> QED BY <2>1, <2>2, <2>3
<1>3. ASSUME NEW i \in DOMAIN P
      PROVE  PlaceFits(kind, layers, H, P, i)
  <2>1. TextAt(P, d, b, i)
    BY StoreTexts
  <2>2. WorkAt(P, d, b, H, i)
    BY StorePlaces, EndPlacesWork, BasePlacesWork, LevelPlacesWork DEF PlaceOf
  <2>3. \A e : Fencing(P, i, e) <=> e = d /\ 3 <= i /\ i <= 5 * Rungs + b + 3
    BY StoreFencing
  <2>4. \A z \in Zooms : Passed(P, i, d, z) <=> /\ z = BaseZoom => b = 5
                                                /\ 5 * (BaseZoom - z) + b + 1 < i
                                                /\ i <= 5 * Rungs + b + 3
    BY StorePassed
  <2>5. i >= 2 => Holding(P, i, Mutex(d))
    BY StoreHolds
  <2>6. FencesFit(P, i)
    <3>1. ASSUME NEW e \in Dirs, Is(P[i], "begin", e) \/ Is(P[i], "finish", e) \/ Fencing(P, i, e)
          PROVE  Holding(P, i, Mutex(e))
      <4>1. e = d /\ i >= 2
        BY <1>1, <2>1, <2>3, <3>1 DEF TextAt, Is
      <4> QED BY <2>5, <4>1
    <3>2. ASSUME NEW e \in Dirs, Is(P[i], "finish", e)
          PROVE  Fencing(P, i, e) /\ \A z \in MinZoom .. (BaseZoom - 1) : Passed(P, i, e, z)
      <4>1. e = d /\ i = 5 * Rungs + b + 3
        BY <2>1, <3>2 DEF TextAt, Is
      <4>2. Fencing(P, i, e)
        BY <1>1, <2>3, <4>1
      <4>3. ASSUME NEW z \in MinZoom .. (BaseZoom - 1)
            PROVE  Passed(P, i, e, z)
        <5>1. z \in Zooms /\ z # BaseZoom /\ BaseZoom - z \in 1 .. Rungs
          BY ZoomsAre, RungsAre
        <5>2. 5 * (BaseZoom - z) + b + 1 < i
          BY <1>1, <4>1, <5>1
        <5> QED BY <1>1, <2>4, <4>1, <5>1, <5>2
      <4> QED BY <4>2, <4>3
    <3> QED BY <3>1, <3>2 DEF FencesFit
  <2>7. WorkFits(P, i)
    <3> SUFFICES ASSUME Works(P[i])
                 PROVE  /\ P[i].dir \in Dirs /\ P[i].zoom \in Zooms
                        /\ P[i].op # "scan" => Holding(P, i, Level(P[i].dir, P[i].zoom))
                        /\ P[i].zoom < BaseZoom \/ P[i].dir = Total => Fencing(P, i, P[i].dir)
                        /\ \A z \in Zooms : z <= P[i].zoom => ~Passed(P, i, P[i].dir, z)
      BY DEF WorkFits
    <3>1. /\ 3 <= i /\ i <= 5 * Rungs + b + 3 /\ i <= 5 * (BaseZoom - P[i].zoom) + b + 1 /\ P[i].zoom \in Zooms
          /\ P[i].op # "scan" => Holding(P, i, Level(d, P[i].zoom))
      BY <2>2 DEF WorkAt
    <3>2. P[i].dir = d
      BY <2>1 DEF TextAt
    <3>3. ASSUME NEW z \in Zooms, z <= P[i].zoom
          PROVE  ~Passed(P, i, d, z)
      <4>1. ~(5 * (BaseZoom - z) + b + 1 < i)
        <5>1. PICK h \in Zooms : h = P[i].zoom
          BY <3>1
        <5>2. i <= 5 * (BaseZoom - h) + b + 1 /\ z <= h
          BY ONLY <3>1, <3>3, <5>1
        <5>3. BaseZoom - h \in Int /\ BaseZoom - z \in Int /\ BaseZoom - h <= BaseZoom - z
          <6>1. h \in Int /\ z \in Int /\ BaseZoom \in Int
            BY ZoomsAre
          <6> QED BY ONLY <5>2, <6>1
        <5>4. i \in Int /\ b \in Int
          BY <1>1
        <5> QED BY ONLY <5>2, <5>3, <5>4
      <4> QED BY <2>4, <4>1
    <3> QED BY <2>3, <3>1, <3>2, <3>3
  <2>8. KindFits(kind, layers, H, P, i)
    <3>1. P[i].dir = d
      BY <2>1 DEF TextAt
    <3>2. Works(P[i]) => 3 <= i /\ i <= 5 * Rungs + b + 3 /\ (P[i].zoom = BaseZoom => b = 5)
      BY <2>2 DEF WorkAt
    <3>3. ASSUME Works(P[i]), P[i].zoom = BaseZoom
          PROVE  /\ Master \in H /\ b = 5 /\ Fencing(P, i, d)
                 /\ IF d = Total THEN kind \in {"scoped", "world", "combine"} ELSE kind = "world"
      BY <2>3, <3>2, <3>3 DEF MayRun
    <3>4. ASSUME kind = "scoped"
          PROVE  Master \in H
      BY <3>4 DEF MayRun
    <3>5. ASSUME Is(P[i], "finish", Total), kind # "pyramid"
          PROVE  Passed(P, i, Total, BaseZoom)
      <4>1. d = Total /\ i = 5 * Rungs + b + 3
        BY <2>1, <3>1, <3>5 DEF TextAt, Is
      <4>2. b = 5
        BY <3>5, <4>1 DEF MayRun
      <4>3. BaseZoom \in Zooms /\ 5 * (BaseZoom - BaseZoom) + b + 1 < i
        BY <1>1, <4>1, ZoomsAre
      <4> QED BY <2>4, <4>1, <4>2, <4>3, <1>1
    <3> QED BY <3>1, <3>3, <3>4, <3>5 DEF KindFits
  <2> QED BY <2>2, <2>6, <2>7, <2>8 DEF PlaceFits, WorkAt
<1> QED BY <1>1, <1>2, <1>3 DEF Part

-----------------------------------------------------------------------------
(* The other parts of the programs.                                        *)

Includes(s, x) == \E n \in DOMAIN s : s[n] = x

LEMMA IncludesConcat ==
    ASSUME NEW S, NEW a \in Seq(S), NEW b \in Seq(S), NEW x, Includes(a, x) \/ Includes(b, x)
    PROVE  Includes(a \o b, x)
<1>1. PICK c : c = a \o b
  OBVIOUS
<1>2. IsConcat(S, a, b, c) /\ Len(a) \in Nat /\ Len(b) \in Nat /\ DOMAIN a = 1 .. Len(a) /\ DOMAIN b = 1 .. Len(b)
  BY <1>1, ConcatIsConcat
<1>3. DOMAIN c = 1 .. (Len(a) + Len(b))
  BY <1>2 DEF IsConcat
<1>4. CASE Includes(a, x)
  <2>1. PICK n \in 1 .. Len(a) : a[n] = x
    BY <1>2, <1>4 DEF Includes
  <2>2. n \in 1 .. (Len(a) + Len(b)) /\ n <= Len(a)
    BY <1>2
  <2>3. c[n] = a[n]
    BY <1>2, <2>2 DEF IsConcat
  <2> QED BY <1>1, <1>3, <2>1, <2>2, <2>3 DEF Includes
<1>5. CASE Includes(b, x)
  <2>1. PICK n \in 1 .. Len(b) : b[n] = x
    BY <1>2, <1>5 DEF Includes
  <2>2. Len(a) + n \in 1 .. (Len(a) + Len(b)) /\ ~(Len(a) + n <= Len(a)) /\ (Len(a) + n) - Len(a) = n
    BY <1>2
  <2>3. c[Len(a) + n] = b[(Len(a) + n) - Len(a)]
    BY <1>2, <2>2 DEF IsConcat
  <2> QED BY <1>1, <1>3, <2>1, <2>2, <2>3 DEF Includes
<1> QED BY <1>4, <1>5

LEMMA IncludesFlatten ==
    ASSUME NEW S, NEW seqs \in Seq(Seq(S)), NEW i \in DOMAIN seqs, NEW x, Includes(seqs[i], x)
    PROVE  Includes(FlattenSeq(seqs), x)
<1>1. PICK u, v \in Seq(S) : FlattenSeq(seqs) = u \o seqs[i] \o v
  BY FlattenCovers
<1>2. PICK s \in Seq(S) : s = seqs[i]
  OBVIOUS
<1>3. PICK t : t = u \o s
  OBVIOUS
<1>4. t \in Seq(S)
  BY <1>3, ConcatProperties
<1>5. Includes(t, x)
  BY <1>2, <1>3, IncludesConcat
<1>6. Includes(t \o v, x)
  BY <1>4, <1>5, IncludesConcat
<1> QED BY <1>1, <1>2, <1>3, <1>6

LEMMA SeqJoinable ==
    ASSUME NEW S
    PROVE  Joinable(Seq(S))
BY ConcatProperties DEF Joinable

Parts(kind, layers, H) == {s \in Seq(Instructions) : Part(kind, layers, H, s)}

LEMMA PartsJoinable ==
    ASSUME NEW kind, NEW layers, NEW H
    PROVE  Joinable(Parts(kind, layers, H))
<1>1. <<>> \in Parts(kind, layers, H)
  BY PartEmpty DEF Parts
<1>2. ASSUME NEW a \in Parts(kind, layers, H), NEW b \in Parts(kind, layers, H)
      PROVE  a \o b \in Parts(kind, layers, H)
  <2>1. a \in Seq(Instructions) /\ b \in Seq(Instructions) /\ Part(kind, layers, H, a) /\ Part(kind, layers, H, b)
    BY DEF Parts
  <2>2. Part(kind, layers, H, a \o b)
    BY <2>1, PartConcat
  <2>3. a \o b \in Seq(Instructions)
    BY <2>1, ConcatProperties
  <2> QED BY <2>2, <2>3 DEF Parts
<1> QED BY <1>1, <1>2 DEF Joinable

\* A lock, or anything else that is no work and no fence, alone.
LEMMA SinglePart ==
    ASSUME NEW kind, NEW layers, NEW H, NEW x \in Instructions, x.op \notin {"scan", "open", "put", "unlock"},
           x.op \in {"begin", "finish"} => x.dir = Root,
           x.op \in {"lock", "lockWithin"} => <<x.dir, x.zoom>> \in Locks
    PROVE  Part(kind, layers, H, <<x>>)
<1>1. PICK s \in Seq(Instructions) : s = <<x>> /\ Len(s) = 1 /\ s[1] = x
  BY SingletonSeq
<1>2. Root \notin Dirs /\ Total \in Dirs
  BY TransactionAssumption DEF TransactionAssumption, Dirs
<1>3. s[1] = x /\ DOMAIN s = 1 .. 1
  BY <1>1
<1>4. Closed(s)
  <2>1. \A d \in Dirs : ~Is(x, "begin", d)
    BY <1>2 DEF Is
  <2> QED BY <1>3, <2>1 DEF Closed
<1>5. PlaceFits(kind, layers, H, s, 1)
  <2>1. InTurn(s, 1) /\ WorkFits(s, 1) /\ LocksFit(H, s, 1)
    BY <1>3 DEF InTurn, WorkFits, Works, LocksFit
  <2>2. FencesFit(s, 1) /\ KindFits(kind, layers, H, s, 1)
    BY <1>2, <1>3, NothingAtFirst DEF FencesFit, KindFits, Works, Is
  <2> QED BY <2>1, <2>2 DEF PlaceFits
<1>6. Part(kind, layers, H, s)
  BY <1>3, <1>4, <1>5 DEF Part
<1> QED BY <1>1, <1>6

\* The base of a source, without a fence.
MayIngest(kind, layers, H, l) ==
    kind \in {"scoped", "hub"} /\ (kind = "scoped" => Master \in H /\ l \in Members(layers))

LEMMA RewriteBaseFits ==
    ASSUME NEW kind, NEW layers, NEW H \in SUBSET {Master, IngestLock}, NEW l \in Sources, MayIngest(kind, layers, H, l)
    PROVE  Part(kind, layers, H, RewriteBase(l))
<1>0. l \in Dirs /\ l # Total /\ BaseZoom \in Zooms /\ BaseZoom \in Nat
  BY TransactionAssumption, ZoomsAre DEF TransactionAssumption, Dirs
<1>1. PICK P \in Seq(Instructions) : P = RewriteBase(l)
  BY <1>0, RewriteBaseIs
<1>2. /\ Len(P) = 5
      /\ P[1] = I("lock", l, BaseZoom) /\ P[2] = I("open", l, BaseZoom) /\ P[3] = I("scan", l, BaseZoom)
      /\ P[4] = I("put", l, BaseZoom) /\ P[5] = I("unlock", l, BaseZoom)
  BY <1>0, <1>1, RewriteBaseIs DEF Five
<1>3. DOMAIN P = 1 .. 5
  BY <1>2
<1>4. \A i \in 1 .. 5 : P[i].op \in {"lock", "open", "scan", "put", "unlock"} /\ P[i].dir = l /\ P[i].zoom = BaseZoom
  BY <1>2 DEF I
<1>5. \A i \in 1 .. 5 : \A d : ~Fencing(P, i, d)
  BY <1>4 DEF Fencing, Fences, Is
<1>6. \A i \in 1 .. 5 : \A d, z : ~Passed(P, i, d, z)
  BY <1>4 DEF Passed, Fences, Is
<1>7. Closed(P)
  BY <1>3, <1>4 DEF Closed, Is
<1>8. Level(l, BaseZoom) \in Locks /\ Level(l, BaseZoom) \notin H /\ Level(l, BaseZoom) = <<l, BaseZoom>>
  BY <1>0, LevelsAreLocks
<1>9. ASSUME NEW i \in 2 .. 5
      PROVE  Holding(P, i, Level(l, BaseZoom))
  <2>1. Takes(P[1], Level(l, BaseZoom))
    BY <1>2, <1>8 DEF I, Takes
  <2>2. \A n \in (1 + 1) .. (i - 1) : n \in {2, 3, 4}
    OBVIOUS
  <2>3. P[2].op # "unlock" /\ P[3].op # "unlock" /\ P[4].op # "unlock"
    BY <1>2 DEF I
  <2>4. \A n \in (1 + 1) .. (i - 1) : P[n].op # "unlock"
    BY <2>2, <2>3
  <2>5. 1 \in Nat /\ 1 >= 1 /\ i \in Nat /\ 1 < i
    OBVIOUS
  <2> QED BY ONLY <2>1, <2>4, <2>5, HeldSince
<1>10. ASSUME NEW i \in 1 .. 5
       PROVE  PlaceFits(kind, layers, H, P, i)
  <2>1. InTurn(P, i)
    <3>1. CASE i \in {1, 2, 5}
      <4>1. P[i] \in {I("lock", l, BaseZoom), I("open", l, BaseZoom), I("unlock", l, BaseZoom)}
        BY <1>2, <3>1
      <4> QED BY <1>0, <4>1 DEF InTurn, I
    <3>2. CASE i = 3
      <4>1. P[i] = I("scan", l, BaseZoom) /\ P[i - 1] = I("open", l, BaseZoom)
        BY <1>2, <3>2
      <4> QED BY <1>0, <3>2, <4>1 DEF InTurn, I
    <3>3. CASE i = 4
      <4>1. P[i] = I("put", l, BaseZoom) /\ P[i - 1] = I("scan", l, BaseZoom)
        BY <1>2, <3>3
      <4> QED BY <1>0, <3>3, <4>1 DEF InTurn, I
    <3> QED BY <3>1, <3>2, <3>3
  <2>2. LocksFit(H, P, i)
    <3>1. P[i].op = "unlock" => i \in 2 .. 5
      BY <1>2 DEF I
    <3>2. <<P[i].dir, P[i].zoom>> = Level(l, BaseZoom)
      BY <1>4, <1>8
    <3> QED BY <1>8, <1>9, <3>1, <3>2 DEF LocksFit
  <2>3. FencesFit(P, i)
    BY <1>4, <1>5 DEF FencesFit, Is
  <2>4. WorkFits(P, i)
    <3>1. P[i].op \in {"open", "put"} => i \in 2 .. 5
      BY <1>2 DEF I
    <3>2. P[i].dir = l /\ P[i].zoom = BaseZoom
      BY <1>4
    <3>3. Works(P[i]) /\ P[i].op # "scan" => P[i].op \in {"open", "put"}
      BY DEF Works
    <3> QED BY <1>0, <1>6, <1>9, <3>1, <3>2, <3>3 DEF WorkFits
  <2>5. KindFits(kind, layers, H, P, i)
    BY <1>0, <1>4, <1>5 DEF KindFits, MayIngest, Is
  <2> QED BY <2>1, <2>2, <2>3, <2>4, <2>5 DEF PlaceFits
<1> QED BY <1>1, <1>3, <1>7, <1>10 DEF Part

LEMMA IngestGroupFits ==
    ASSUME NEW kind, NEW layers, NEW H \in SUBSET {Master, IngestLock}, NEW l \in Sources, MayIngest(kind, layers, H, l)
    PROVE  Part(kind, layers, H, IngestGroup(l))
<1>1. Do("tripwire", l) = <<I("tripwire", l, BaseZoom)>>
  BY DEF Do, I
<1>2. I("tripwire", l, BaseZoom) \in Instructions
  BY InstructionsAre, ZoomsAre DEF Ops, Dirs
<1>3. Part(kind, layers, H, <<I("tripwire", l, BaseZoom)>>)
  <2>1. I("tripwire", l, BaseZoom).op = "tripwire"
    BY DEF I
  <2> QED BY <1>2, <2>1, SinglePart
<1> QED BY <1>1, <1>3, RewriteBaseFits, PartConcat DEF IngestGroup

\* Instructions by what they leave alone: the root's marker and the end of the
\* program; every fence; and the bases of the sources.
Quiet == {x \in Instructions : x.op \notin {"reject", "ship", "end"} /\ (x.op \in {"begin", "finish"} => x.dir \in Dirs)}
Unfenced == {x \in Quiet : x.op \notin {"begin", "finish"} /\ ~Drops(x, Master)}
Derives == {x \in Quiet : ~Drops(x, Master) /\ ~(Works(x) /\ x.zoom = BaseZoom /\ x.dir # Total)}

LEMMA QuietSeqs ==
    /\ Seq(Unfenced) \subseteq Seq(Quiet) /\ Seq(Derives) \subseteq Seq(Quiet) /\ Seq(Quiet) \subseteq Seq(Instructions)
    /\ Unfenced \subseteq Quiet /\ Derives \subseteq Quiet /\ Quiet \subseteq Instructions
<1>1. Unfenced \subseteq Quiet /\ Derives \subseteq Quiet /\ Quiet \subseteq Instructions
  BY DEF Unfenced, Derives, Quiet
<1> HIDE DEF Unfenced, Derives, Quiet
<1> QED BY <1>1

LEMMA SeqByPlaces ==
    ASSUME NEW S, NEW s \in Seq(Instructions), \A i \in DOMAIN s : s[i] \in S
    PROVE  s \in Seq(S)
BY SeqDef, Len(s) \in Nat, DOMAIN s = 1 .. Len(s)

LEMMA StoreQuiet ==
    ASSUME NEW P, NEW d \in Dirs, NEW b \in {0, 5}, StoreShape(P, d, b)
    PROVE  /\ P \in Seq(Quiet)
           /\ b = 0 \/ d = Total => P \in Seq(Derives)
<1>1. P \in Seq(Instructions)
  BY DEF StoreShape
<1>2. d # Root
  BY TransactionAssumption DEF TransactionAssumption
<1>3. ASSUME NEW i \in DOMAIN P
      PROVE  P[i] \in Quiet /\ (b = 0 \/ d = Total => P[i] \in Derives)
  <2>1. P[i] \in Instructions
    BY <1>1
  <2>2. /\ P[i].dir = d
        /\ P[i].op \in {"lock", "lockWithin", "unlock", "begin", "finish", "scan", "open", "put"}
    BY StoreTexts DEF TextAt
  <2>3. WorkAt(P, d, b, {}, i)
    BY StorePlaces, EndPlacesWork, BasePlacesWork, LevelPlacesWork DEF PlaceOf
  <2>4. Works(P[i]) /\ P[i].zoom = BaseZoom => b = 5
    BY <2>3 DEF WorkAt
  <2>5. ~Drops(P[i], Master)
    BY <1>2, <2>2 DEF Drops, Master
  <2>6. P[i] \in Quiet
    BY <2>1, <2>2 DEF Quiet
  <2> QED BY <2>2, <2>4, <2>5, <2>6 DEF Derives
<1> QED BY <1>1, <1>3, SeqByPlaces

LEMMA BuildPyramidIs ==
    ASSUME NEW kind, NEW layers, NEW H \in SUBSET {Master, IngestLock}, NEW d \in Dirs, MayRun(kind, H, d, 0)
    PROVE  /\ Part(kind, layers, H, BuildPyramid(d))
           /\ BuildPyramid(d) \in Seq(Derives)
           /\ Includes(BuildPyramid(d), I("finish", d, BaseZoom))
<1>1. PICK P : P = BuildPyramid(d)
  OBVIOUS
<1>2. StoreShape(P, d, 0)
  BY <1>1, PyramidShape
<1>3. Part(kind, layers, H, P) /\ P \in Seq(Derives)
  BY <1>2, StoreFits, StoreQuiet
<1>4. Includes(P, I("finish", d, BaseZoom))
  <2>1. 5 * Rungs + 0 + 3 \in DOMAIN P /\ P[5 * Rungs + 0 + 3] = I("finish", d, BaseZoom)
    BY <1>2, RungsAre DEF StoreShape
  <2> QED BY <2>1 DEF Includes
<1> QED BY <1>1, <1>3, <1>4

LEMMA RewriteStoreIs ==
    ASSUME NEW kind, NEW layers, NEW H \in SUBSET {Master, IngestLock}, NEW d \in Dirs, MayRun(kind, H, d, 5)
    PROVE  /\ Part(kind, layers, H, RewriteStore(d))
           /\ RewriteStore(d) \in Seq(Quiet)
           /\ d = Total => RewriteStore(d) \in Seq(Derives)
           /\ Includes(RewriteStore(d), I("finish", d, BaseZoom))
<1>1. PICK P : P = RewriteStore(d)
  OBVIOUS
<1>2. StoreShape(P, d, 5)
  BY <1>1, RewriteShape
<1>3. Part(kind, layers, H, P) /\ P \in Seq(Quiet) /\ (d = Total => P \in Seq(Derives))
  BY <1>2, StoreFits, StoreQuiet
<1>4. Includes(P, I("finish", d, BaseZoom))
  <2>1. 5 * Rungs + 5 + 3 \in DOMAIN P /\ P[5 * Rungs + 5 + 3] = I("finish", d, BaseZoom)
    BY <1>2, RungsAre DEF StoreShape
  <2> QED BY <2>1 DEF Includes
<1> QED BY <1>1, <1>3, <1>4

LEMMA IngestGroupIs ==
    ASSUME NEW l \in Sources
    PROVE  /\ IngestGroup(l) \in Seq(Unfenced)
           /\ Includes(IngestGroup(l), I("put", l, BaseZoom))
<1>0. l \in Dirs /\ l # Root /\ BaseZoom \in Nat
  BY TransactionAssumption, ZoomsAre DEF TransactionAssumption, Dirs
<1>1. PICK B \in Seq(Instructions) : B = RewriteBase(l)
  BY <1>0, RewriteBaseIs
<1>2. /\ Len(B) = 5
      /\ B[1] = I("lock", l, BaseZoom) /\ B[2] = I("open", l, BaseZoom) /\ B[3] = I("scan", l, BaseZoom)
      /\ B[4] = I("put", l, BaseZoom) /\ B[5] = I("unlock", l, BaseZoom)
  BY <1>0, <1>1, RewriteBaseIs DEF Five
<1>3. DOMAIN B = 1 .. 5
  BY <1>2
<1>4. \A i \in 1 .. 5 : B[i] \in Instructions /\ B[i].op \in {"lock", "open", "scan", "put", "unlock"} /\ B[i].dir = l
  <2>1. \A i \in 1 .. 5 : B[i] \in Instructions
    <3>1. Len(B) = 5
      BY <1>2
    <3> QED BY <3>1, ElementOfSeq
  <2>2. \A i \in 1 .. 5 : B[i].op \in {"lock", "open", "scan", "put", "unlock"} /\ B[i].dir = l
    BY <1>2 DEF I
  <2> QED BY <2>1, <2>2
<1>5. \A i \in 1 .. 5 : B[i] \in Unfenced
  BY <1>0, <1>4 DEF Unfenced, Quiet, Drops, Master
<1>6. B \in Seq(Unfenced)
  BY <1>3, <1>5, SeqByPlaces
<1>7. PICK x : x = I("tripwire", l, BaseZoom)
  OBVIOUS
<1>8. x \in Unfenced
  <2>1. x \in Instructions
    BY <1>0, <1>7, InstructionsAre DEF Ops
  <2>2. x.op = "tripwire"
    BY <1>7 DEF I
  <2> QED BY <2>1, <2>2 DEF Unfenced, Quiet, Drops
<1>9. PICK t \in Seq(Unfenced) : t = <<x>>
  BY <1>8, SingletonSeq
<1>10. IngestGroup(l) = t \o B
  BY <1>1, <1>7, <1>9 DEF IngestGroup, Do, I
<1>11. t \o B \in Seq(Unfenced)
  BY <1>6, ConcatProperties
<1>12. Includes(B, I("put", l, BaseZoom))
  BY <1>2, <1>3 DEF Includes
<1>13. Includes(t \o B, I("put", l, BaseZoom))
  BY <1>6, <1>12, IncludesConcat
<1> QED BY <1>10, <1>11, <1>13

\* A part between an outer lock and its release.
LEMMA OuterWraps ==
    ASSUME NEW kind, NEW layers, NEW l \in {Master, IngestLock}, NEW H \in SUBSET ({Master, IngestLock} \ {l}),
           NEW s, Part(kind, layers, H \cup {l}, s)
    PROVE  /\ Part(kind, layers, H, Lock(l) \o s \o Unlock(l))
           /\ Part(kind, layers, H, LockWithin(l) \o s \o Unlock(l))
<1>1. l \in Locks /\ l \notin H
  BY DEF Locks
<1>2. PICK n \in {0, 1} : l = <<Root, n>>
  BY DEF Master, IngestLock
<1>3. /\ Lock(l) = <<I("lock", Root, n)>> /\ LockWithin(l) = <<I("lockWithin", Root, n)>>
      /\ Unlock(l) = <<I("unlock", Root, n)>>
  BY <1>2 DEF Lock, LockWithin, Unlock, At, I
<1>4. I("lock", Root, n) \in Instructions /\ I("lockWithin", Root, n) \in Instructions /\ I("unlock", Root, n) \in Instructions
  BY InstructionsAre DEF Ops
<1>5. Takes(I("lock", Root, n), l) /\ Takes(I("lockWithin", Root, n), l) /\ Drops(I("unlock", Root, n), l)
  BY <1>2 DEF Takes, Drops, I
<1> QED BY ONLY <1>1, <1>3, <1>4, <1>5, Part(kind, layers, H \cup {l}, s), l \in Locks, LockWraps

LEMMA LayersAre ==
    ASSUME NEW layers \in Seq(Dirs)
    PROVE  /\ Len(layers) \in Nat /\ DOMAIN layers = 1 .. Len(layers)
           /\ \A i \in 1 .. Len(layers) : layers[i] \in Members(layers) /\ layers[i] \in Dirs
           /\ \A d \in Members(layers) : d \in Dirs /\ \E i \in 1 .. Len(layers) : layers[i] = d
BY DEF Members

LEMMA IngestIs ==
    ASSUME NEW kind \in {"scoped", "hub"}, NEW layers \in Seq(Sources), NEW groups \in SUBSET Members(layers),
           NEW H \in SUBSET {Master}, kind = "scoped" => Master \in H
    PROVE  /\ Part(kind, layers, H, Ingest(layers, groups))
           /\ Ingest(layers, groups) \in Seq(Unfenced)
           /\ \A l \in groups : Includes(Ingest(layers, groups), I("put", l, BaseZoom))
<1> DEFINE HI == H \cup {IngestLock}
<1>0. /\ Master # IngestLock /\ HI \in SUBSET {Master, IngestLock} /\ H \in SUBSET ({Master, IngestLock} \ {IngestLock})
      /\ (kind = "scoped" => Master \in HI)
  BY DEF Master, IngestLock
<1>1. PICK seqs : seqs = [i \in 1 .. Len(layers) |-> IF layers[i] \in groups THEN IngestGroup(layers[i]) ELSE <<>>]
  OBVIOUS
<1>2. PICK X : X = IF groups = {} THEN Do("bail", Root) ELSE FlattenSeq(seqs)
  OBVIOUS
<1>3. Ingest(layers, groups) = Lock(IngestLock) \o X \o Unlock(IngestLock)
  BY <1>1, <1>2 DEF Ingest, ForEach
<1>4. /\ Len(layers) \in Nat /\ DOMAIN layers = 1 .. Len(layers)
      /\ \A i \in 1 .. Len(layers) : layers[i] \in Members(layers) /\ layers[i] \in Sources
      /\ \A d \in Members(layers) : \E i \in 1 .. Len(layers) : layers[i] = d
  BY DEF Members
<1>5. \A i \in 1 .. Len(layers) :
          /\ seqs[i] \in Parts(kind, layers, HI)
          /\ seqs[i] \in Seq(Unfenced)
          /\ layers[i] \in groups => Includes(seqs[i], I("put", layers[i], BaseZoom))
  <2> TAKE i \in 1 .. Len(layers)
  <2>1. CASE layers[i] \notin groups
    <3>1. seqs[i] = <<>>
      BY <1>1, <2>1
    <3>2. <<>> \in Seq(Unfenced) /\ <<>> \in Parts(kind, layers, HI)
      BY PartEmpty DEF Parts
    <3> QED BY <2>1, <3>1, <3>2
  <2>2. CASE layers[i] \in groups
    <3>1. seqs[i] = IngestGroup(layers[i])
      BY <1>1, <2>2
    <3>2. MayIngest(kind, layers, HI, layers[i])
      BY <1>0, <1>4 DEF MayIngest
    <3>3. Part(kind, layers, HI, IngestGroup(layers[i]))
      BY <1>0, <1>4, <3>2, IngestGroupFits
    <3>4. IngestGroup(layers[i]) \in Seq(Unfenced) /\ Includes(IngestGroup(layers[i]), I("put", layers[i], BaseZoom))
      BY <1>4, IngestGroupIs
    <3>5. IngestGroup(layers[i]) \in Seq(Instructions)
      BY <3>3 DEF Part
    <3> QED BY <3>1, <3>3, <3>4, <3>5 DEF Parts
  <2> QED BY <2>1, <2>2
<1>6. /\ seqs \in Seq(Parts(kind, layers, HI)) /\ seqs \in Seq(Seq(Unfenced)) /\ DOMAIN seqs = 1 .. Len(layers)
  <2>1. seqs = [i \in 1 .. Len(layers) |-> seqs[i]]
    BY <1>1
  <2>2. \A T : (\A i \in 1 .. Len(layers) : seqs[i] \in T) => seqs \in Seq(T)
    BY <1>4, <2>1
  <2> QED BY <1>5, <2>1, <2>2
<1>7. FlattenSeq(seqs) \in Parts(kind, layers, HI) /\ FlattenSeq(seqs) \in Seq(Unfenced)
  BY <1>6, PartsJoinable, SeqJoinable, FlattenIn
<1>8. PICK x : x = I("bail", Root, BaseZoom)
  OBVIOUS
<1>9. x \in Instructions /\ x.op = "bail"
  BY <1>8, InstructionsAre, ZoomsAre DEF Ops, I
<1>10. Do("bail", Root) = <<x>>
  BY <1>8 DEF Do, I
<1>11. Part(kind, layers, HI, <<x>>)
  BY <1>9, SinglePart
<1>12. <<x>> \in Seq(Unfenced)
  <2>1. x \in Unfenced
    BY <1>9 DEF Unfenced, Quiet, Drops
  <2> QED BY <2>1, SingletonSeq
<1>13. Part(kind, layers, HI, X) /\ X \in Seq(Unfenced)
  <2>1. Part(kind, layers, HI, FlattenSeq(seqs))
    BY <1>7 DEF Parts
  <2> QED BY <1>2, <1>7, <1>10, <1>11, <1>12, <2>1
<1>14. Part(kind, layers, H, Ingest(layers, groups))
  <2>1. IngestLock \in {Master, IngestLock} /\ Part(kind, layers, H \cup {IngestLock}, X)
    BY <1>13
  <2>2. Part(kind, layers, H, Lock(IngestLock) \o X \o Unlock(IngestLock))
    BY ONLY <1>0, <2>1, OuterWraps
  <2> QED BY <1>3, <2>2
<1>15. \A l \in groups : Includes(X, I("put", l, BaseZoom))
  <2> TAKE l \in groups
  <2>1. PICK i \in 1 .. Len(layers) : layers[i] = l
    BY <1>4
  <2>2. Includes(FlattenSeq(seqs), I("put", l, BaseZoom))
    BY <1>5, <1>6, <2>1, IncludesFlatten
  <2> QED BY <1>2, <2>2
<1>16. PICK a \in Seq(Unfenced) : a = Lock(IngestLock)
  <2>1. Lock(IngestLock) = <<I("lock", Root, 1)>>
    BY DEF Lock, At, I, IngestLock
  <2>2. I("lock", Root, 1) \in Instructions /\ I("lock", Root, 1).op = "lock"
    BY InstructionsAre DEF Ops, I
  <2>3. I("lock", Root, 1) \in Unfenced
    BY <2>2 DEF Unfenced, Quiet, Drops
  <2> QED BY <2>1, <2>3, SingletonSeq
<1>17. PICK b \in Seq(Unfenced) : b = Unlock(IngestLock)
  <2>1. Unlock(IngestLock) = <<I("unlock", Root, 1)>>
    BY DEF Unlock, At, I, IngestLock
  <2>2. I("unlock", Root, 1) \in Instructions /\ I("unlock", Root, 1).op = "unlock" /\ I("unlock", Root, 1).zoom = 1
    BY InstructionsAre DEF Ops, I
  <2>3. I("unlock", Root, 1) \in Unfenced
    BY <2>2 DEF Unfenced, Quiet, Drops, Master
  <2> QED BY <2>1, <2>3, SingletonSeq
<1>18. PICK aX : aX = a \o X
  OBVIOUS
<1>19. aX \in Seq(Unfenced) /\ \A l \in groups : Includes(aX, I("put", l, BaseZoom))
  BY <1>13, <1>15, <1>18, ConcatProperties, IncludesConcat
<1>20. aX \o b \in Seq(Unfenced) /\ \A l \in groups : Includes(aX \o b, I("put", l, BaseZoom))
  BY <1>19, ConcatProperties, IncludesConcat
<1>21. Ingest(layers, groups) = aX \o b
  BY <1>3, <1>16, <1>17, <1>18
<1> QED BY <1>14, <1>20, <1>21

\* The pyramids of a list of layers.
LEMMA PyramidsAre ==
    ASSUME NEW kind, NEW layers, NEW H \in SUBSET {Master, IngestLock}, NEW list \in Seq(Dirs),
           \A d \in Members(list) : MayRun(kind, H, d, 0)
    PROVE  /\ Part(kind, layers, H, ForEach(list, BuildPyramid))
           /\ ForEach(list, BuildPyramid) \in Seq(Derives)
           /\ \A d \in Members(list) : Includes(ForEach(list, BuildPyramid), I("finish", d, BaseZoom))
<1>1. PICK seqs : seqs = [i \in 1 .. Len(list) |-> BuildPyramid(list[i])]
  OBVIOUS
<1>2. ForEach(list, BuildPyramid) = FlattenSeq(seqs)
  BY <1>1 DEF ForEach
<1>3. /\ Len(list) \in Nat /\ DOMAIN list = 1 .. Len(list)
      /\ \A i \in 1 .. Len(list) : list[i] \in Members(list) /\ list[i] \in Dirs
      /\ \A d \in Members(list) : d \in Dirs /\ \E i \in 1 .. Len(list) : list[i] = d
  BY LayersAre
<1>4. \A i \in 1 .. Len(list) :
          /\ seqs[i] \in Parts(kind, layers, H)
          /\ seqs[i] \in Seq(Derives)
          /\ Includes(seqs[i], I("finish", list[i], BaseZoom))
  <2> TAKE i \in 1 .. Len(list)
  <2>1. seqs[i] = BuildPyramid(list[i])
    BY <1>1
  <2>2. /\ Part(kind, layers, H, BuildPyramid(list[i]))
        /\ BuildPyramid(list[i]) \in Seq(Derives)
        /\ Includes(BuildPyramid(list[i]), I("finish", list[i], BaseZoom))
    BY <1>3, BuildPyramidIs
  <2>3. BuildPyramid(list[i]) \in Seq(Instructions)
    BY <2>2 DEF Part
  <2> QED BY <2>1, <2>2, <2>3 DEF Parts
<1>5. /\ seqs \in Seq(Parts(kind, layers, H)) /\ seqs \in Seq(Seq(Derives)) /\ DOMAIN seqs = 1 .. Len(list)
  <2>1. seqs = [i \in 1 .. Len(list) |-> seqs[i]]
    BY <1>1
  <2>2. \A T : (\A i \in 1 .. Len(list) : seqs[i] \in T) => seqs \in Seq(T)
    BY <1>3, <2>1
  <2> QED BY <1>4, <2>1, <2>2
<1>6. FlattenSeq(seqs) \in Parts(kind, layers, H) /\ FlattenSeq(seqs) \in Seq(Derives)
  BY <1>5, PartsJoinable, SeqJoinable, FlattenIn
<1>7. \A d \in Members(list) : Includes(FlattenSeq(seqs), I("finish", d, BaseZoom))
  <2> TAKE d \in Members(list)
  <2>1. PICK i \in 1 .. Len(list) : list[i] = d
    BY <1>3
  <2> QED BY <1>4, <1>5, <2>1, IncludesFlatten
<1> QED BY <1>2, <1>6, <1>7 DEF Parts

LEMMA OuterQuiet ==
    ASSUME NEW l \in {Master, IngestLock}, NEW s \in Seq(Quiet)
    PROVE  Lock(l) \o s \o Unlock(l) \in Seq(Quiet) /\ LockWithin(l) \o s \o Unlock(l) \in Seq(Quiet)
<1>2. PICK n \in {0, 1} : l = <<Root, n>>
  BY DEF Master, IngestLock
<1>3. /\ Lock(l) = <<I("lock", Root, n)>> /\ LockWithin(l) = <<I("lockWithin", Root, n)>>
      /\ Unlock(l) = <<I("unlock", Root, n)>>
  BY <1>2 DEF Lock, LockWithin, Unlock, At, I
<1>4. I("lock", Root, n) \in Instructions /\ I("lockWithin", Root, n) \in Instructions /\ I("unlock", Root, n) \in Instructions
  BY InstructionsAre DEF Ops
<1>5. I("lock", Root, n) \in Quiet /\ I("lockWithin", Root, n) \in Quiet /\ I("unlock", Root, n) \in Quiet
  BY <1>4 DEF Quiet, I
<1>6. PICK a, b, c \in Seq(Quiet) : a = Lock(l) /\ b = LockWithin(l) /\ c = Unlock(l)
  BY <1>3, <1>5, SingletonSeq
<1>7. a \o s \in Seq(Quiet) /\ b \o s \in Seq(Quiet)
  BY ConcatProperties
<1>8. (a \o s) \o c \in Seq(Quiet) /\ (b \o s) \o c \in Seq(Quiet)
  BY <1>7, ConcatProperties
<1> QED BY <1>6, <1>8

-----------------------------------------------------------------------------
(* The programs.                                                           *)

\* The root's marker: who stands in its fence holds the master; it is
\* finished when all that it covers is; and the bases come first.
RootFits(kind, layers, groups, prog, i) ==
    LET x == prog[i]
    IN  /\ Is(x, "begin", Root) \/ Is(x, "finish", Root) \/ Fencing(prog, i, Root) =>
               kind = "scoped" /\ Holding(prog, i, Master)
        /\ Is(x, "begin", Root) =>
               /\ \A d \in Dirs : ~Behind(prog, i, "finish", d)
               /\ \A l \in Sources : ~Written(prog, i, l, BaseZoom)
        /\ Is(x, "finish", Root) =>
               /\ Fencing(prog, i, Root)
               /\ \A d \in Members(layers) \cup {Total} : Behind(prog, i, "finish", d)
               /\ \A l \in groups : Written(prog, i, l, BaseZoom)
        /\ kind = "scoped" /\ (\E d \in Dirs : Is(x, "finish", d)) => Fencing(prog, i, Root)
        /\ kind = "scoped" /\ Works(x) /\ x.zoom = BaseZoom /\ x.dir # Total =>
               /\ Fencing(prog, i, Root)
               /\ \A d \in Dirs : ~Behind(prog, i, "begin", d) /\ ~Behind(prog, i, "finish", d)

\* A pack that ships has just looked at the markers, and has every level.
EndFits(kind, layers, prog, i) ==
    LET x == prog[i]
    IN  /\ i = Len(prog) => x.op = "end"
        /\ x.op = "ship" =>
               /\ kind = "pack" /\ i > 1 /\ prog[i - 1].op = "reject"
               /\ \A d \in Members(layers), z \in Zooms : Holding(prog, i, Level(d, z))

ProgramFits(kind, layers, groups, prog) ==
    /\ Part(kind, layers, {}, prog)
    /\ Len(prog) > 0
    /\ \A i \in DOMAIN prog : RootFits(kind, layers, groups, prog, i) /\ EndFits(kind, layers, prog, i)

LEMMA TheEnd ==
    /\ Do("end", Root) = <<I("end", Root, BaseZoom)>>
    /\ I("end", Root, BaseZoom) \in Instructions
    /\ I("end", Root, BaseZoom).op = "end"
BY InstructionsAre, ZoomsAre DEF Do, I, Ops

LEMMA QuietProgramFits ==
    ASSUME NEW kind, kind # "scoped", NEW layers, NEW groups, NEW s, Part(kind, layers, {}, s), s \in Seq(Quiet)
    PROVE  ProgramFits(kind, layers, groups, s \o Do("end", Root))
<1>1. PICK x \in Instructions : x = I("end", Root, BaseZoom)
  BY TheEnd
<1>2. x.op = "end" /\ Do("end", Root) = <<x>>
  BY <1>1, TheEnd
<1>3. PICK P : P = s \o <<x>>
  OBVIOUS
<1>4. s \in Seq(Instructions) /\ Len(s) \in Nat
  BY DEF Part
<1>5. P \in Seq(Instructions) /\ Len(P) = Len(s) + 1 /\ P[Len(s) + 1] = x /\ \A i \in 1 .. Len(s) : P[i] = s[i]
  BY <1>3, <1>4, OneMore
<1>6. Part(kind, layers, {}, P)
  <2>1. Part(kind, layers, {}, <<x>>)
    BY <1>2, SinglePart
  <2> QED BY <1>3, <2>1, PartConcat
<1>7. \A i \in DOMAIN P : i \in 1 .. Len(s) \/ i = Len(s) + 1
  BY <1>4, <1>5
<1>8. \A i \in 1 .. Len(s) : P[i] \in Quiet
  BY <1>5, ElementOfSeq
<1>9. \A i \in DOMAIN P : /\ P[i].op # "ship" /\ ~Is(P[i], "begin", Root) /\ ~Is(P[i], "finish", Root)
                          /\ i = Len(P) => P[i].op = "end"
  <2>1. Root \notin Dirs
    BY TransactionAssumption DEF TransactionAssumption
  <2>2. \A i \in 1 .. Len(s) : P[i].op # "ship" /\ ~Is(P[i], "begin", Root) /\ ~Is(P[i], "finish", Root)
    BY <1>8, <2>1 DEF Quiet, Is
  <2>3. \A i \in 1 .. Len(s) : i # Len(P)
    BY <1>4, <1>5
  <2>4. ~Is(x, "begin", Root) /\ ~Is(x, "finish", Root)
    BY <1>2 DEF Is
  <2> QED BY <1>2, <1>5, <1>7, <2>2, <2>3, <2>4
<1>10. ASSUME NEW i \in DOMAIN P
       PROVE  ~Fencing(P, i, Root)
  <2>1. \A m \in 1 .. (i - 1) : m \in DOMAIN P
    BY <1>5
  <2> QED BY <1>9, <2>1 DEF Fencing, Fences
<1>11. \A i \in DOMAIN P : RootFits(kind, layers, groups, P, i) /\ EndFits(kind, layers, P, i)
  BY <1>9, <1>10 DEF RootFits, EndFits
<1>12. ProgramFits(kind, layers, groups, P)
  BY <1>4, <1>5, <1>6, <1>11 DEF ProgramFits
<1> QED BY <1>2, <1>3, <1>12

LEMMA LocksAreSeqs ==
    ASSUME NEW l \in {Master, IngestLock}
    PROVE  /\ Lock(l) \in Seq(Instructions) /\ LockWithin(l) \in Seq(Instructions) /\ Unlock(l) \in Seq(Instructions)
<1>2. PICK n \in {0, 1} : l = <<Root, n>>
  BY DEF Master, IngestLock
<1>3. /\ Lock(l) = <<I("lock", Root, n)>> /\ LockWithin(l) = <<I("lockWithin", Root, n)>>
      /\ Unlock(l) = <<I("unlock", Root, n)>>
  BY <1>2 DEF Lock, LockWithin, Unlock, At, I
<1>4. I("lock", Root, n) \in Instructions /\ I("lockWithin", Root, n) \in Instructions /\ I("unlock", Root, n) \in Instructions
  BY InstructionsAre DEF Ops
<1> QED BY <1>3, <1>4, SingletonSeq

LEMMA TranscodeIs ==
    ASSUME NEW l \in Sources, NEW layers
    PROVE  Part("world", layers, {}, Transcode(l)) /\ Transcode(l) \in Seq(Quiet)
<1>0. l \in Dirs /\ l # Total /\ Master # IngestLock
  BY TransactionAssumption DEF TransactionAssumption, Dirs, Master, IngestLock
<1>1. PICK R : R = RewriteStore(l)
  OBVIOUS
<1>2. Part("world", layers, {Master, IngestLock}, R) /\ R \in Seq(Quiet)
  <2>1. MayRun("world", {Master, IngestLock}, l, 5)
    BY <1>0 DEF MayRun
  <2> QED BY <1>0, <1>1, <2>1, RewriteStoreIs
<1>3. PICK W : W = LockWithin(IngestLock) \o R \o Unlock(IngestLock)
  OBVIOUS
<1>4. Part("world", layers, {Master}, W) /\ W \in Seq(Quiet)
  <2>1. Part("world", layers, {Master} \cup {IngestLock}, R)
    <3>1. {Master} \cup {IngestLock} = {Master, IngestLock}
      OBVIOUS
    <3> QED BY <1>2, <3>1
  <2>2. {Master} \in SUBSET ({Master, IngestLock} \ {IngestLock}) /\ IngestLock \in {Master, IngestLock}
    BY <1>0
  <2>3. Part("world", layers, {Master}, LockWithin(IngestLock) \o R \o Unlock(IngestLock))
    BY ONLY <2>1, <2>2, OuterWraps
  <2>4. LockWithin(IngestLock) \o R \o Unlock(IngestLock) \in Seq(Quiet)
    BY ONLY <1>2, <2>2, OuterQuiet
  <2> QED BY <1>3, <2>3, <2>4
<1>5. Part("world", layers, {}, LockWithin(Master) \o W \o Unlock(Master))
  <2>1. Part("world", layers, {} \cup {Master}, W)
    <3>1. {} \cup {Master} = {Master}
      OBVIOUS
    <3> QED BY <1>4, <3>1
  <2>2. {} \in SUBSET ({Master, IngestLock} \ {Master}) /\ Master \in {Master, IngestLock}
    OBVIOUS
  <2> QED BY ONLY <2>1, <2>2, OuterWraps
<1>6. LockWithin(Master) \o W \o Unlock(Master) \in Seq(Quiet)
  BY <1>4, OuterQuiet
<1>7. Transcode(l) = LockWithin(Master) \o W \o Unlock(Master)
  <2>1. PICK a, b, c, e \in Seq(Instructions) : /\ a = LockWithin(Master) /\ b = LockWithin(IngestLock)
                                                /\ c = Unlock(IngestLock) /\ e = Unlock(Master)
    BY LocksAreSeqs
  <2>2. R \in Seq(Instructions)
    BY <1>2 DEF Part
  <2>3. PICK bR \in Seq(Instructions) : bR = b \o R
    BY <2>2, ConcatProperties
  <2>4. W = bR \o c
    BY <1>3, <2>1, <2>3
  <2>a. \A x, y, z \in Seq(Instructions) : Assoc(x, y, z)
    BY Associates
  <2>5. (a \o b) \o R = a \o bR
    <3>1. Assoc(a, b, R)
      BY <2>2, <2>a
    <3> QED BY <2>3, <3>1, Zenon DEF Assoc
  <2>6. (a \o bR) \o c = a \o W
    <3>1. Assoc(a, bR, c)
      BY <2>a
    <3> QED BY <2>4, <3>1, Zenon DEF Assoc
  <2>7. Transcode(l) = a \o b \o R \o c \o e
    BY <1>1, <2>1 DEF Transcode
  <2> QED BY <2>1, <2>5, <2>6, <2>7, Zenon
<1> QED BY <1>5, <1>6, <1>7

LEMMA RunLockedCombineIs ==
    ASSUME NEW kind \in {"world", "combine"}, NEW layers
    PROVE  Part(kind, layers, {}, RunLockedCombine) /\ RunLockedCombine \in Seq(Quiet)
<1>1. PICK R : R = RewriteStore(Total)
  OBVIOUS
<1>2. Part(kind, layers, {} \cup {Master}, R) /\ R \in Seq(Quiet)
  <2>1. MayRun(kind, {} \cup {Master}, Total, 5)
    BY DEF MayRun
  <2>2. Total \in Dirs /\ {} \cup {Master} \in SUBSET {Master, IngestLock}
    BY DEF Dirs
  <2> QED BY <1>1, <2>1, <2>2, RewriteStoreIs
<1>3. Part(kind, layers, {}, Lock(Master) \o R \o Unlock(Master))
  <2>2. {} \in SUBSET ({Master, IngestLock} \ {Master}) /\ Master \in {Master, IngestLock}
    OBVIOUS
  <2> QED BY ONLY <1>2, <2>2, OuterWraps
<1>4. Lock(Master) \o R \o Unlock(Master) \in Seq(Quiet)
  BY <1>2, OuterQuiet
<1> QED BY <1>1, <1>3, <1>4 DEF RunLockedCombine, Combine

LEMMA WorldFits ==
    ASSUME NEW layers \in Seq(Sources), NEW groups
    PROVE  ProgramFits("world", layers, groups, World(layers) \o Do("end", Root))
<1>1. PICK seqs : seqs = [i \in 1 .. Len(layers) |-> Transcode(layers[i])]
  OBVIOUS
<1>2. PICK C : C = RunLockedCombine
  OBVIOUS
<1>3. World(layers) = FlattenSeq(seqs) \o C
  BY <1>1, <1>2 DEF World, ForEach
<1>4. \A i \in 1 .. Len(layers) : seqs[i] \in Parts("world", layers, {}) /\ seqs[i] \in Seq(Quiet)
  <2> TAKE i \in 1 .. Len(layers)
  <2>1. seqs[i] = Transcode(layers[i])
    BY <1>1
  <2>2. Part("world", layers, {}, Transcode(layers[i])) /\ Transcode(layers[i]) \in Seq(Quiet)
    BY TranscodeIs, ElementOfSeq
  <2>3. Transcode(layers[i]) \in Seq(Instructions)
    BY <2>2 DEF Part
  <2> QED BY <2>1, <2>2, <2>3 DEF Parts
<1>5. /\ seqs \in Seq(Parts("world", layers, {})) /\ seqs \in Seq(Seq(Quiet))
  <2>1. seqs = [i \in 1 .. Len(layers) |-> seqs[i]] /\ Len(layers) \in Nat
    BY <1>1
  <2>2. \A T : (\A i \in 1 .. Len(layers) : seqs[i] \in T) => seqs \in Seq(T)
    BY <2>1
  <2> QED BY <1>4, <2>1, <2>2
<1>6. FlattenSeq(seqs) \in Parts("world", layers, {}) /\ FlattenSeq(seqs) \in Seq(Quiet)
  BY <1>5, PartsJoinable, SeqJoinable, FlattenIn
<1>7. Part("world", layers, {}, C) /\ C \in Seq(Quiet)
  BY <1>2, RunLockedCombineIs
<1>8. Part("world", layers, {}, FlattenSeq(seqs))
  BY <1>6 DEF Parts
<1>9. PICK s : s = FlattenSeq(seqs) \o C
  OBVIOUS
<1>10. Part("world", layers, {}, s) /\ s \in Seq(Quiet)
  BY <1>6, <1>7, <1>8, <1>9, PartConcat, ConcatProperties
<1>11. "world" # "scoped"
  OBVIOUS
<1>12. ProgramFits("world", layers, groups, s \o Do("end", Root))
  BY ONLY <1>10, <1>11, QuietProgramFits
<1> QED BY <1>3, <1>9, <1>12

LEMMA CombineFits ==
    ASSUME NEW layers, NEW groups
    PROVE  ProgramFits("combine", layers, groups, RunLockedCombine \o Do("end", Root))
<1>1. Part("combine", layers, {}, RunLockedCombine) /\ RunLockedCombine \in Seq(Quiet) /\ "combine" # "scoped"
  BY RunLockedCombineIs
<1> QED BY ONLY <1>1, QuietProgramFits

LEMMA PyramidFits ==
    ASSUME NEW layers \in Seq(Dirs), NEW groups
    PROVE  ProgramFits("pyramid", layers, groups, ForEach(layers, BuildPyramid) \o Do("end", Root))
<1>1. \A d \in Members(layers) : MayRun("pyramid", {}, d, 0)
  BY DEF MayRun
<1>2. Part("pyramid", layers, {}, ForEach(layers, BuildPyramid)) /\ ForEach(layers, BuildPyramid) \in Seq(Derives)
  BY <1>1, PyramidsAre
<1>3. ForEach(layers, BuildPyramid) \in Seq(Quiet) /\ "pyramid" # "scoped"
  BY <1>2, QuietSeqs
<1> QED BY ONLY <1>2, <1>3, QuietProgramFits

LEMMA HubFits ==
    ASSUME NEW layers \in Seq(Sources), NEW groups \in SUBSET Members(layers), NEW any
    PROVE  ProgramFits("hub", layers, any, Ingest(layers, groups) \o Do("end", Root))
<1>1. Part("hub", layers, {}, Ingest(layers, groups)) /\ Ingest(layers, groups) \in Seq(Unfenced)
  BY IngestIs
<1>2. Ingest(layers, groups) \in Seq(Quiet) /\ "hub" # "scoped"
  BY <1>1, QuietSeqs
<1> QED BY ONLY <1>1, <1>2, QuietProgramFits

Taking == {x \in Instructions : x.op \in {"lockWithin", "reject"}}

LEMMA LockLevelsIs ==
    ASSUME NEW kind, NEW layers, NEW H, NEW d \in Dirs
    PROVE  /\ Part(kind, layers, H, LockLevels(d))
           /\ LockLevels(d) \in Seq(Taking)
           /\ \A z \in Zooms : Includes(LockLevels(d), I("lockWithin", d, z))
<1> DEFINE n == BaseZoom - MinZoom + 1
<1>0. n \in Nat /\ (\A i \in 1 .. n : MinZoom + i - 1 \in Zooms) /\ (\A z \in Zooms : z \in Nat)
      /\ \A z \in Zooms : z - MinZoom + 1 \in 1 .. n /\ MinZoom + (z - MinZoom + 1) - 1 = z
  BY ZoomsAre
<1>1. PICK seqs : seqs = [i \in 1 .. n |-> LockWithin(Level(d, MinZoom + i - 1))]
  OBVIOUS
<1>2. LockLevels(d) = FlattenSeq(seqs)
  BY <1>1 DEF LockLevels
<1>3. ASSUME NEW i \in 1 .. n
      PROVE  /\ seqs[i] \in Parts(kind, layers, H) /\ seqs[i] \in Seq(Taking)
             /\ Includes(seqs[i], I("lockWithin", d, MinZoom + i - 1))
  <2>1. PICK z \in Zooms : z = MinZoom + i - 1
    BY <1>0
  <2>2. PICK x : x = I("lockWithin", d, z)
    OBVIOUS
  <2>3. seqs[i] = <<x>>
    BY <1>1, <2>1, <2>2 DEF LockWithin, At, Level, I
  <2>4. x \in Instructions /\ x.op = "lockWithin" /\ x.dir = d /\ x.zoom = z
    BY <1>0, <2>2, InstructionsAre DEF Ops, I
  <2>5. <<x.dir, x.zoom>> \in Locks
    BY <2>4, LevelsAreLocks
  <2>6. Part(kind, layers, H, <<x>>)
    BY <2>4, <2>5, SinglePart
  <2>7. x \in Taking
    BY <2>4 DEF Taking
  <2>8. <<x>> \in Seq(Taking) /\ <<x>> \in Seq(Instructions) /\ Includes(<<x>>, x)
    BY <2>4, <2>7 DEF Includes
  <2> QED BY <2>1, <2>2, <2>3, <2>6, <2>8 DEF Parts
<1>4. /\ seqs \in Seq(Parts(kind, layers, H)) /\ seqs \in Seq(Seq(Taking)) /\ DOMAIN seqs = 1 .. n
  <2>1. seqs = [i \in 1 .. n |-> seqs[i]]
    BY <1>1
  <2>2. \A T : (\A i \in 1 .. n : seqs[i] \in T) => seqs \in Seq(T)
    BY <1>0, <2>1
  <2> QED BY <1>3, <2>1, <2>2
<1>5. FlattenSeq(seqs) \in Parts(kind, layers, H) /\ FlattenSeq(seqs) \in Seq(Taking)
  BY <1>4, PartsJoinable, SeqJoinable, FlattenIn
<1>6. \A z \in Zooms : Includes(FlattenSeq(seqs), I("lockWithin", d, z))
  <2> TAKE z \in Zooms
  <2>1. PICK i \in 1 .. n : MinZoom + i - 1 = z
    BY <1>0
  <2>2. Includes(seqs[i], I("lockWithin", d, z)) /\ i \in DOMAIN seqs
    BY <1>3, <1>4, <2>1
  <2> QED BY <1>4, <2>2, IncludesFlatten
<1> QED BY <1>2, <1>5, <1>6 DEF Parts

LEMMA PackFits ==
    ASSUME NEW layers \in Seq(Dirs), NEW groups
    PROVE  ProgramFits("pack", layers, groups, Pack(layers) \o Do("end", Root))
<1>1. PICK seqs : seqs = [i \in 1 .. Len(layers) |-> LockLevels(layers[i])]
  OBVIOUS
<1>2. PICK F : F = FlattenSeq(seqs)
  OBVIOUS
<1>3. /\ Len(layers) \in Nat /\ DOMAIN layers = 1 .. Len(layers)
      /\ \A i \in 1 .. Len(layers) : layers[i] \in Members(layers) /\ layers[i] \in Dirs
      /\ \A d \in Members(layers) : d \in Dirs /\ \E i \in 1 .. Len(layers) : layers[i] = d
  BY LayersAre
<1>4. \A i \in 1 .. Len(layers) :
          /\ seqs[i] \in Parts("pack", layers, {})
          /\ seqs[i] \in Seq(Taking)
          /\ \A z \in Zooms : Includes(seqs[i], I("lockWithin", layers[i], z))
  <2> TAKE i \in 1 .. Len(layers)
  <2>1. seqs[i] = LockLevels(layers[i])
    BY <1>1
  <2>2. /\ Part("pack", layers, {}, LockLevels(layers[i])) /\ LockLevels(layers[i]) \in Seq(Taking)
        /\ \A z \in Zooms : Includes(LockLevels(layers[i]), I("lockWithin", layers[i], z))
    BY <1>3, LockLevelsIs
  <2>3. LockLevels(layers[i]) \in Seq(Instructions)
    BY <2>2 DEF Part
  <2> QED BY <2>1, <2>2, <2>3 DEF Parts
<1>5. /\ seqs \in Seq(Parts("pack", layers, {})) /\ seqs \in Seq(Seq(Taking)) /\ DOMAIN seqs = 1 .. Len(layers)
  <2>1. seqs = [i \in 1 .. Len(layers) |-> seqs[i]]
    BY <1>1
  <2>2. \A T : (\A i \in 1 .. Len(layers) : seqs[i] \in T) => seqs \in Seq(T)
    BY <1>3, <2>1
  <2> QED BY <1>4, <2>1, <2>2
<1>6. F \in Parts("pack", layers, {}) /\ F \in Seq(Taking)
  BY <1>2, <1>5, PartsJoinable, SeqJoinable, FlattenIn
<1>7. \A d \in Members(layers), z \in Zooms : Includes(F, I("lockWithin", d, z))
  <2> TAKE d \in Members(layers), z \in Zooms
  <2>1. PICK i \in 1 .. Len(layers) : layers[i] = d
    BY <1>3
  <2>2. Includes(seqs[i], I("lockWithin", d, z)) /\ i \in DOMAIN seqs
    BY <1>4, <1>5, <2>1
  <2> QED BY <1>2, <1>5, <2>2, IncludesFlatten
<1>8. PICK lm, li, re, sh, en \in Instructions :
          /\ lm = I("lockWithin", Root, 0) /\ li = I("lockWithin", Root, 1) /\ re = I("reject", Root, BaseZoom)
          /\ sh = I("ship", Root, BaseZoom) /\ en = I("end", Root, BaseZoom)
  BY InstructionsAre, ZoomsAre DEF Ops
<1>9. /\ lm.op = "lockWithin" /\ <<lm.dir, lm.zoom>> = Master /\ li.op = "lockWithin" /\ <<li.dir, li.zoom>> = IngestLock
      /\ re.op = "reject" /\ sh.op = "ship" /\ en.op = "end"
  BY <1>8 DEF I, Master, IngestLock
<1>10. lm \in Taking /\ li \in Taking /\ re \in Taking
  BY <1>9 DEF Taking
<1>11. /\ Part("pack", layers, {}, <<lm>>) /\ Part("pack", layers, {}, <<li>>) /\ Part("pack", layers, {}, <<re>>)
       /\ Part("pack", layers, {}, <<sh>>) /\ Part("pack", layers, {}, <<en>>)
  <2>1. Master \in Locks /\ IngestLock \in Locks
    BY DEF Locks
  <2>2. Part("pack", layers, {}, <<lm>>)
    BY <1>9, <2>1, SinglePart
  <2>3. Part("pack", layers, {}, <<li>>)
    BY <1>9, <2>1, SinglePart
  <2>4. Part("pack", layers, {}, <<re>>)
    BY <1>9, SinglePart
  <2>5. Part("pack", layers, {}, <<sh>>)
    BY <1>9, SinglePart
  <2>6. Part("pack", layers, {}, <<en>>)
    BY <1>9, SinglePart
  <2> QED BY <2>2, <2>3, <2>4, <2>5, <2>6
<1>12. PICK u1 : u1 = <<lm>> \o <<li>>
  OBVIOUS
<1>13. u1 \in Seq(Taking) /\ Part("pack", layers, {}, u1)
  BY <1>10, <1>11, <1>12, PartConcat, SingletonSeq, ConcatProperties
<1>14. PICK u2 : u2 = u1 \o <<re>>
  OBVIOUS
<1>15. u2 \in Seq(Taking) /\ Part("pack", layers, {}, u2)
  BY <1>10, <1>11, <1>13, <1>14, PartConcat, SingletonSeq, ConcatProperties
<1>16. PICK u3 : u3 = u2 \o F
  OBVIOUS
<1>17. u3 \in Seq(Taking) /\ Part("pack", layers, {}, u3)
  BY <1>6, <1>15, <1>16, PartConcat, ConcatProperties DEF Parts
<1>18. \A d \in Members(layers), z \in Zooms : Includes(u3, I("lockWithin", d, z))
  BY <1>6, <1>7, <1>15, <1>16, IncludesConcat
<1>19. PICK u4 : u4 = u3 \o <<re>>
  OBVIOUS
<1>20. PICK u5 : u5 = u4 \o <<sh>>
  OBVIOUS
<1>21. PICK P : P = u5 \o <<en>>
  OBVIOUS
<1>22. Part("pack", layers, {}, u4)
  BY <1>11, <1>17, <1>19, PartConcat
<1>23. Part("pack", layers, {}, u5)
  BY <1>11, <1>20, <1>22, PartConcat
<1>24. Part("pack", layers, {}, P)
  BY <1>11, <1>21, <1>23, PartConcat
<1>25. PICK n \in Nat : n = Len(u3)
  BY <1>17
<1>26. u3 \in Seq(Instructions)
  BY <1>17 DEF Part
<1>27. u4 \in Seq(Instructions) /\ Len(u4) = n + 1 /\ u4[n + 1] = re /\ \A i \in 1 .. n : u4[i] = u3[i]
  BY <1>19, <1>25, <1>26, OneMore
<1>28. u5 \in Seq(Instructions) /\ Len(u5) = n + 2 /\ u5[n + 2] = sh /\ \A i \in 1 .. (n + 1) : u5[i] = u4[i]
  <2>1. u5 \in Seq(Instructions) /\ Len(u5) = Len(u4) + 1 /\ u5[Len(u4) + 1] = sh /\ \A i \in 1 .. Len(u4) : u5[i] = u4[i]
    BY <1>20, <1>27, OneMore
  <2> QED BY <1>27, <2>1
<1>29. P \in Seq(Instructions) /\ Len(P) = n + 3 /\ P[n + 3] = en /\ \A i \in 1 .. (n + 2) : P[i] = u5[i]
  <2>1. P \in Seq(Instructions) /\ Len(P) = Len(u5) + 1 /\ P[Len(u5) + 1] = en /\ \A i \in 1 .. Len(u5) : P[i] = u5[i]
    BY <1>21, <1>28, OneMore
  <2> QED BY <1>28, <2>1
<1>30. P[n + 2] = sh /\ P[n + 1] = re /\ \A i \in 1 .. n : P[i] = u3[i]
  BY <1>27, <1>28, <1>29
<1>31. \A i \in 1 .. n : P[i] \in Taking
  BY <1>17, <1>25, <1>30, ElementOfSeq
<1>32. DOMAIN P = 1 .. (n + 3) /\ \A i \in 1 .. (n + 3) : i \in 1 .. n \/ i = n + 1 \/ i = n + 2 \/ i = n + 3
  BY <1>29
<1>33. \A i \in DOMAIN P : P[i].op \in {"lockWithin", "reject", "ship", "end"}
  <2>1. \A i \in 1 .. n : P[i].op \in {"lockWithin", "reject"}
    BY <1>31 DEF Taking
  <2> QED BY <1>9, <1>29, <1>30, <1>32, <2>1
<1>34. \A i \in DOMAIN P : P[i].op = "ship" => i = n + 2
  <2>1. \A i \in 1 .. n : P[i].op # "ship"
    BY <1>31 DEF Taking
  <2> QED BY <1>9, <1>29, <1>30, <1>32, <2>1
<1>35. \A d \in Members(layers), z \in Zooms : Holding(P, n + 2, Level(d, z))
  <2> TAKE d \in Members(layers), z \in Zooms
  <2>1. PICK m \in DOMAIN u3 : u3[m] = I("lockWithin", d, z)
    BY <1>18 DEF Includes
  <2>2. m \in 1 .. n
    BY <1>17, <1>25, <2>1
  <2>3. Takes(P[m], Level(d, z))
    BY <1>30, <2>1, <2>2 DEF Takes, I, Level
  <2>4. \A k \in (m + 1) .. (n + 2 - 1) : P[k].op # "unlock"
    <3> TAKE k \in (m + 1) .. (n + 2 - 1)
    <3>1. k \in DOMAIN P
      BY <1>32, <2>2
    <3> QED BY <1>33, <3>1
  <2>5. m \in Nat /\ m >= 1 /\ n + 2 \in Nat /\ m < n + 2
    BY <2>2
  <2> QED BY ONLY <2>3, <2>4, <2>5, HeldSince
<1>36. \A i \in DOMAIN P : RootFits("pack", layers, groups, P, i)
  <2> TAKE i \in DOMAIN P
  <2>1. ~Is(P[i], "begin", Root) /\ ~Is(P[i], "finish", Root)
    BY <1>33 DEF Is
  <2>2. ~Fencing(P, i, Root)
    <3>1. \A m \in 1 .. (i - 1) : m \in DOMAIN P
      BY <1>32
    <3> QED BY <1>33, <3>1 DEF Fencing, Fences, Is
  <2> QED BY <2>1, <2>2 DEF RootFits
<1>37. \A i \in DOMAIN P : EndFits("pack", layers, P, i)
  <2> TAKE i \in DOMAIN P
  <2>1. i = Len(P) => P[i].op = "end"
    BY <1>9, <1>29
  <2>2. P[i].op = "ship" => i = n + 2 /\ i > 1 /\ P[i - 1].op = "reject"
    <3>1. (n + 2) - 1 = n + 1 /\ n + 2 > 1
      OBVIOUS
    <3> QED BY <1>9, <1>30, <1>34, <3>1
  <2> QED BY <1>35, <2>1, <2>2 DEF EndFits
<1>38. ProgramFits("pack", layers, groups, P)
  BY <1>24, <1>29, <1>36, <1>37 DEF ProgramFits
<1>39. Pack(layers) \o Do("end", Root) = P
  <2>1. /\ LockWithin(Master) = <<lm>> /\ LockWithin(IngestLock) = <<li>> /\ Do("reject", Root) = <<re>>
        /\ Do("ship", Root) = <<sh>> /\ Do("end", Root) = <<en>>
    BY <1>8 DEF LockWithin, At, Do, I, Master, IngestLock
  <2>2. ForEach(layers, LockLevels) = F
    BY <1>1, <1>2 DEF ForEach
  <2>3. Pack(layers) = u5
    BY <1>12, <1>14, <1>16, <1>19, <1>20, <2>1, <2>2, Zenon DEF Pack
  <2> QED BY <1>21, <2>1, <2>3
<1> QED BY <1>38, <1>39

-----------------------------------------------------------------------------
(* The scoped update.                                                      *)

Regroups(a, b, A, l, F, C, f, u, w) ==
    a \o b \o A \o l \o F \o C \o f \o u \o w = a \o ((b \o A) \o (l \o ((F \o C) \o f) \o u)) \o w

LEMMA Regroup ==
    ASSUME NEW S, NEW a \in Seq(S), NEW b \in Seq(S), NEW A \in Seq(S), NEW l \in Seq(S), NEW F \in Seq(S),
           NEW C \in Seq(S), NEW f \in Seq(S), NEW u \in Seq(S), NEW w \in Seq(S)
    PROVE  Regroups(a, b, A, l, F, C, f, u, w)
<1>1. PICK Y \in Seq(S) : Y = b \o A
  BY ConcatProperties
<1>2. PICK M \in Seq(S) : M = a \o Y
  BY ConcatProperties
<1>3. PICK N \in Seq(S) : N = M \o l
  BY ConcatProperties
<1>4. PICK B \in Seq(S) : B = F \o C
  BY ConcatProperties
<1>5. PICK G \in Seq(S) : G = B \o f
  BY ConcatProperties
<1>6. PICK V \in Seq(S) : V = l \o G
  BY ConcatProperties
<1>7. PICK W \in Seq(S) : W = V \o u
  BY ConcatProperties
<1>8. /\ Assoc(a, b, A) /\ Assoc(N, F, C) /\ Assoc(N, B, f) /\ Assoc(M, l, G) /\ Assoc(M, V, u) /\ Assoc(a, Y, W)
  BY Associates
<1>9. (a \o b) \o A = M
  BY <1>1, <1>2, <1>8, Zenon DEF Assoc
<1>10. ((N \o F) \o C) \o f = N \o G
  BY <1>4, <1>5, <1>8, Zenon DEF Assoc
<1>11. N \o G = M \o V
  BY <1>3, <1>6, <1>8, Zenon DEF Assoc
<1>12. (M \o V) \o u = M \o W
  BY <1>7, <1>8, Zenon DEF Assoc
<1>13. M \o W = a \o (Y \o W)
  BY <1>2, <1>8, Zenon DEF Assoc
<1>14. a \o b \o A \o l \o F \o C \o f \o u = a \o (Y \o W)
  BY <1>3, <1>9, <1>10, <1>11, <1>12, <1>13, Zenon
<1> QED BY <1>1, <1>4, <1>5, <1>6, <1>7, <1>14, Zenon DEF Regroups

\* A: what is ingested, B: what is derived.
ScopedShape(P, A, B) ==
    /\ P \in Seq(Instructions) /\ Len(P) = Len(A) + Len(B) + 7 /\ DOMAIN P = 1 .. (Len(A) + Len(B) + 7)
    /\ P[1] = I("lock", Root, 0) /\ P[2] = I("begin", Root, BaseZoom)
    /\ \A j \in 1 .. Len(A) : P[j + 2] = A[j]
    /\ P[Len(A) + 3] = I("lock", Root, 1)
    /\ \A j \in 1 .. Len(B) : P[Len(A) + 3 + j] = B[j]
    /\ P[Len(A) + Len(B) + 4] = I("finish", Root, BaseZoom)
    /\ P[Len(A) + Len(B) + 5] = I("unlock", Root, 1)
    /\ P[Len(A) + Len(B) + 6] = I("unlock", Root, 0)
    /\ P[Len(A) + Len(B) + 7] = I("end", Root, BaseZoom)

LEMMA ScopedShapeIs ==
    ASSUME NEW A \in Seq(Instructions), NEW F \in Seq(Instructions), NEW C \in Seq(Instructions)
    PROVE  ScopedShape(<<I("lock", Root, 0)>> \o <<I("begin", Root, BaseZoom)>> \o A \o <<I("lock", Root, 1)>>
                       \o F \o C \o <<I("finish", Root, BaseZoom)>> \o <<I("unlock", Root, 1)>>
                       \o <<I("unlock", Root, 0)>> \o <<I("end", Root, BaseZoom)>>, A, F \o C)
<1>1. PICK x1, x2, x3, x4, x5, x6, x7 \in Instructions :
          /\ x1 = I("lock", Root, 0) /\ x2 = I("begin", Root, BaseZoom) /\ x3 = I("lock", Root, 1)
          /\ x4 = I("finish", Root, BaseZoom) /\ x5 = I("unlock", Root, 1) /\ x6 = I("unlock", Root, 0)
          /\ x7 = I("end", Root, BaseZoom)
  BY InstructionsAre, ZoomsAre DEF Ops
<1>2. PICK B : B = F \o C
  OBVIOUS
<1>3. PICK a, b \in Nat : a = Len(A) /\ b = Len(B)
  <2>1. B \in Seq(Instructions)
    BY <1>2, ConcatProperties
  <2> QED BY <2>1
<1>4. B \in Seq(Instructions) /\ Len(A) = a /\ Len(B) = b
  BY <1>2, <1>3, ConcatProperties
<1>5. PICK u0 \in Seq(Instructions) : u0 = <<x1>> /\ Len(u0) = 1 /\ u0[1] = x1
  BY SingletonSeq
<1>6. PICK u1 : u1 = u0 \o <<x2>>
  OBVIOUS
<1>7. u1 \in Seq(Instructions) /\ Len(u1) = 2 /\ u1[1] = x1 /\ u1[2] = x2
  <2>1. u1 \in Seq(Instructions) /\ Len(u1) = Len(u0) + 1 /\ u1[Len(u0) + 1] = x2 /\ \A i \in 1 .. Len(u0) : u1[i] = u0[i]
    BY <1>6, OneMore
  <2>2. Len(u0) = 1 /\ u0[1] = x1
    BY <1>5
  <2> QED BY <2>1, <2>2
<1>8. PICK u2 : u2 = u1 \o A
  OBVIOUS
<1>9. /\ u2 \in Seq(Instructions) /\ Len(u2) = a + 2 /\ u2[1] = x1 /\ u2[2] = x2
      /\ \A j \in 1 .. a : u2[j + 2] = A[j]
  <2>1. IsConcat(Instructions, u1, A, u2)
    BY <1>7, <1>8, ConcatIsConcat
  <2>2. u2 \in Seq(Instructions) /\ Len(u2) = a + 2 /\ u2[1] = x1 /\ u2[2] = x2
    BY <1>4, <1>7, <2>1 DEF IsConcat
  <2>3. ASSUME NEW j \in 1 .. a PROVE u2[j + 2] = A[j]
    <3>1. j + 2 \in 1 .. (Len(u1) + Len(A)) /\ ~(j + 2 <= Len(u1)) /\ (j + 2) - Len(u1) = j
      BY <1>4, <1>7
    <3>2. u2[j + 2] = A[(j + 2) - Len(u1)]
      BY <2>1, <3>1 DEF IsConcat
    <3> QED BY <3>1, <3>2
  <2> QED BY <2>2, <2>3
<1>10. PICK u3 : u3 = u2 \o <<x3>>
  OBVIOUS
<1>11. u3 \in Seq(Instructions) /\ Len(u3) = a + 3 /\ u3[a + 3] = x3 /\ \A i \in 1 .. (a + 2) : u3[i] = u2[i]
  <2>1. u3 \in Seq(Instructions) /\ Len(u3) = Len(u2) + 1 /\ u3[Len(u2) + 1] = x3 /\ \A i \in 1 .. Len(u2) : u3[i] = u2[i]
    BY <1>9, <1>10, OneMore
  <2> QED BY <1>9, <2>1
<1>12. PICK u4 : u4 = u3 \o B
  OBVIOUS
<1>13. /\ u4 \in Seq(Instructions) /\ Len(u4) = a + b + 3 /\ (\A i \in 1 .. (a + 3) : u4[i] = u3[i])
       /\ \A j \in 1 .. b : u4[a + 3 + j] = B[j]
  <2>1. IsConcat(Instructions, u3, B, u4)
    BY <1>4, <1>11, <1>12, ConcatIsConcat
  <2>2. u4 \in Seq(Instructions) /\ Len(u4) = a + b + 3 /\ \A i \in 1 .. (a + 3) : u4[i] = u3[i]
    BY <1>4, <1>11, <2>1 DEF IsConcat
  <2>3. ASSUME NEW j \in 1 .. b PROVE u4[a + 3 + j] = B[j]
    <3>1. a + 3 + j \in 1 .. (Len(u3) + Len(B)) /\ ~(a + 3 + j <= Len(u3)) /\ (a + 3 + j) - Len(u3) = j
      BY <1>4, <1>11
    <3>2. u4[a + 3 + j] = B[(a + 3 + j) - Len(u3)]
      BY <2>1, <3>1 DEF IsConcat
    <3> QED BY <3>1, <3>2
  <2> QED BY <2>2, <2>3
<1>14. PICK u5 : u5 = u4 \o <<x4>>
  OBVIOUS
<1>15. u5 \in Seq(Instructions) /\ Len(u5) = a + b + 4 /\ u5[a + b + 4] = x4 /\ \A i \in 1 .. (a + b + 3) : u5[i] = u4[i]
  <2>0. u4 \in Seq(Instructions) /\ x4 \in Instructions /\ u5 = u4 \o <<x4>>
    BY <1>13, <1>14
  <2>1. u5 \in Seq(Instructions) /\ Len(u5) = Len(u4) + 1 /\ u5[Len(u4) + 1] = x4 /\ \A i \in 1 .. Len(u4) : u5[i] = u4[i]
    BY ONLY <2>0, OneMore
  <2> QED BY <1>13, <2>1
<1>16. PICK u6 : u6 = u5 \o <<x5>>
  OBVIOUS
<1>17. u6 \in Seq(Instructions) /\ Len(u6) = a + b + 5 /\ u6[a + b + 5] = x5 /\ \A i \in 1 .. (a + b + 4) : u6[i] = u5[i]
  <2>0. u5 \in Seq(Instructions) /\ x5 \in Instructions /\ u6 = u5 \o <<x5>>
    BY <1>15, <1>16
  <2>1. u6 \in Seq(Instructions) /\ Len(u6) = Len(u5) + 1 /\ u6[Len(u5) + 1] = x5 /\ \A i \in 1 .. Len(u5) : u6[i] = u5[i]
    BY ONLY <2>0, OneMore
  <2> QED BY <1>15, <2>1
<1>18. PICK u7 : u7 = u6 \o <<x6>>
  OBVIOUS
<1>19. u7 \in Seq(Instructions) /\ Len(u7) = a + b + 6 /\ u7[a + b + 6] = x6 /\ \A i \in 1 .. (a + b + 5) : u7[i] = u6[i]
  <2>0. u6 \in Seq(Instructions) /\ x6 \in Instructions /\ u7 = u6 \o <<x6>>
    BY <1>17, <1>18
  <2>1. u7 \in Seq(Instructions) /\ Len(u7) = Len(u6) + 1 /\ u7[Len(u6) + 1] = x6 /\ \A i \in 1 .. Len(u6) : u7[i] = u6[i]
    BY ONLY <2>0, OneMore
  <2> QED BY <1>17, <2>1
<1>20. PICK P : P = u7 \o <<x7>>
  OBVIOUS
<1>21. P \in Seq(Instructions) /\ Len(P) = a + b + 7 /\ P[a + b + 7] = x7 /\ \A i \in 1 .. (a + b + 6) : P[i] = u7[i]
  <2>0. u7 \in Seq(Instructions) /\ x7 \in Instructions /\ P = u7 \o <<x7>>
    BY <1>19, <1>20
  <2>1. P \in Seq(Instructions) /\ Len(P) = Len(u7) + 1 /\ P[Len(u7) + 1] = x7 /\ \A i \in 1 .. Len(u7) : P[i] = u7[i]
    BY ONLY <2>0, OneMore
  <2> QED BY <1>19, <2>1
<1>22. P[a + b + 6] = x6 /\ P[a + b + 5] = x5 /\ P[a + b + 4] = x4 /\ \A i \in 1 .. (a + b + 3) : P[i] = u4[i]
  BY <1>15, <1>17, <1>19, <1>21
<1>23. P[a + 3] = x3 /\ (\A j \in 1 .. b : P[a + 3 + j] = B[j]) /\ \A i \in 1 .. (a + 2) : P[i] = u2[i]
  <2>1. \A j \in 1 .. b : a + 3 + j \in 1 .. (a + b + 3)
    OBVIOUS
  <2>2. \A i \in 1 .. (a + 3) : i \in 1 .. (a + b + 3)
    OBVIOUS
  <2> QED BY <1>11, <1>13, <1>22, <2>1, <2>2
<1>24. P[1] = x1 /\ P[2] = x2 /\ \A j \in 1 .. a : P[j + 2] = A[j]
  <2>1. \A j \in 1 .. a : j + 2 \in 1 .. (a + 2)
    OBVIOUS
  <2> QED BY <1>9, <1>23, <2>1
<1>25. ScopedShape(P, A, B)
  <2>1. DOMAIN P = 1 .. (a + b + 7)
    BY <1>21
  <2> QED BY <1>1, <1>4, <1>21, <1>22, <1>23, <1>24, <2>1 DEF ScopedShape
<1>26. u4 = (u3 \o F) \o C
  <2>1. Assoc(u3, F, C)
    BY <1>11, Associates
  <2> QED BY <1>2, <1>12, <2>1, Zenon DEF Assoc
<1>27. P = <<x1>> \o <<x2>> \o A \o <<x3>> \o F \o C \o <<x4>> \o <<x5>> \o <<x6>> \o <<x7>>
  BY <1>5, <1>6, <1>8, <1>10, <1>14, <1>16, <1>18, <1>20, <1>26, Zenon
<1> QED BY ONLY <1>1, <1>2, <1>25, <1>27

\* Where what stands in the program of a scoped update.
ScopedText(P, a, f, i) ==
    /\ Is(P[i], "begin", Root) <=> i = 2
    /\ Is(P[i], "finish", Root) <=> i = f
    /\ Drops(P[i], Master) => i = f + 2
    /\ P[i].op \in {"begin", "finish"} /\ P[i].dir \in Dirs => a < i /\ i < f
    /\ Works(P[i]) /\ P[i].zoom = BaseZoom /\ P[i].dir # Total => 2 < i /\ i < a
    /\ P[i].op # "ship"
    /\ i = f + 3 => P[i].op = "end"

LEMMA ScopedTexts ==
    ASSUME NEW A \in Seq(Unfenced), NEW B \in Seq(Derives), NEW P, ScopedShape(P, A, B), NEW i \in DOMAIN P
    PROVE  ScopedText(P, Len(A) + 3, Len(A) + Len(B) + 4, i)
<1>a. PICK m, n \in Nat : m = Len(A) /\ n = Len(B)
  OBVIOUS
<1>b. PICK a, f \in Nat : a = m + 3 /\ f = m + n + 4
  OBVIOUS
<1>0. Root \notin Dirs /\ Len(A) = m /\ Len(B) = n /\ i \in 1 .. (f + 3) /\ a = m + 3 /\ f = m + n + 4
  <2>1. DOMAIN P = 1 .. (m + n + 7)
    BY <1>a DEF ScopedShape
  <2>2. f + 3 = m + n + 7
    BY <1>b
  <2> QED BY <1>a, <1>b, <2>1, <2>2, TransactionAssumption DEF TransactionAssumption
<1> SUFFICES ScopedText(P, a, f, i)
  BY <1>a, <1>b
<1>1. ASSUME P[i].op \notin {"begin", "finish", "scan", "open", "put", "ship"},
             ~Drops(P[i], Master) \/ i = f + 2, i # 2, i # f, i = f + 3 => P[i].op = "end"
      PROVE  ScopedText(P, a, f, i)
  BY <1>1 DEF ScopedText, Is, Works
<1>2. CASE i \in {1, a, f + 1}
  <2>1. P[i] \in {I("lock", Root, 0), I("lock", Root, 1), I("unlock", Root, 1)} /\ i # 2 /\ i # f /\ i # f + 3
    <3>1. P[1] = I("lock", Root, 0) /\ P[a] = I("lock", Root, 1) /\ P[f + 1] = I("unlock", Root, 1)
      <4>1. f + 1 = m + n + 5
        BY <1>0
      <4> QED BY <1>0, <4>1 DEF ScopedShape
    <3>2. i # 2 /\ i # f /\ i # f + 3
      BY <1>0, <1>2
    <3> QED BY <1>2, <3>1, <3>2
  <2> QED BY <1>1, <2>1 DEF I, Drops, Master
<1>3. CASE i = f + 2
  <2>1. P[i] = I("unlock", Root, 0) /\ i # 2 /\ i # f /\ i # f + 3
    BY <1>0, <1>3 DEF ScopedShape
  <2> QED BY <1>1, <1>3, <2>1 DEF I
<1>4. CASE i = f + 3
  <2>1. P[i] = I("end", Root, BaseZoom) /\ i # 2 /\ i # f
    BY <1>0, <1>4 DEF ScopedShape
  <2> QED BY <1>1, <2>1 DEF I, Drops
<1>5. CASE i \in {2, f}
  <2>1. (i = 2 /\ P[i] = I("begin", Root, BaseZoom)) \/ (i = f /\ P[i] = I("finish", Root, BaseZoom))
    BY <1>0, <1>5 DEF ScopedShape
  <2>2. 2 # f /\ i # f + 3
    BY <1>0, <1>5
  <2> QED BY <1>0, <2>1, <2>2 DEF ScopedText, I, Is, Drops, Works
<1>6. ASSUME NEW j \in 1 .. m, i = j + 2
      PROVE  ScopedText(P, a, f, i)
  <2>1. P[i] = A[j]
    BY <1>0, <1>6 DEF ScopedShape
  <2>2. A[j] \in Unfenced
    BY <1>0, ElementOfSeq
  <2>3. 2 < i /\ i < a /\ i # 2 /\ i # f /\ i # f + 3
    BY <1>0, <1>6
  <2>4. P[i].op \notin {"begin", "finish", "ship"} /\ ~Drops(P[i], Master)
    BY <2>1, <2>2 DEF Unfenced, Quiet
  <2> QED BY <2>3, <2>4 DEF ScopedText, Is
<1>7. ASSUME NEW j \in 1 .. n, i = m + 3 + j
      PROVE  ScopedText(P, a, f, i)
  <2>1. P[i] = B[j]
    BY <1>0, <1>7 DEF ScopedShape
  <2>2. B[j] \in Derives
    BY <1>0, ElementOfSeq
  <2>3. a < i /\ i < f /\ i # 2 /\ i # f /\ i # f + 3
    BY <1>0, <1>7
  <2>4. /\ P[i].op # "ship" /\ ~Drops(P[i], Master) /\ ~Is(P[i], "begin", Root) /\ ~Is(P[i], "finish", Root)
        /\ ~(Works(P[i]) /\ P[i].zoom = BaseZoom /\ P[i].dir # Total)
    BY <1>0, <2>1, <2>2 DEF Derives, Quiet, Is
  <2> QED BY <2>3, <2>4 DEF ScopedText
<1>8. i = 1 \/ i = 2 \/ (3 <= i /\ i <= m + 2) \/ i = a \/ (a < i /\ i < f) \/ i = f \/ i = f + 1 \/ i = f + 2 \/ i = f + 3
  BY <1>0
<1>9. ASSUME 3 <= i /\ i <= m + 2
      PROVE  ScopedText(P, a, f, i)
  <2>1. i - 2 \in 1 .. m /\ i = (i - 2) + 2
    BY <1>0, <1>9
  <2> QED BY <1>6, <2>1
<1>10. ASSUME a < i /\ i < f
       PROVE  ScopedText(P, a, f, i)
  <2>1. i - (m + 3) \in 1 .. n /\ i = m + 3 + (i - (m + 3))
    BY <1>0, <1>10
  <2> QED BY <1>7, <2>1
<1> QED BY ONLY <1>2, <1>3, <1>4, <1>5, <1>8, <1>9, <1>10

\* What the text says of the root's marker.
LEMMA ScopedRoot ==
    ASSUME NEW layers, NEW groups, NEW A \in Seq(Unfenced), NEW B \in Seq(Derives), NEW P, ScopedShape(P, A, B),
           \A l \in groups : Includes(A, I("put", l, BaseZoom)),
           \A d \in Members(layers) \cup {Total} : Includes(B, I("finish", d, BaseZoom))
    PROVE  \A i \in DOMAIN P : RootFits("scoped", layers, groups, P, i) /\ EndFits("scoped", layers, P, i)
<1>1. PICK a, f \in Nat : a = Len(A) + 3 /\ f = Len(A) + Len(B) + 4
  OBVIOUS
<1>2. 3 <= a /\ a < f /\ DOMAIN P = 1 .. (f + 3) /\ Len(P) = f + 3 /\ Len(A) = a - 3 /\ Len(B) = f - a - 1
  BY <1>1 DEF ScopedShape
<1>3. \A i \in 1 .. (f + 3) : ScopedText(P, a, f, i)
  BY <1>1, <1>2, ScopedTexts
<1>4. ASSUME NEW i \in 1 .. (f + 3)
      PROVE  Fencing(P, i, Root) <=> 3 <= i /\ i <= f
  <2>1. ASSUME NEW m \in 1 .. (i - 1), Fences(P, m, i, Root)
        PROVE  3 <= i /\ i <= f
    <3>1. m \in 1 .. (f + 3) /\ Is(P[m], "begin", Root)
      BY <2>1 DEF Fences
    <3>2. m = 2
      BY <1>3, <3>1 DEF ScopedText
    <3>3. ~(f < i)
      <4>1. SUFFICES ASSUME f < i PROVE FALSE
        OBVIOUS
      <4>2. f \in (m + 1) .. (i - 1) /\ f \in 1 .. (f + 3)
        BY <1>2, <3>2, <4>1
      <4>3. Is(P[f], "finish", Root)
        BY <1>3, <4>2 DEF ScopedText
      <4> QED BY <2>1, <4>2, <4>3 DEF Fences
    <3> QED BY <3>2, <3>3
  <2>2. ASSUME 3 <= i, i <= f
        PROVE  Fencing(P, i, Root)
    <3>1. 2 \in 1 .. (i - 1) /\ 2 \in 1 .. (f + 3)
      BY <1>2, <2>2
    <3>2. Is(P[2], "begin", Root)
      BY <1>3, <3>1 DEF ScopedText
    <3>3. \A n \in (2 + 1) .. (i - 1) : ~Is(P[n], "finish", Root)
      <4> TAKE n \in (2 + 1) .. (i - 1)
      <4>1. n \in 1 .. (f + 3) /\ n # f
        BY <1>2, <2>2
      <4> QED BY <1>3, <4>1 DEF ScopedText
    <3> QED BY <2>2, <3>1, <3>2, <3>3 DEF Fencing, Fences
  <2> QED BY <2>1, <2>2 DEF Fencing
<1>5. ASSUME NEW i \in 1 .. (f + 3), 2 <= i, i <= f
      PROVE  Holding(P, i, Master)
  <2>1. Takes(P[1], Master) /\ 1 \in 1 .. (i - 1)
    BY <1>5 DEF ScopedShape, Takes, I, Master
  <2>2. \A n \in (1 + 1) .. (i - 1) : ~Drops(P[n], Master)
    <3> TAKE n \in (1 + 1) .. (i - 1)
    <3>1. n \in 1 .. (f + 3) /\ n # f + 2
      BY <1>5
    <3> QED BY <1>3, <3>1 DEF ScopedText
  <2> QED BY <2>1, <2>2 DEF Holding
<1>6. ASSUME NEW i \in 1 .. (f + 3), i <= a, NEW d \in Dirs
      PROVE  ~Behind(P, i, "begin", d) /\ ~Behind(P, i, "finish", d)
  <2>1. ASSUME NEW n \in 1 .. (i - 1), Is(P[n], "begin", d) \/ Is(P[n], "finish", d)
        PROVE  FALSE
    <3>1. n \in 1 .. (f + 3) /\ ~(a < n)
      BY <1>6
    <3> QED BY <1>3, <2>1, <3>1 DEF ScopedText, Is
  <2> QED BY <2>1 DEF Behind
<1>7. ASSUME NEW d \in Members(layers) \cup {Total}
      PROVE  Behind(P, f, "finish", d)
  <2>1. PICK n \in DOMAIN B : B[n] = I("finish", d, BaseZoom)
    BY DEF Includes
  <2>2. n \in 1 .. Len(B)
    OBVIOUS
  <2>3. a + n \in 1 .. (f - 1) /\ a + n = Len(A) + 3 + n
    BY <1>1, <1>2, <2>2
  <2>4. P[Len(A) + 3 + n] = B[n]
    BY <2>2 DEF ScopedShape
  <2> QED BY <2>1, <2>3, <2>4 DEF Behind, Is, I
<1>8. ASSUME NEW l \in groups
      PROVE  Written(P, f, l, BaseZoom)
  <2>1. PICK n \in DOMAIN A : A[n] = I("put", l, BaseZoom)
    BY DEF Includes
  <2>2. n \in 1 .. Len(A)
    OBVIOUS
  <2>3. n + 2 \in 1 .. (f - 1) /\ P[n + 2] = A[n]
    BY <1>1, <1>2, <2>2 DEF ScopedShape
  <2> QED BY <2>1, <2>3 DEF Written, Puts, I
<1>9. ASSUME NEW i \in 1 .. (f + 3)
      PROVE  RootFits("scoped", layers, groups, P, i)
  <2>0. ScopedText(P, a, f, i)
    BY <1>3
  <2>1. ASSUME Is(P[i], "begin", Root) \/ Is(P[i], "finish", Root) \/ Fencing(P, i, Root)
        PROVE  Holding(P, i, Master)
    <3>1. 2 <= i /\ i <= f
      BY <1>2, <1>4, <2>0, <2>1 DEF ScopedText
    <3> QED BY <1>5, <3>1
  <2>2. ASSUME Is(P[i], "begin", Root), NEW d \in Dirs
        PROVE  ~Behind(P, i, "finish", d)
    <3>1. i <= a
      BY <1>2, <2>0, <2>2 DEF ScopedText
    <3> QED BY <1>6, <3>1
  <2>9. ASSUME Is(P[i], "begin", Root), NEW l \in Sources
        PROVE  ~Written(P, i, l, BaseZoom)
    <3>1. i = 2 /\ l # Total
      BY <2>0, <2>9, TransactionAssumption DEF ScopedText, TransactionAssumption
    <3>2. \A n \in 1 .. (i - 1) : n \in 1 .. (f + 3) /\ ~(2 < n)
      BY <3>1
    <3> QED BY <1>3, <3>1, <3>2 DEF Written, Puts, Works, ScopedText
  <2>3. ASSUME Is(P[i], "finish", Root)
        PROVE  i = f /\ Fencing(P, i, Root)
    <3>1. i = f
      BY <2>0, <2>3 DEF ScopedText
    <3> QED BY <1>2, <1>4, <3>1
  <2>4. ASSUME NEW d \in Dirs, Is(P[i], "finish", d)
        PROVE  Fencing(P, i, Root)
    <3>1. a < i /\ i < f
      BY <2>0, <2>4 DEF ScopedText, Is
    <3> QED BY <1>2, <1>4, <3>1
  <2>5. ASSUME Works(P[i]), P[i].zoom = BaseZoom, P[i].dir # Total
        PROVE  Fencing(P, i, Root) /\ i <= a
    <3>1. 2 < i /\ i < a
      BY <2>0, <2>5 DEF ScopedText
    <3> QED BY <1>2, <1>4, <3>1
  <2>6. \A d \in Members(layers) \cup {Total} : i = f => Behind(P, i, "finish", d)
    BY <1>7
  <2>7. \A l \in groups : i = f => Written(P, i, l, BaseZoom)
    BY <1>8
  <2>8. i <= a => \A d \in Dirs : ~Behind(P, i, "begin", d) /\ ~Behind(P, i, "finish", d)
    BY <1>6
  <2> QED BY <2>1, <2>2, <2>3, <2>4, <2>5, <2>6, <2>7, <2>8, <2>9 DEF RootFits
<1>10. ASSUME NEW i \in 1 .. (f + 3)
       PROVE  EndFits("scoped", layers, P, i)
  BY <1>2, <1>3 DEF EndFits, ScopedText
<1> QED BY <1>2, <1>9, <1>10

LEMMA ScopedFits ==
    ASSUME NEW layers \in Seq(Sources), NEW groups \in SUBSET Members(layers)
    PROVE  ProgramFits("scoped", layers, groups, Scoped(layers, groups) \o Do("end", Root))
<1>0. layers \in Seq(Dirs) /\ Total \notin Members(layers) /\ Master # IngestLock
  <2>1. Sources \subseteq Dirs /\ Total \notin Sources
    BY TransactionAssumption DEF TransactionAssumption, Dirs
  <2> QED BY <2>1 DEF Members, Master, IngestLock
<1>1. PICK A : A = Ingest(layers, groups)
  OBVIOUS
<1>2. PICK F : F = ForEach(layers, BuildPyramid)
  OBVIOUS
<1>3. PICK C : C = Combine
  OBVIOUS
<1>4. /\ Part("scoped", layers, {Master}, A) /\ A \in Seq(Unfenced)
      /\ \A l \in groups : Includes(A, I("put", l, BaseZoom))
  <2>1. {Master} \in SUBSET {Master} /\ Master \in {Master} /\ "scoped" \in {"scoped", "hub"}
    OBVIOUS
  <2> QED BY <1>1, <2>1, IngestIs
<1>5. /\ Part("scoped", layers, {Master, IngestLock}, F) /\ F \in Seq(Derives)
      /\ \A d \in Members(layers) : Includes(F, I("finish", d, BaseZoom))
  <2>1. \A d \in Members(layers) : MayRun("scoped", {Master, IngestLock}, d, 0)
    BY <1>0 DEF MayRun
  <2> QED BY <1>0, <1>2, <2>1, PyramidsAre
<1>6. /\ Part("scoped", layers, {Master, IngestLock}, C) /\ C \in Seq(Derives)
      /\ Includes(C, I("finish", Total, BaseZoom))
  <2>1. MayRun("scoped", {Master, IngestLock}, Total, 5) /\ Total \in Dirs
    BY DEF MayRun, Dirs
  <2> QED BY <1>3, <2>1, RewriteStoreIs DEF Combine
<1>7. PICK B : B = F \o C
  OBVIOUS
<1>8. /\ Part("scoped", layers, {Master, IngestLock}, B) /\ B \in Seq(Derives)
      /\ \A d \in Members(layers) \cup {Total} : Includes(B, I("finish", d, BaseZoom))
  BY <1>5, <1>6, <1>7, PartConcat, ConcatProperties, IncludesConcat
<1>9. A \in Seq(Instructions) /\ F \in Seq(Instructions) /\ C \in Seq(Instructions) /\ B \in Seq(Instructions)
  BY <1>4, <1>5, <1>6, <1>8 DEF Part
<1>10. PICK x1, x2, x3, x4, x5, x6, x7 \in Instructions :
          /\ x1 = I("lock", Root, 0) /\ x2 = I("begin", Root, BaseZoom) /\ x3 = I("lock", Root, 1)
          /\ x4 = I("finish", Root, BaseZoom) /\ x5 = I("unlock", Root, 1) /\ x6 = I("unlock", Root, 0)
          /\ x7 = I("end", Root, BaseZoom)
  BY InstructionsAre, ZoomsAre DEF Ops
<1>11. /\ Lock(Master) = <<x1>> /\ Do("begin", Root) = <<x2>> /\ Lock(IngestLock) = <<x3>>
       /\ Do("finish", Root) = <<x4>> /\ Unlock(IngestLock) = <<x5>> /\ Unlock(Master) = <<x6>> /\ Do("end", Root) = <<x7>>
  BY <1>10 DEF Lock, Unlock, At, Do, I, Master, IngestLock
<1>12. PICK P : P = <<x1>> \o <<x2>> \o A \o <<x3>> \o F \o C \o <<x4>> \o <<x5>> \o <<x6>> \o <<x7>>
  OBVIOUS
<1>13. Scoped(layers, groups) \o Do("end", Root) = P
  BY <1>1, <1>2, <1>3, <1>11, <1>12, Zenon DEF Scoped
<1>14. ScopedShape(P, A, B)
  BY ONLY <1>7, <1>9, <1>10, <1>12, ScopedShapeIs
<1>15. \A i \in DOMAIN P : RootFits("scoped", layers, groups, P, i) /\ EndFits("scoped", layers, P, i)
  BY <1>4, <1>8, <1>14, ScopedRoot
<1>16. Part("scoped", layers, {}, P)
  <2>1. /\ x2.op = "begin" /\ x2.dir = Root /\ x4.op = "finish" /\ x4.dir = Root /\ x7.op = "end"
    BY <1>10 DEF I
  <2>2. Part("scoped", layers, {Master}, <<x2>>)
    BY <2>1, SinglePart
  <2>3. Part("scoped", layers, {Master, IngestLock}, <<x4>>)
    BY <2>1, SinglePart
  <2>4. Part("scoped", layers, {}, <<x7>>)
    BY <2>1, SinglePart
  <2>5. PICK G : G = B \o <<x4>>
    OBVIOUS
  <2>6. Part("scoped", layers, {Master} \cup {IngestLock}, G)
    <3>1. {Master} \cup {IngestLock} = {Master, IngestLock}
      OBVIOUS
    <3>2. Part("scoped", layers, {Master, IngestLock}, G)
      BY <1>8, <2>3, <2>5, PartConcat
    <3> QED BY <3>1, <3>2
  <2>7. PICK W : W = <<x3>> \o G \o <<x5>>
    OBVIOUS
  <2>8. Part("scoped", layers, {Master}, W)
    <3>1. {Master} \in SUBSET ({Master, IngestLock} \ {IngestLock}) /\ IngestLock \in {Master, IngestLock}
      BY <1>0
    <3>2. Part("scoped", layers, {Master}, Lock(IngestLock) \o G \o Unlock(IngestLock))
      BY ONLY <2>6, <3>1, OuterWraps
    <3> QED BY <1>11, <2>7, <3>2
  <2>9. PICK Y : Y = (<<x2>> \o A) \o W
    OBVIOUS
  <2>10. Part("scoped", layers, {Master}, Y)
    <3>1. Part("scoped", layers, {Master}, <<x2>> \o A)
      BY <1>4, <2>2, PartConcat
    <3> QED BY <2>8, <2>9, <3>1, PartConcat
  <2>11. PICK Z : Z = <<x1>> \o Y \o <<x6>>
    OBVIOUS
  <2>12. Part("scoped", layers, {}, Z)
    <3>1. {} \in SUBSET ({Master, IngestLock} \ {Master}) /\ Master \in {Master, IngestLock}
      OBVIOUS
    <3>2. Part("scoped", layers, {} \cup {Master}, Y)
      <4>1. {} \cup {Master} = {Master}
        OBVIOUS
      <4> QED BY <2>10, <4>1
    <3>3. Part("scoped", layers, {}, Lock(Master) \o Y \o Unlock(Master))
      BY ONLY <3>1, <3>2, OuterWraps
    <3> QED BY <1>11, <2>11, <3>3
  <2>13. PICK t1, t2, t3, t4, t5, t6 \in Seq(Instructions) :
            t1 = <<x1>> /\ t2 = <<x2>> /\ t3 = <<x3>> /\ t4 = <<x4>> /\ t5 = <<x5>> /\ t6 = <<x6>>
    BY SingletonSeq
  <2>14. Regroups(t1, t2, A, t3, F, C, t4, t5, t6)
    BY ONLY <1>9, <2>13, Regroup
  <2>15. Z = <<x1>> \o <<x2>> \o A \o <<x3>> \o F \o C \o <<x4>> \o <<x5>> \o <<x6>>
    BY ONLY <1>7, <2>5, <2>7, <2>9, <2>11, <2>13, <2>14, Zenon DEF Regroups
  <2>16. Part("scoped", layers, {}, Z \o <<x7>>)
    BY <2>4, <2>12, PartConcat
  <2> QED BY <1>12, <2>15, <2>16, Zenon
<1>17. Len(P) > 0
  BY <1>9, <1>14 DEF ScopedShape
<1>18. ProgramFits("scoped", layers, groups, P)
  BY <1>15, <1>16, <1>17 DEF ProgramFits
<1> QED BY <1>13, <1>18

-----------------------------------------------------------------------------
(* Every program.                                                          *)

\* What a process of the kind may be asked for.
LayersOf(kind) ==
    CASE kind \in {"scoped", "world"} -> Requests
      [] kind = "combine" -> {<<Total>>}
      [] kind = "pyramid" -> {<<d>> : d \in Dirs}
      [] kind = "hub" -> {<<l>> : l \in Sources}
      [] kind = "pack" -> PackRequests

KindNames == {"scoped", "world", "combine", "pyramid", "hub", "pack"}

LEMMA SequencesOfMembers ==
    /\ \A l \in Sources : <<l>> \in Seq(Sources)
    /\ \A d \in Dirs : <<d>> \in Seq(Dirs)
    /\ Layers \in Seq(Sources) /\ Append(Layers, Total) \in Seq(Dirs)
    /\ Requests \subseteq Seq(Sources) /\ PackRequests \subseteq Seq(Dirs)
<1>1. Layers \in Seq(Sources)
  BY TransactionAssumption DEF TransactionAssumption
<1>2. Sources \subseteq Dirs /\ Total \in Dirs
  BY DEF Dirs
<1>3. \A l \in Sources : <<l>> \in Seq(Sources)
  <2> HIDE DEF Sources
  <2> QED OBVIOUS
<1>4. \A d \in Dirs : <<d>> \in Seq(Dirs)
  <2> HIDE DEF Dirs
  <2> QED OBVIOUS
<1>5. Layers \in Seq(Dirs)
  BY ONLY <1>1, <1>2
<1>6. Append(Layers, Total) \in Seq(Dirs)
  BY ONLY <1>2, <1>5
<1>7. Requests \subseteq Seq(Sources)
  BY <1>1, <1>3 DEF Requests
<1>8. PackRequests \subseteq Seq(Dirs)
  BY <1>2, <1>4, <1>6 DEF PackRequests
<1> QED BY <1>1, <1>3, <1>4, <1>6, <1>7, <1>8

LEMMA LayersAreRequested ==
    ASSUME NEW kind \in KindNames
    PROVE  LayersOf(kind) \subseteq Requested
<1>1. CASE kind \in {"scoped", "world"}
  BY <1>1 DEF LayersOf, Requested
<1>2. CASE kind = "combine"
  BY <1>2 DEF LayersOf, Requested
<1>3. CASE kind = "pyramid"
  <2>1. LayersOf(kind) = {<<d>> : d \in Dirs}
    BY <1>3 DEF LayersOf
  <2> QED BY <2>1 DEF Dirs, Requested, Requests
<1>4. CASE kind = "hub"
  <2>1. LayersOf(kind) = {<<l>> : l \in Sources}
    BY <1>4 DEF LayersOf
  <2> QED BY <2>1 DEF Requested, Requests
<1>5. CASE kind = "pack"
  <2>1. LayersOf(kind) = PackRequests
    BY <1>5 DEF LayersOf
  <2> QED BY <2>1 DEF Requested
<1> QED BY <1>1, <1>2, <1>3, <1>4, <1>5 DEF KindNames

LEMMA ProgramIs ==
    ASSUME NEW kind \in Kinds, NEW layers \in LayersOf(kind), NEW groups \in SUBSET Sources
    PROVE  Program[kind][layers][groups] = ProgramFor(kind, layers, groups) /\ kind \in KindNames
<1>1. kind \in KindNames
  BY TransactionAssumption DEF TransactionAssumption, KindNames
<1>2. layers \in Requested
  BY <1>1, LayersAreRequested
<1>3. groups \in {S : S \in SUBSET Sources}
  OBVIOUS
<1> QED BY <1>1, <1>2, <1>3, Zenon DEF Program

LEMMA ProgramsFit ==
    ASSUME NEW kind \in Kinds, NEW layers \in LayersOf(kind), NEW groups \in SUBSET Sources,
           groups \subseteq Members(layers)
    PROVE  ProgramFits(kind, layers, groups, Program[kind][layers][groups])
<1>1. Program[kind][layers][groups] = ProgramFor(kind, layers, groups) /\ kind \in KindNames
  BY ProgramIs
<1> SUFFICES ProgramFits(kind, layers, groups, ProgramFor(kind, layers, groups))
  BY <1>1, Zenon
<1>2. CASE kind = "scoped"
  <2>1. ProgramFor(kind, layers, groups) = Scoped(layers, groups) \o Do("end", Root)
    BY <1>2 DEF ProgramFor
  <2>2. layers \in Seq(Sources) /\ groups \in SUBSET Members(layers)
    BY <1>2, SequencesOfMembers DEF LayersOf
  <2> QED BY <1>2, <2>1, <2>2, ScopedFits, Zenon
<1>3. CASE kind = "world"
  <2>1. ProgramFor(kind, layers, groups) = World(layers) \o Do("end", Root)
    BY <1>3 DEF ProgramFor
  <2>2. layers \in Seq(Sources)
    BY <1>3, SequencesOfMembers DEF LayersOf
  <2> QED BY <1>3, <2>1, <2>2, WorldFits, Zenon
<1>4. CASE kind = "combine"
  <2>1. ProgramFor(kind, layers, groups) = RunLockedCombine \o Do("end", Root)
    BY <1>4 DEF ProgramFor
  <2> QED BY <1>4, <2>1, CombineFits, Zenon
<1>5. CASE kind = "pyramid"
  <2>1. ProgramFor(kind, layers, groups) = ForEach(layers, BuildPyramid) \o Do("end", Root)
    BY <1>5 DEF ProgramFor
  <2>2. layers \in Seq(Dirs)
    BY <1>5, SequencesOfMembers DEF LayersOf
  <2> QED BY <1>5, <2>1, <2>2, PyramidFits, Zenon
<1>6. CASE kind = "hub"
  <2>1. ProgramFor(kind, layers, groups) = Ingest(layers, Members(layers)) \o Do("end", Root)
    BY <1>6 DEF ProgramFor
  <2>2. layers \in Seq(Sources)
    BY <1>6, SequencesOfMembers DEF LayersOf
  <2>3. Members(layers) \in SUBSET Members(layers)
    OBVIOUS
  <2> QED BY <1>6, <2>1, <2>2, <2>3, HubFits, Zenon
<1>7. CASE kind = "pack"
  <2>1. ProgramFor(kind, layers, groups) = Pack(layers) \o Do("end", Root)
    BY <1>7 DEF ProgramFor
  <2>2. layers \in Seq(Dirs)
    BY <1>7, SequencesOfMembers DEF LayersOf
  <2> QED BY <1>7, <2>1, <2>2, PackFits, Zenon
<1> QED BY <1>1, <1>2, <1>3, <1>4, <1>5, <1>6, <1>7 DEF KindNames

\* A program that sums all layers has all of them among its own.
LEMMA PackedSources ==
    ASSUME NEW layers \in PackRequests, Total \in Members(layers)
    PROVE  Sources \subseteq Members(layers)
<1>1. Layers \in Seq(Sources) /\ Total \notin Sources
  BY TransactionAssumption DEF TransactionAssumption
<1>2. CASE \E l \in Sources : layers = <<l>>
  BY <1>1, <1>2 DEF Members
<1>3. CASE layers = Append(Layers, Total)
  <2>1. \A i \in DOMAIN Layers : i \in DOMAIN layers /\ layers[i] = Layers[i]
    BY <1>1, <1>3
  <2> QED BY <2>1 DEF Members, Sources
<1> QED BY <1>2, <1>3 DEF PackRequests
-----------------------------------------------------------------------------
(* One place further.                                                      *)

LEMMA NextPlace ==
    ASSUME NEW P, NEW i \in Nat, i >= 1
    PROVE  /\ 1 .. (i + 1 - 1) = 1 .. (i - 1) \cup {i}
           /\ \A m \in 1 .. (i - 1) : (m + 1) .. (i + 1 - 1) = (m + 1) .. (i - 1) \cup {i}
           /\ (i + 1) .. (i + 1 - 1) = {}
OBVIOUS

LEMMA NextHolding ==
    ASSUME NEW P, NEW i \in Nat, i >= 1, NEW l
    PROVE  Holding(P, i + 1, l) <=> (Holding(P, i, l) /\ ~Drops(P[i], l)) \/ Takes(P[i], l)
<1>1. ASSUME NEW m \in 1 .. (i - 1)
      PROVE  (\A n \in (m + 1) .. (i + 1 - 1) : ~Drops(P[n], l)) <=> (\A n \in (m + 1) .. (i - 1) : ~Drops(P[n], l)) /\ ~Drops(P[i], l)
  BY NextPlace
<1>2. (\A n \in (i + 1) .. (i + 1 - 1) : ~Drops(P[n], l))
  BY NextPlace
<1>3. 1 .. (i + 1 - 1) = 1 .. (i - 1) \cup {i}
  BY NextPlace
<1> QED BY <1>1, <1>2, <1>3 DEF Holding

LEMMA NextFences ==
    ASSUME NEW P, NEW i \in Nat, i >= 1, NEW d, NEW m \in 1 .. (i - 1)
    PROVE  Fences(P, m, i + 1, d) <=> Fences(P, m, i, d) /\ ~Is(P[i], "finish", d)
<1>1. m < i /\ m < i + 1
  OBVIOUS
<1>2. (\A n \in (m + 1) .. (i + 1 - 1) : ~Is(P[n], "finish", d))
          <=> (\A n \in (m + 1) .. (i - 1) : ~Is(P[n], "finish", d)) /\ ~Is(P[i], "finish", d)
  BY NextPlace
<1> QED BY <1>1, <1>2 DEF Fences

LEMMA NextFencing ==
    ASSUME NEW P, NEW i \in Nat, i >= 1, NEW d
    PROVE  Fencing(P, i + 1, d) <=> (Fencing(P, i, d) /\ ~Is(P[i], "finish", d)) \/ Is(P[i], "begin", d)
<1>1. 1 .. (i + 1 - 1) = 1 .. (i - 1) \cup {i}
  BY NextPlace
<1>2. Fences(P, i, i + 1, d) <=> Is(P[i], "begin", d)
  <2>1. (\A n \in (i + 1) .. (i + 1 - 1) : ~Is(P[n], "finish", d)) /\ i < i + 1
    BY NextPlace
  <2> QED BY <2>1 DEF Fences
<1> QED BY <1>1, <1>2, NextFences DEF Fencing

LEMMA NextPassed ==
    ASSUME NEW P, NEW i \in Nat, i >= 1, NEW d, NEW z
    PROVE  Passed(P, i + 1, d, z) =>
               \/ Passed(P, i, d, z) /\ ~Is(P[i], "finish", d)
               \/ Fencing(P, i, d) /\ Puts(P[i], d, z)
<1> SUFFICES ASSUME NEW m \in 1 .. (i + 1 - 1), NEW n \in 1 .. (i + 1 - 1), m < n, Fences(P, m, i + 1, d), Puts(P[n], d, z)
             PROVE  \/ Passed(P, i, d, z) /\ ~Is(P[i], "finish", d)
                    \/ Fencing(P, i, d) /\ Puts(P[i], d, z)
  BY DEF Passed
<1>1. m \in 1 .. (i - 1)
  OBVIOUS
<1>2. Fences(P, m, i, d) /\ ~Is(P[i], "finish", d)
  BY <1>1, NextFences
<1>3. CASE n = i
  BY <1>1, <1>2, <1>3 DEF Fencing
<1>4. CASE n # i
  <2>1. n \in 1 .. (i - 1)
    BY <1>4
  <2> QED BY <1>1, <1>2, <2>1 DEF Passed
<1> QED BY <1>3, <1>4

LEMMA NextBehind ==
    ASSUME NEW P, NEW i \in Nat, i >= 1, NEW op, NEW d
    PROVE  Behind(P, i + 1, op, d) <=> Behind(P, i, op, d) \/ Is(P[i], op, d)
<1>1. 1 .. (i + 1 - 1) = 1 .. (i - 1) \cup {i}
  BY NextPlace
<1> QED BY <1>1 DEF Behind

LEMMA NextWritten ==
    ASSUME NEW P, NEW i \in Nat, i >= 1, NEW d, NEW z
    PROVE  Written(P, i + 1, d, z) <=> Written(P, i, d, z) \/ Puts(P[i], d, z)
<1>1. 1 .. (i + 1 - 1) = 1 .. (i - 1) \cup {i}
  BY NextPlace
<1> QED BY <1>1 DEF Written

LEMMA PassedFences ==
    ASSUME NEW P, NEW i, NEW d, NEW z, Passed(P, i, d, z)
    PROVE  Fencing(P, i, d)
BY DEF Passed, Fencing
-----------------------------------------------------------------------------
(* The state: what a process has behind it, and the inductive invariant.   *)

TextOf(p) == Program[job[p].kind][job[p].layers][job[p].groups]
Holds(p, l) == job[p] # None /\ Holding(TextOf(p), pc[p], l)
InFence(p, d) == job[p] # None /\ Fencing(TextOf(p), pc[p], d)
HasPassed(p, d, z) == job[p] # None /\ Passed(TextOf(p), pc[p], d, z)
HasFinished(p, d) == job[p] # None /\ Behind(TextOf(p), pc[p], "finish", d)
HasWritten(p, d, z) == job[p] # None /\ Written(TextOf(p), pc[p], d, z)

\* The instruction k places before p's own.
Before(p, k) == TextOf(p)[pc[p] - k]

Jobs == [kind : Kinds, layers : Requested, push : Nat, full : BOOLEAN, groups : SUBSET Sources,
         cols : SUBSET Columns, loud : SUBSET (Dirs \X Columns), run : 1 .. MaxRuns]

JobFits(p) ==
    /\ job[p].layers \in LayersOf(job[p].kind)
    /\ job[p].groups \subseteq Members(job[p].layers)
    /\ job[p].full => job[p].cols = Columns
    /\ job[p].kind \in {"scoped", "hub"} => ~job[p].full
    /\ job[p].run \in 1 .. runs
    /\ pc[p] \in DOMAIN TextOf(p)
    /\ due[p] \subseteq job[p].cols

Tiles(d) == IF d = Total THEN {None} \cup [Sources -> Contents] ELSE Contents
Tile == Contents \cup [Sources -> Contents]

\* The types of the variables.
StoreInv ==
    /\ store \in [Dirs -> [Zooms -> [Columns -> Tile]]]
    /\ \A d \in Dirs, z \in Zooms, c \in Columns : store[d][z][c] \in Tiles(d)
JobInv ==
    /\ job \in [Procs -> Jobs \cup {None}]
    /\ pc \in [Procs -> Nat]
    /\ due \in [Procs -> SUBSET Columns]
    /\ runs \in 0 .. MaxRuns
    /\ \A p \in Procs : (job[p] = None => due[p] = {}) /\ (job[p] # None => JobFits(p))
MarkerInv ==
    /\ marker \in [Dirs \cup {Root} -> Markers \cup {None}]
    /\ \A d \in Dirs \cup {Root} : marker[d] # None => marker[d].token \in 1 .. runs
HolderInv ==
    /\ holder \in [Locks -> Procs \cup {None}]
    /\ \A l \in Locks : holder[l] # None => job[holder[l]] # None

\* What the text of its program says it holds, a process holds.
LockInv == \A p \in Procs, l \in Locks : Holds(p, l) => holder[l] = p

\* Who stands in a fence owns its marker.
FenceInv ==
    \A p \in Procs, d \in Dirs \cup {Root} :
        InFence(p, d) => Owns(p, d) /\ marker[d].descriptor = Descriptor(p, d)

Pools(d, z, c) == store[d][z][c] = store[d][z + 1][c]
Pooled(d, c) == \A z \in MinZoom .. (BaseZoom - 1) : Pools(d, z, c)
Summed(c) == store[Total][BaseZoom][c] = Sum(c)

\* The root's marker still stands for column c of d: who finished there has
\* not left the fence.
RootCovers(d, c) ==
    /\ marker[Root] # None
    /\ c \in marker[Root].descriptor.cols
    /\ d \in marker[Root].descriptor.layers \cup {Total}
    /\ \A q \in Procs : InFence(q, Root) => ~HasFinished(q, d)

Marked(d, c) == marker[d] # None /\ c \in marker[d].descriptor.cols

PoolFenced(d, c) == Pooled(d, c) \/ <<d, c>> \in owed \/ RootCovers(d, c) \/ Marked(d, c)
SumFenced(c) ==
    \/ Summed(c) \/ <<Total, c>> \in owed \/ RootCovers(Total, c)
    \/ Marked(Total, c) /\ marker[Total].descriptor.operation = "combine-total"
\* DamageIsFenced, with the fences told apart.
DamageInv ==
    /\ \A d \in Dirs, c \in Columns : PoolFenced(d, c)
    /\ \A c \in Columns : SumFenced(c)

\* What others have written to the base may wait for their own transaction,
\* or for a later one.
Excused(p, d, c) == <<d, c>> \in owed \/ (job[p].kind # "scoped" /\ RootCovers(d, c))

Derived(p, d, z, c) ==
    IF z < BaseZoom THEN Pools(d, z, c) \/ (z = BaseZoom - 1 /\ Excused(p, d, c))
    ELSE d = Total => Summed(c) \/ Excused(p, d, c)

\* What a process has written in a fence it stands in is derived.
WorkInv ==
    \A p \in Procs, d \in Dirs, z \in Zooms :
        HasPassed(p, d, z) => \A c \in job[p].cols : Derived(p, d, z, c)

\* p has scanned level z of d, and not yet opened it.
Scanned(p, d, z) ==
    /\ job[p] # None
    /\ \/ pc[p] > 1 /\ Is(Before(p, 1), "scan", d) /\ Before(p, 1).zoom = z
       \/ /\ pc[p] > 2 /\ Before(p, 1).op \in {"lock", "lockWithin"}
          /\ Is(Before(p, 2), "scan", d) /\ Before(p, 2).zoom = z
Silent(p, d, z, c) == store[d][z + 1][c] = None \/ (z = BaseZoom - 1 /\ Excused(p, d, c))
\* What a tile list leaves out is silent.
ScanInv ==
    \A p \in Procs, d \in Dirs, z \in MinZoom .. (BaseZoom - 1) :
        Scanned(p, d, z) => InFence(p, d) /\ \A c \in job[p].cols \ due[p] : job[p].full /\ Silent(p, d, z, c)

\* p has emptied the base of Total, and not yet scanned what it is summed from.
Emptied(p) ==
    job[p] # None /\ job[p].full /\ pc[p] > 1 /\ Is(Before(p, 1), "open", Total) /\ Before(p, 1).zoom = BaseZoom
EmptyInv ==
    \A p \in Procs : Emptied(p) => InFence(p, Total) /\ \A c \in Columns : store[Total][BaseZoom][c] = None

\* What the pass at the level has done with.
PutInv ==
    \A p \in Procs : Reached(p, "put") =>
        \A c \in job[p].cols \ due[p] : Derived(p, Instr(p).dir, Instr(p).zoom, c)

\* What a scoped update has put is there.
ArriveInv ==
    "hub" \notin Kinds =>
    \A p \in Procs, l \in Sources : job[p] # None /\ job[p].kind = "scoped" /\ InFence(p, Root) =>
        /\ HasWritten(p, l, BaseZoom) => \A c \in job[p].cols : store[l][BaseZoom][c] = Staged(p, l, c)
        /\ Reached(p, "put") /\ Instr(p).dir = l /\ Instr(p).zoom = BaseZoom =>
               \A c \in job[p].cols \ due[p] : store[l][BaseZoom][c] = Staged(p, l, c)

TransactionInv ==
    /\ StoreInv /\ JobInv /\ MarkerInv /\ HolderInv /\ owed \subseteq Dirs \X Columns
    /\ LockInv /\ FenceInv /\ DamageInv /\ WorkInv /\ ScanInv /\ EmptyInv /\ PutInv /\ PackIsCoherent /\ ArriveInv

-----------------------------------------------------------------------------
(* What the text says of a process at its place.                           *)

LEMMA PlaceIs ==
    ASSUME JobInv, NEW p \in Procs, job[p] # None
    PROVE  /\ ProgramFits(job[p].kind, job[p].layers, job[p].groups, TextOf(p))
           /\ TextOf(p) \in Seq(Instructions) /\ Len(TextOf(p)) \in Nat /\ DOMAIN TextOf(p) = 1 .. Len(TextOf(p))
           /\ pc[p] \in Nat /\ pc[p] >= 1 /\ pc[p] <= Len(TextOf(p)) /\ pc[p] \in DOMAIN TextOf(p)
           /\ TextOf(p)[pc[p]] = Instr(p) /\ Instr(p) \in Instructions
           /\ PlaceFits(job[p].kind, job[p].layers, {}, TextOf(p), pc[p])
           /\ RootFits(job[p].kind, job[p].layers, job[p].groups, TextOf(p), pc[p])
           /\ EndFits(job[p].kind, job[p].layers, TextOf(p), pc[p])
<1>1. job[p] \in Jobs /\ JobFits(p) /\ pc[p] \in Nat
  BY DEF JobInv
<1>2. /\ job[p].kind \in Kinds /\ job[p].layers \in LayersOf(job[p].kind)
      /\ job[p].groups \in SUBSET Sources /\ job[p].groups \subseteq Members(job[p].layers)
  BY <1>1 DEF Jobs, JobFits
<1>3. ProgramFits(job[p].kind, job[p].layers, job[p].groups, TextOf(p))
  BY <1>2, ProgramsFit DEF TextOf
<1>4. TextOf(p) \in Seq(Instructions)
  BY <1>3 DEF ProgramFits, Part
<1>5. pc[p] \in DOMAIN TextOf(p)
  BY <1>1 DEF JobFits
<1>6. TextOf(p)[pc[p]] = Instr(p)
  BY DEF TextOf, Instr
<1>7. Len(TextOf(p)) \in Nat /\ DOMAIN TextOf(p) = 1 .. Len(TextOf(p)) /\ TextOf(p)[pc[p]] \in Instructions
  BY <1>4, <1>5
<1>8. /\ PlaceFits(job[p].kind, job[p].layers, {}, TextOf(p), pc[p])
      /\ RootFits(job[p].kind, job[p].layers, job[p].groups, TextOf(p), pc[p])
      /\ EndFits(job[p].kind, job[p].layers, TextOf(p), pc[p])
  BY <1>3, <1>5 DEF ProgramFits, Part
<1> QED BY <1>1, <1>3, <1>4, <1>5, <1>6, <1>7, <1>8

LockFits(p) ==
    LET x == Instr(p)
    IN  /\ x.op \in {"lock", "lockWithin", "unlock"} => <<x.dir, x.zoom>> \in Locks
        /\ x.op = "unlock" => Holds(p, <<x.dir, x.zoom>>)

MutexFits(p) ==
    \A d \in Dirs :
        /\ Is(Instr(p), "begin", d) \/ Is(Instr(p), "finish", d) \/ InFence(p, d) => Holds(p, Mutex(d))
        /\ Is(Instr(p), "finish", d) =>
               InFence(p, d) /\ \A z \in MinZoom .. (BaseZoom - 1) : HasPassed(p, d, z)

LevelFits(p) ==
    LET x == Instr(p)
    IN  Works(x) =>
            /\ x.dir \in Dirs /\ x.zoom \in Zooms
            /\ x.op # "scan" => Holds(p, Level(x.dir, x.zoom))
            /\ x.zoom < BaseZoom \/ x.dir = Total => InFence(p, x.dir)
            /\ \A z \in Zooms : z <= x.zoom => ~HasPassed(p, x.dir, z)

BaseFits(p) ==
    LET x == Instr(p)
    IN  /\ Works(x) /\ x.zoom = BaseZoom =>
               /\ job[p].kind # "hub" => Holds(p, Master)
               /\ x.dir = Total => job[p].kind \in {"scoped", "world", "combine"}
               /\ x.dir # Total =>
                      /\ job[p].kind \in {"scoped", "world", "hub"}
                      /\ job[p].kind = "world" => InFence(p, x.dir)
                      /\ job[p].kind = "scoped" => x.dir \in Members(job[p].layers)
        /\ job[p].kind = "scoped" => \A d \in Dirs : InFence(p, d) => Holds(p, Master)
        /\ Is(x, "finish", Total) /\ job[p].kind # "pyramid" => HasPassed(p, Total, BaseZoom)

UpdateFits(p) ==
    LET x == Instr(p)
    IN  /\ Is(x, "begin", Root) \/ Is(x, "finish", Root) \/ InFence(p, Root) =>
               job[p].kind = "scoped" /\ Holds(p, Master)
        /\ Is(x, "begin", Root) =>
               /\ \A d \in Dirs : ~HasFinished(p, d)
               /\ \A l \in Sources : ~HasWritten(p, l, BaseZoom)
        /\ Is(x, "finish", Root) =>
               /\ InFence(p, Root)
               /\ \A d \in Members(job[p].layers) \cup {Total} : HasFinished(p, d)
               /\ \A l \in job[p].groups : HasWritten(p, l, BaseZoom)
        /\ job[p].kind = "scoped" /\ (\E d \in Dirs : Is(x, "finish", d)) => InFence(p, Root)
        /\ job[p].kind = "scoped" /\ Works(x) /\ x.zoom = BaseZoom /\ x.dir # Total =>
               InFence(p, Root) /\ \A d \in Dirs : ~InFence(p, d) /\ ~HasFinished(p, d)

TurnFits(p) ==
    LET x == Instr(p)
    IN  /\ x.op = "open" /\ x.zoom < BaseZoom =>
               /\ pc[p] > 2
               /\ Before(p, 1).op \in {"lock", "lockWithin"}
               /\ Is(Before(p, 2), "scan", x.dir) /\ Before(p, 2).zoom = x.zoom
        /\ x.op = "put" /\ x.zoom < BaseZoom => pc[p] > 1 /\ Is(Before(p, 1), "open", x.dir) /\ Before(p, 1).zoom = x.zoom
        /\ x.op = "put" /\ x.zoom >= BaseZoom => pc[p] > 1 /\ Is(Before(p, 1), "scan", x.dir) /\ Before(p, 1).zoom = x.zoom
        /\ x.op = "scan" /\ x.zoom = BaseZoom => pc[p] > 1 /\ Is(Before(p, 1), "open", x.dir) /\ Before(p, 1).zoom = x.zoom
        /\ x.op = "ship" =>
               /\ job[p].kind = "pack" /\ pc[p] > 1 /\ Before(p, 1).op = "reject"
               /\ \A d \in Members(job[p].layers), z \in Zooms : Holds(p, Level(d, z))

LEMMA InstrFits ==
    ASSUME JobInv, NEW p \in Procs, job[p] # None
    PROVE  LockFits(p) /\ MutexFits(p) /\ LevelFits(p) /\ BaseFits(p) /\ UpdateFits(p) /\ TurnFits(p)
<1>1. PICK P, i, kind, layers : P = TextOf(p) /\ i = pc[p] /\ kind = job[p].kind /\ layers = job[p].layers
  OBVIOUS
<1>2. /\ P[i] = Instr(p) /\ Instr(p) \in Instructions /\ i \in Nat /\ i \in DOMAIN P /\ P \in Seq(Instructions)
      /\ PlaceFits(kind, layers, {}, P, i) /\ RootFits(kind, layers, job[p].groups, P, i) /\ EndFits(kind, layers, P, i)
  BY <1>1, PlaceIs
<1>3. /\ \A l : Holds(p, l) <=> Holding(P, i, l)
      /\ \A d : InFence(p, d) <=> Fencing(P, i, d)
      /\ \A d : \A z : HasPassed(p, d, z) <=> Passed(P, i, d, z)
      /\ \A d : HasFinished(p, d) <=> Behind(P, i, "finish", d)
      /\ \A d : \A z : HasWritten(p, d, z) <=> Written(P, i, d, z)
  BY <1>1 DEF Holds, InFence, HasPassed, HasFinished, HasWritten
<1>4. Before(p, 1) = P[i - 1] /\ Before(p, 2) = P[i - 2]
  BY <1>1 DEF Before
<1>5. LockFits(p)
  BY <1>2, <1>3 DEF PlaceFits, LocksFit, LockFits
<1>6. MutexFits(p)
  BY <1>2, <1>3 DEF PlaceFits, FencesFit, MutexFits
<1>7. LevelFits(p)
  BY <1>2, <1>3 DEF PlaceFits, WorkFits, LevelFits
<1>8. BaseFits(p)
  BY <1>1, <1>2, <1>3 DEF PlaceFits, KindFits, BaseFits
<1>9. UpdateFits(p)
  <2>1. ASSUME kind = "scoped", Works(P[i]), P[i].zoom = BaseZoom, P[i].dir # Total
        PROVE  Fencing(P, i, Root) /\ \A d \in Dirs : ~Fencing(P, i, d) /\ ~Behind(P, i, "finish", d)
    <3>1. Fencing(P, i, Root) /\ \A d \in Dirs : ~Behind(P, i, "begin", d) /\ ~Behind(P, i, "finish", d)
      BY <1>2, <2>1 DEF RootFits
    <3>2. \A d \in Dirs : Fencing(P, i, d) => Behind(P, i, "begin", d)
      BY DEF Fencing, Fences, Behind
    <3> QED BY <3>1, <3>2
  <2>2. RootFits(kind, layers, job[p].groups, P, i)
    BY <1>2
  <2> QED BY <1>1, <1>2, <1>3, <2>1, <2>2 DEF RootFits, UpdateFits
<1>10. TurnFits(p)
  <2>1. ASSUME NEW n \in DOMAIN P, NEW o, P[n] = [Instr(p) EXCEPT !.op = o]
        PROVE  Is(P[n], o, Instr(p).dir) /\ P[n].zoom = Instr(p).zoom
    BY <1>2, <2>1 DEF Is, Instructions
  <2>2. i > 1 => i - 1 \in DOMAIN P
    BY <1>2
  <2>3. i > 2 => i - 2 \in DOMAIN P
    BY <1>2
  <2>4. InTurn(P, i) /\ Instr(p).zoom \in Nat /\ BaseZoom \in Nat
    BY <1>2, ZoomsAre DEF PlaceFits, Instructions
  <2>5. Instr(p).op = "open" /\ Instr(p).zoom < BaseZoom =>
               /\ i > 2
               /\ P[i - 1].op \in {"lock", "lockWithin"}
               /\ Is(P[i - 2], "scan", Instr(p).dir) /\ P[i - 2].zoom = Instr(p).zoom
    BY <1>2, <2>1, <2>3, <2>4 DEF InTurn
  <2>6. Instr(p).op = "put" /\ Instr(p).zoom < BaseZoom => i > 1 /\ Is(P[i - 1], "open", Instr(p).dir) /\ P[i - 1].zoom = Instr(p).zoom
    BY <1>2, <2>1, <2>2, <2>4 DEF InTurn
  <2>7. Instr(p).op = "put" /\ Instr(p).zoom >= BaseZoom => i > 1 /\ Is(P[i - 1], "scan", Instr(p).dir) /\ P[i - 1].zoom = Instr(p).zoom
    <3>1. Instr(p).zoom >= BaseZoom => ~(Instr(p).zoom < BaseZoom)
      BY <2>4
    <3>2. Instr(p).op = "put" /\ Instr(p).zoom >= BaseZoom => i > 1 /\ P[i - 1] = [Instr(p) EXCEPT !.op = "scan"]
      BY <1>2, <2>4, <3>1 DEF InTurn
    <3> QED BY <2>1, <2>2, <3>2
  <2>8. Instr(p).op = "scan" /\ Instr(p).zoom = BaseZoom => i > 1 /\ Is(P[i - 1], "open", Instr(p).dir) /\ P[i - 1].zoom = Instr(p).zoom
    BY <1>2, <2>1, <2>2, <2>4 DEF InTurn
  <2>9. Instr(p).op = "ship" =>
               /\ kind = "pack" /\ i > 1 /\ P[i - 1].op = "reject"
               /\ \A d \in Members(layers), z \in Zooms : Holds(p, Level(d, z))
    BY <1>2, <1>3 DEF EndFits
  <2> QED BY <1>1, <1>4, <2>5, <2>6, <2>7, <2>8, <2>9 DEF TurnFits
<1> QED BY <1>5, <1>6, <1>7, <1>8, <1>9, <1>10
-----------------------------------------------------------------------------
(* What a step does to a process: nothing, one instruction, or its start   *)
(* or end.                                                                 *)

Same(q) == job'[q] = job[q] /\ pc'[q] = pc[q]
Onward(q) == job[q] # None /\ job'[q] = job[q] /\ pc'[q] = pc[q] + 1 /\ Instr(q).op \notin {"ship", "end"}
Afresh(q) == job'[q] = None \/ pc'[q] = 1

LEMMA SameStands ==
    ASSUME NEW q, Same(q)
    PROVE  /\ \A l : Holds(q, l)' <=> Holds(q, l)
           /\ \A d : InFence(q, d)' <=> InFence(q, d)
           /\ \A d : \A z : HasPassed(q, d, z)' <=> HasPassed(q, d, z)
           /\ \A d : HasFinished(q, d)' <=> HasFinished(q, d)
           /\ \A d : \A z : HasWritten(q, d, z)' <=> HasWritten(q, d, z)
           /\ \A d : \A z : Scanned(q, d, z)' <=> Scanned(q, d, z)
           /\ Emptied(q)' <=> Emptied(q)
           /\ Instr(q)' = Instr(q) /\ \A op : Reached(q, op)' <=> Reached(q, op)
<1>1. TextOf(q)' = TextOf(q) /\ pc'[q] = pc[q] /\ job'[q] = job[q]
  BY DEF Same, TextOf
<1>2. Before(q, 1)' = Before(q, 1) /\ Before(q, 2)' = Before(q, 2)
  BY <1>1 DEF Before
<1>3. Instr(q)' = Instr(q)
  BY <1>1 DEF Instr
<1>4. \A d : \A z : Scanned(q, d, z)' <=> Scanned(q, d, z)
  BY <1>1, <1>2 DEF Scanned
<1>5. Emptied(q)' <=> Emptied(q)
  BY <1>1, <1>2 DEF Emptied
<1>6. \A op : Reached(q, op)' <=> Reached(q, op)
  BY <1>1, <1>3 DEF Reached
<1>7. \A l : Holds(q, l)' <=> Holds(q, l)
  BY <1>1 DEF Holds
<1>8. \A d : InFence(q, d)' <=> InFence(q, d)
  BY <1>1 DEF InFence
<1>9. \A d : \A z : HasPassed(q, d, z)' <=> HasPassed(q, d, z)
  BY <1>1 DEF HasPassed
<1>10. \A d : HasFinished(q, d)' <=> HasFinished(q, d)
  BY <1>1 DEF HasFinished
<1>11. \A d : \A z : HasWritten(q, d, z)' <=> HasWritten(q, d, z)
  BY <1>1 DEF HasWritten
<1> QED BY <1>3, <1>4, <1>5, <1>6, <1>7, <1>8, <1>9, <1>10, <1>11

LEMMA AfreshStands ==
    ASSUME NEW q, Afresh(q)
    PROVE  /\ \A l : ~Holds(q, l)'
           /\ \A d : ~InFence(q, d)'
           /\ \A d : \A z : ~HasPassed(q, d, z)'
           /\ \A d : ~HasFinished(q, d)'
           /\ \A d : \A z : ~HasWritten(q, d, z)'
           /\ \A d : \A z : ~Scanned(q, d, z)'
           /\ ~Emptied(q)'
<1>1. CASE job'[q] = None
  BY <1>1 DEF Holds, InFence, HasPassed, HasFinished, HasWritten, Scanned, Emptied
<1>2. CASE pc'[q] = 1
  <2>1. /\ \A l : ~Holds(q, l)'
        /\ \A d : ~InFence(q, d)'
        /\ \A d : \A z : ~HasPassed(q, d, z)'
        /\ \A d : ~HasFinished(q, d)'
        /\ \A d : \A z : ~HasWritten(q, d, z)'
    BY <1>2, NothingAtFirst DEF Holds, InFence, HasPassed, HasFinished, HasWritten
  <2>2. ~(pc'[q] > 1) /\ ~(pc'[q] > 2)
    BY <1>2
  <2>3. \A d : \A z : ~Scanned(q, d, z)'
    BY <2>2 DEF Scanned
  <2>4. ~Emptied(q)'
    BY <2>2 DEF Emptied
  <2> QED BY <2>1, <2>3, <2>4
<1> QED BY <1>1, <1>2 DEF Afresh

LEMMA OnwardStands ==
    ASSUME JobInv, NEW q \in Procs, Onward(q)
    PROVE  /\ \A l : Holds(q, l)' <=> (Holds(q, l) /\ ~Drops(Instr(q), l)) \/ Takes(Instr(q), l)
           /\ \A d : InFence(q, d)' <=> (InFence(q, d) /\ ~Is(Instr(q), "finish", d)) \/ Is(Instr(q), "begin", d)
           /\ \A d : \A z : HasPassed(q, d, z)' =>
                  \/ HasPassed(q, d, z) /\ ~Is(Instr(q), "finish", d)
                  \/ InFence(q, d) /\ Puts(Instr(q), d, z)
           /\ \A d : HasFinished(q, d)' <=> HasFinished(q, d) \/ Is(Instr(q), "finish", d)
           /\ \A d : \A z : HasWritten(q, d, z)' <=> HasWritten(q, d, z) \/ Puts(Instr(q), d, z)
           /\ pc'[q] > 1 /\ Before(q, 1)' = Instr(q)
           /\ pc'[q] > 2 => pc[q] > 1 /\ Before(q, 2)' = Before(q, 1)
           /\ pc'[q] \in DOMAIN TextOf(q)'
<1>1. PICK P, i : P = TextOf(q) /\ i = pc[q]
  OBVIOUS
<1>2. /\ P[i] = Instr(q) /\ i \in Nat /\ i >= 1 /\ EndFits(job[q].kind, job[q].layers, P, i)
      /\ DOMAIN P = 1 .. Len(P) /\ Len(P) \in Nat /\ i \in DOMAIN P /\ job[q] # None
  BY <1>1, PlaceIs DEF Onward
<1>3. TextOf(q)' = P /\ pc'[q] = i + 1 /\ job'[q] = job[q]
  BY <1>1 DEF Onward, TextOf
<1>4. Before(q, 1)' = P[i + 1 - 1] /\ Before(q, 2)' = P[i + 1 - 2] /\ Before(q, 1) = P[i - 1]
  <2>1. Before(q, 1)' = TextOf(q)'[pc'[q] - 1] /\ Before(q, 2)' = TextOf(q)'[pc'[q] - 2]
    BY DEF Before
  <2>2. Before(q, 1) = P[i - 1]
    BY <1>1 DEF Before
  <2>3. pc'[q] - 1 = i + 1 - 1 /\ pc'[q] - 2 = i + 1 - 2
    <3>1. i \in Nat /\ pc'[q] = i + 1
      BY <1>2, <1>3
    <3> QED BY ONLY <3>1
  <2> QED BY <1>3, <2>1, <2>2, <2>3, Zenon
<1>5. i + 1 - 1 = i /\ i + 1 - 2 = i - 1 /\ i + 1 > 1 /\ (i + 1 > 2 => i > 1)
  BY <1>2
<1>6. i + 1 \in DOMAIN P
  <2>1. i # Len(P)
    BY <1>2 DEF EndFits, Onward
  <2>2. PICK n \in Nat : n = Len(P)
    BY <1>2
  <2>3. i \in 1 .. n /\ i # n
    BY <1>2, <2>1, <2>2
  <2>4. i + 1 \in 1 .. n
    BY ONLY n \in Nat, <2>3
  <2> QED BY <1>2, <2>2, <2>4
<1>7. \A l : Holds(q, l)' <=> (Holds(q, l) /\ ~Drops(Instr(q), l)) \/ Takes(Instr(q), l)
  BY <1>1, <1>2, <1>3, NextHolding DEF Holds
<1>8. \A d : InFence(q, d)' <=> (InFence(q, d) /\ ~Is(Instr(q), "finish", d)) \/ Is(Instr(q), "begin", d)
  BY <1>1, <1>2, <1>3, NextFencing DEF InFence
<1>9. \A d : \A z : HasPassed(q, d, z)' =>
                  \/ HasPassed(q, d, z) /\ ~Is(Instr(q), "finish", d)
                  \/ InFence(q, d) /\ Puts(Instr(q), d, z)
  BY <1>1, <1>2, <1>3, NextPassed DEF HasPassed, InFence
<1>10. \A d : HasFinished(q, d)' <=> HasFinished(q, d) \/ Is(Instr(q), "finish", d)
  BY <1>1, <1>2, <1>3, NextBehind DEF HasFinished
<1>11. \A d : \A z : HasWritten(q, d, z)' <=> HasWritten(q, d, z) \/ Puts(Instr(q), d, z)
  BY <1>1, <1>2, <1>3, NextWritten DEF HasWritten
<1> QED BY <1>1, <1>2, <1>3, <1>4, <1>5, <1>6, <1>7, <1>8, <1>9, <1>10, <1>11

\* The kinds of step.
Quietly == UNCHANGED <<store, marker, owed>>
Begun(p) ==
    /\ job[p] = None /\ Quietly /\ holder' = holder /\ due' = due /\ runs' = runs + 1 /\ runs < MaxRuns
    /\ \E j \in Jobs :
           /\ job' = [job EXCEPT ![p] = j] /\ j.run = runs + 1
           /\ j.layers \in LayersOf(j.kind) /\ j.groups \subseteq Members(j.layers)
           /\ j.full => j.cols = Columns
           /\ j.kind \in {"scoped", "hub"} => ~j.full
    /\ pc' = [pc EXCEPT ![p] = 1]
Left(p) == job[p] # None /\ Leave(p) /\ Quietly /\ runs' = runs
Moved(p) == (SyncAll(p) \/ TripwirePassed(p) \/ NotRejected(p))

\* What the kinds of step have in common.
Touches(p) ==
    /\ \A q \in Procs \ {p} : Same(q) /\ due'[q] = due[q]
    /\ Same(p) \/ Onward(p) \/ Afresh(p)
    /\ \A q \in Procs : job[q] # None => job'[q] \in {job[q], None}
    /\ runs' >= runs

LEMMA GoesTouches ==
    ASSUME JobInv, NEW p \in Procs, job[p] # None, Goes(p), job' = job, runs' = runs,
           Instr(p).op \notin {"ship", "end"}, \A q \in Procs \ {p} : due'[q] = due[q]
    PROVE  Touches(p) /\ Onward(p)
<1>1. pc \in [Procs -> Nat] /\ runs \in Nat
  BY DEF JobInv
<1>2. pc'[p] = pc[p] + 1 /\ \A q \in Procs \ {p} : pc'[q] = pc[q]
  BY <1>1 DEF Goes
<1> QED BY <1>1, <1>2 DEF Touches, Onward, Same

LEMMA LeftTouches ==
    ASSUME JobInv, NEW p \in Procs, Left(p)
    PROVE  /\ Touches(p) /\ job'[p] = None /\ Afresh(p)
<1>1. pc \in [Procs -> Nat] /\ runs \in Nat /\ due \in [Procs -> SUBSET Columns] /\ job \in [Procs -> Jobs \cup {None}]
  BY DEF JobInv
<1>2. job'[p] = None /\ \A q \in Procs \ {p} : pc'[q] = pc[q] /\ due'[q] = due[q] /\ job'[q] = job[q]
  BY <1>1 DEF Left, Leave
<1>3. runs' >= runs
  BY <1>1 DEF Left
<1> QED BY <1>2, <1>3 DEF Touches, Afresh, Same

LEMMA BegunTouches ==
    ASSUME JobInv, NEW p \in Procs, Begun(p)
    PROVE  Touches(p) /\ Afresh(p) /\ pc'[p] = 1
<1>1. pc \in [Procs -> Nat] /\ runs \in Nat /\ due \in [Procs -> SUBSET Columns] /\ job \in [Procs -> Jobs \cup {None}]
  BY DEF JobInv
<1>2. pc'[p] = 1 /\ \A q \in Procs \ {p} : pc'[q] = pc[q] /\ due'[q] = due[q] /\ job'[q] = job[q]
  BY <1>1 DEF Begun
<1>3. runs' >= runs
  BY <1>1 DEF Begun
<1>4. job[p] = None
  BY DEF Begun
<1> QED BY <1>2, <1>3, <1>4 DEF Touches, Afresh, Same

LEMMA StartBegins ==
    ASSUME JobInv, NEW p \in Procs, NEW kind \in Kinds, NEW layers \in LayersOf(kind), NEW push \in Nat,
           NEW full \in BOOLEAN, NEW cols \in SUBSET Columns, NEW loud \in SUBSET (Dirs \X Columns),
           GroupsOf(layers, loud) \subseteq Sources, full => cols = Columns, kind \in {"scoped", "hub"} => ~full,
           Start(p, kind, layers, push, full, cols, loud)
    PROVE  Begun(p)
<1>1. PICK j : j = [kind |-> kind, layers |-> layers, push |-> push, full |-> full,
                    groups |-> GroupsOf(layers, loud), cols |-> cols, loud |-> loud, run |-> runs + 1]
  OBVIOUS
<1>2. /\ j.kind = kind /\ j.layers = layers /\ j.full = full /\ j.cols = cols /\ j.run = runs + 1
      /\ j.groups = GroupsOf(layers, loud)
  BY <1>1
<1>3. layers \in Requested
  <2>1. kind \in KindNames
    BY TransactionAssumption DEF TransactionAssumption, KindNames
  <2> QED BY <2>1, LayersAreRequested
<1>4. runs + 1 \in 1 .. MaxRuns
  <2>1. runs \in 0 .. MaxRuns /\ MaxRuns \in Nat
    BY TransactionAssumption DEF JobInv, TransactionAssumption
  <2>2. runs < MaxRuns
    BY DEF Start
  <2> QED BY ONLY <2>1, <2>2
<1>5. j \in Jobs
  BY <1>1, <1>3, <1>4 DEF Jobs
<1>6. j.groups \subseteq Members(j.layers)
  BY <1>2 DEF GroupsOf
<1>7. /\ job[p] = None /\ Quietly /\ holder' = holder /\ due' = due /\ runs' = runs + 1 /\ runs < MaxRuns
      /\ job' = [job EXCEPT ![p] = j] /\ pc' = [pc EXCEPT ![p] = 1]
  BY <1>1, Zenon DEF Start, Quietly
<1> QED BY <1>2, <1>5, <1>6, <1>7 DEF Begun

LEMMA StartsBegin ==
    ASSUME JobInv, NEW p \in Procs, Starts(p)
    PROVE  Begun(p)
<1>a. BaseZoom \in Nat /\ {} \in SUBSET (Dirs \X Columns) /\ Columns \in SUBSET Columns
  BY ZoomsAre
<1>b. ASSUME NEW layers \in Seq(Sources)
      PROVE  /\ Members(layers) \subseteq Sources /\ Members(layers) \subseteq Dirs
             /\ \A loud : GroupsOf(layers, loud) \subseteq Sources
  BY <1>b DEF Members, GroupsOf, Dirs
<1>c. \A layers : GroupsOf(layers, {}) = {}
  BY DEF GroupsOf
<1>1. CASE StartScoped(p)
  <2>1. PICK layers \in Requests, cols \in (SUBSET Columns) \ {{}} :
            \E loud \in SUBSET (Members(layers) \X cols) : Start(p, "scoped", layers, BaseZoom, FALSE, cols, loud)
    BY <1>1 DEF StartScoped
  <2>2. PICK loud \in SUBSET (Members(layers) \X cols) : Start(p, "scoped", layers, BaseZoom, FALSE, cols, loud)
    BY <2>1
  <2>3. layers \in Seq(Sources) /\ layers \in LayersOf("scoped")
    BY SequencesOfMembers DEF LayersOf
  <2>4. loud \in SUBSET (Dirs \X Columns) /\ GroupsOf(layers, loud) \subseteq Sources /\ cols \in SUBSET Columns
    BY <1>b, <2>3
  <2>5. "scoped" \in Kinds
    BY <2>2 DEF Start
  <2> QED BY <1>a, <2>2, <2>3, <2>4, <2>5, StartBegins
<1>2. CASE StartWorld(p)
  <2>1. PICK layers \in Requests : \E loud \in SUBSET (Members(layers) \X Columns) :
            Start(p, "world", layers, BaseZoom, TRUE, Columns, loud)
    BY <1>2 DEF StartWorld
  <2>2. PICK loud \in SUBSET (Members(layers) \X Columns) : Start(p, "world", layers, BaseZoom, TRUE, Columns, loud)
    BY <2>1
  <2>3. layers \in Seq(Sources) /\ layers \in LayersOf("world")
    BY SequencesOfMembers DEF LayersOf
  <2>4. loud \in SUBSET (Dirs \X Columns) /\ GroupsOf(layers, loud) \subseteq Sources
    BY <1>b, <2>3
  <2>5. "world" \in Kinds
    BY <2>2 DEF Start
  <2> QED BY <1>a, <2>2, <2>3, <2>4, <2>5, StartBegins
<1>3. CASE StartCombine(p)
  <2>1. Start(p, "combine", <<Total>>, BaseZoom, TRUE, Columns, {})
    BY <1>3 DEF StartCombine
  <2>2. <<Total>> \in LayersOf("combine") /\ "combine" \in Kinds /\ GroupsOf(<<Total>>, {}) \subseteq Sources
    BY <1>c, <2>1 DEF LayersOf, Start
  <2> QED BY <1>a, <2>1, <2>2, StartBegins
<1>4. CASE StartPyramid(p)
  <2>1. PICK d \in Dirs : \/ Start(p, "pyramid", <<d>>, BaseZoom, TRUE, Columns, {})
                          \/ \E c \in Columns : Start(p, "pyramid", <<d>>, BaseZoom, FALSE, {c}, {})
    BY <1>4 DEF StartPyramid
  <2>2. <<d>> \in LayersOf("pyramid") /\ "pyramid" \in Kinds /\ GroupsOf(<<d>>, {}) \subseteq Sources
    <3>1. LayersOf("pyramid") = {<<e>> : e \in Dirs}
      BY DEF LayersOf
    <3> QED BY <1>c, <2>1, <3>1 DEF Start
  <2>3. \A c \in Columns : {c} \in SUBSET Columns
    OBVIOUS
  <2> QED BY <1>a, <2>1, <2>2, <2>3, StartBegins
<1>5. CASE StartHub(p)
  <2>1. PICK l \in Sources, c \in Columns, push \in Pushed :
            \E loud \in SUBSET {<<l, c>>} : Start(p, "hub", <<l>>, push, FALSE, {c}, loud)
    BY <1>5 DEF StartHub
  <2>2. PICK loud \in SUBSET {<<l, c>>} : Start(p, "hub", <<l>>, push, FALSE, {c}, loud)
    BY <2>1
  <2>3. <<l>> \in Seq(Sources) /\ <<l>> \in LayersOf("hub")
    <3>1. LayersOf("hub") = {<<e>> : e \in Sources}
      BY DEF LayersOf
    <3> QED BY <3>1, SequencesOfMembers
  <2>4. push \in Nat /\ {c} \in SUBSET Columns /\ l \in Dirs
    BY <1>a DEF Pushed, Dirs
  <2>5. loud \in SUBSET (Dirs \X Columns) /\ GroupsOf(<<l>>, loud) \subseteq Sources
    <3>1. <<l, c>> \in Dirs \X Columns
      BY <2>4
    <3>2. GroupsOf(<<l>>, loud) \subseteq Sources
      BY <1>b, <2>3
    <3> QED BY <3>1, <3>2
  <2>6. "hub" \in Kinds
    BY <2>2 DEF Start
  <2> QED BY <2>2, <2>3, <2>4, <2>5, <2>6, StartBegins
<1>6. CASE StartPack(p)
  <2>1. PICK dirs \in PackRequests : Start(p, "pack", dirs, BaseZoom, FALSE, Columns, {})
    BY <1>6 DEF StartPack
  <2>2. dirs \in LayersOf("pack") /\ "pack" \in Kinds /\ GroupsOf(dirs, {}) \subseteq Sources
    BY <1>c, <2>1 DEF LayersOf, Start
  <2> QED BY <1>a, <2>1, <2>2, StartBegins
<1> QED BY <1>1, <1>2, <1>3, <1>4, <1>5, <1>6 DEF Starts

Acts(p) ==
    \/ Begun(p) \/ Left(p) \/ AcquireLock(p) \/ ReleaseLock(p) \/ Begin(p) \/ Finish(p)
    \/ Scan(p) \/ Open(p) \/ (\E c \in Columns : PutTile(p, c)) \/ Moved(p)

LEMMA NextIs ==
    ASSUME JobInv, Next
    PROVE  \E p \in Procs : Acts(p)
<1>1. PICK p \in Procs : Starts(p) \/ Step(p) \/ LockTimesOut(p) \/ Dies(p)
  BY DEF Next
<1>2. CASE Starts(p)
  BY <1>2, StartsBegin DEF Acts
<1>3. CASE LockTimesOut(p)
  BY <1>3 DEF LockTimesOut, Left, Quietly, Acts, Reached
<1>4. CASE Dies(p)
  BY <1>4 DEF Dies, Left, Quietly, Acts
<1>5. CASE BeginRefused(p) \/ Tripwire(p) \/ Bail(p) \/ Rejected(p) \/ Ends(p)
  BY <1>5 DEF BeginRefused, Tripwire, Bail, Rejected, Ends, Left, Quietly, Acts, Reached
<1>6. CASE AcquireLock(p) \/ ReleaseLock(p) \/ Begin(p) \/ Finish(p) \/ Scan(p) \/ Open(p)
           \/ (\E c \in Columns : PutTile(p, c)) \/ SyncAll(p) \/ TripwirePassed(p) \/ NotRejected(p)
  BY <1>6 DEF Acts, Moved
<1> QED BY <1>1, <1>2, <1>3, <1>4, <1>5, <1>6 DEF Step

LEMMA ActsTouch ==
    ASSUME JobInv, NEW p \in Procs, Acts(p)
    PROVE  Touches(p)
<1>0. /\ pc \in [Procs -> Nat] /\ runs \in Nat /\ due \in [Procs -> SUBSET Columns]
      /\ job \in [Procs -> Jobs \cup {None}]
  BY DEF JobInv
<1>1. CASE Begun(p)
  BY <1>1, BegunTouches
<1>2. CASE Left(p)
  BY <1>2, LeftTouches
<1>3. CASE AcquireLock(p) \/ ReleaseLock(p) \/ Begin(p) \/ Finish(p) \/ Open(p) \/ Moved(p)
  <2>1. /\ job[p] # None /\ Goes(p) /\ job' = job /\ runs' = runs /\ due' = due /\ Instr(p).op \notin {"ship", "end"}
    BY <1>3 DEF AcquireLock, ReleaseLock, Begin, Finish, Open, Moved, SyncAll, TripwirePassed, NotRejected, Reached
  <2> QED BY <2>1, GoesTouches
<1>4. CASE Scan(p)
  <2>1. /\ job[p] # None /\ Goes(p) /\ job' = job /\ runs' = runs /\ Instr(p).op \notin {"ship", "end"}
    BY <1>4 DEF Scan, Reached
  <2>2. \A q \in Procs \ {p} : due'[q] = due[q]
    BY <1>0, <1>4 DEF Scan
  <2> QED BY <2>1, <2>2, GoesTouches
<1>5. ASSUME NEW c \in Columns, PutTile(p, c)
      PROVE  Touches(p)
  <2>1. job' = job /\ pc' = pc /\ runs' = runs
    BY <1>5 DEF PutTile
  <2>2. \A q \in Procs \ {p} : due'[q] = due[q]
    BY <1>0, <1>5 DEF PutTile
  <2> QED BY <1>0, <2>1, <2>2 DEF Touches, Same
<1> QED BY <1>1, <1>2, <1>3, <1>4, <1>5 DEF Acts

\* A process that is where it was goes on as before.
LEMMA GoesOnward ==
    ASSUME JobInv, NEW p \in Procs,
           AcquireLock(p) \/ ReleaseLock(p) \/ Begin(p) \/ Finish(p) \/ Open(p) \/ Moved(p) \/ Scan(p)
    PROVE  Onward(p) /\ job' = job /\ runs' = runs /\ (Scan(p) \/ due' = due) /\ pc' = [pc EXCEPT ![p] = @ + 1]
<1>1. /\ job[p] # None /\ Goes(p) /\ job' = job /\ runs' = runs /\ Instr(p).op \notin {"ship", "end"}
  BY DEF AcquireLock, ReleaseLock, Begin, Finish, Open, Moved, SyncAll, TripwirePassed, NotRejected, Scan, Reached
<1>2. Scan(p) \/ due' = due
  BY DEF AcquireLock, ReleaseLock, Begin, Finish, Open, Moved, SyncAll, TripwirePassed, NotRejected
<1>3. pc'[p] = pc[p] + 1 /\ pc' = [pc EXCEPT ![p] = @ + 1]
  BY <1>1 DEF Goes, JobInv
<1> QED BY <1>1, <1>2, <1>3 DEF Onward

LEMMA SameJobFits ==
    ASSUME JobInv, NEW q \in Procs, Same(q), due'[q] \subseteq due[q], runs' >= runs, runs' \in Nat
    PROVE  (job'[q] = None => due'[q] = {}) /\ (job'[q] # None => JobFits(q)')
<1>1. TextOf(q)' = TextOf(q) /\ pc'[q] = pc[q] /\ job'[q] = job[q]
  BY DEF Same, TextOf
<1>2. (job[q] = None => due[q] = {}) /\ (job[q] # None => JobFits(q)) /\ runs \in Nat
  BY DEF JobInv
<1>3. job[q] # None => job[q].run \in 1 .. runs'
  BY <1>2 DEF JobFits
<1>4. ASSUME job[q] # None
      PROVE  JobFits(q)'
  <2>1. JobFits(q)
    BY <1>2, <1>4
  <2>2. due'[q] \subseteq job[q].cols
    BY <2>1 DEF JobFits
  <2> QED BY <1>1, <1>3, <1>4, <2>1, <2>2 DEF JobFits
<1> QED BY <1>1, <1>2, <1>4

LEMMA OnwardJobFits ==
    ASSUME JobInv, NEW q \in Procs, Onward(q), due'[q] \subseteq job[q].cols, runs' = runs
    PROVE  JobFits(q)' /\ job'[q] # None
<1>1. job'[q] = job[q] /\ pc'[q] \in DOMAIN TextOf(q)' /\ job[q] # None
  BY OnwardStands DEF Onward
<1>2. JobFits(q)
  BY <1>1 DEF JobInv
<1> QED BY <1>1, <1>2 DEF JobFits

LEMMA JobStep ==
    ASSUME JobInv, NEW p \in Procs, Acts(p)
    PROVE  JobInv'
<1>0. /\ pc \in [Procs -> Nat] /\ runs \in 0 .. MaxRuns /\ due \in [Procs -> SUBSET Columns] /\ MaxRuns \in Nat
      /\ job \in [Procs -> Jobs \cup {None}] /\ runs \in Nat
  BY TransactionAssumption DEF JobInv, TransactionAssumption
<1>1. ASSUME runs' \in Nat
      PROVE  \A q \in Procs \ {p} : (job'[q] = None => due'[q] = {}) /\ (job'[q] # None => JobFits(q)')
  <2>1. \A q \in Procs \ {p} : Same(q) /\ due'[q] = due[q]
    BY ActsTouch DEF Touches
  <2>2. runs' >= runs
    BY ActsTouch DEF Touches
  <2> QED BY <1>1, <2>1, <2>2, SameJobFits
<1>2. CASE Begun(p)
  <2>1. PICK j \in Jobs : /\ job' = [job EXCEPT ![p] = j] /\ j.run = runs + 1
                          /\ j.layers \in LayersOf(j.kind) /\ j.groups \subseteq Members(j.layers)
                          /\ j.full => j.cols = Columns
                          /\ j.kind \in {"scoped", "hub"} => ~j.full
    BY <1>2 DEF Begun
  <2>2. /\ job[p] = None /\ due' = due /\ runs' = runs + 1 /\ pc' = [pc EXCEPT ![p] = 1] /\ runs < MaxRuns
    BY <1>2 DEF Begun
  <2>3. job' \in [Procs -> Jobs \cup {None}] /\ pc' \in [Procs -> Nat] /\ runs' \in 0 .. MaxRuns /\ runs' \in Nat
    BY <1>0, <2>1, <2>2
  <2>4. job'[p] = j /\ pc'[p] = 1 /\ due'[p] = {}
    BY <1>0, <2>1, <2>2 DEF JobInv
  <2>5. TextOf(p)' = Program[j.kind][j.layers][j.groups]
    BY <2>4 DEF TextOf
  <2>6. j.kind \in Kinds /\ j.groups \in SUBSET Sources
    BY DEF Jobs
  <2>7. 1 \in DOMAIN TextOf(p)'
    <3>1. PICK P : P = Program[j.kind][j.layers][j.groups]
      OBVIOUS
    <3>2. P \in Seq(Instructions) /\ Len(P) > 0
      BY <2>1, <2>6, <3>1, ProgramsFit DEF ProgramFits, Part
    <3>3. 1 \in DOMAIN P
      BY ONLY <3>2
    <3> QED BY <2>5, <3>1, <3>3
  <2>8. j.run \in 1 .. runs'
    BY <1>0, <2>1, <2>2
  <2>9. JobFits(p)'
    BY <2>1, <2>4, <2>7, <2>8 DEF JobFits
  <2>10. due' \in [Procs -> SUBSET Columns]
    BY <1>0, <2>2
  <2> QED BY <1>1, <2>3, <2>4, <2>9, <2>10 DEF JobInv
<1>3. CASE Left(p)
  <2>1. job' = [job EXCEPT ![p] = None] /\ pc' = [pc EXCEPT ![p] = 0] /\ due' = [due EXCEPT ![p] = {}] /\ runs' = runs
    BY <1>3 DEF Left, Leave
  <2>2. /\ job' \in [Procs -> Jobs \cup {None}] /\ pc' \in [Procs -> Nat] /\ runs' \in 0 .. MaxRuns /\ runs' \in Nat
        /\ due' \in [Procs -> SUBSET Columns] /\ job'[p] = None /\ due'[p] = {}
    BY <1>0, <2>1
  <2> QED BY <1>1, <2>2 DEF JobInv
<1>4. CASE AcquireLock(p) \/ ReleaseLock(p) \/ Begin(p) \/ Finish(p) \/ Open(p) \/ Moved(p) \/ Scan(p)
  <2>1. Onward(p) /\ job' = job /\ runs' = runs /\ (Scan(p) \/ due' = due) /\ pc' = [pc EXCEPT ![p] = @ + 1]
    BY <1>4, GoesOnward
  <2>2. due'[p] \subseteq job[p].cols /\ due' \in [Procs -> SUBSET Columns]
    <3>1. JobFits(p) /\ job[p] \in Jobs
      BY <2>1 DEF JobInv, Onward
    <3>2. due[p] \subseteq job[p].cols /\ job[p].cols \subseteq Columns
      BY <3>1 DEF JobFits, Jobs
    <3>3. CASE due' = due
      BY <1>0, <3>2, <3>3
    <3>4. CASE Scan(p)
      <4>1. due' = [due EXCEPT ![p] = Pass(p, Instr(p).dir, Instr(p).zoom)]
        BY <3>4 DEF Scan
      <4>2. Pass(p, Instr(p).dir, Instr(p).zoom) \subseteq job[p].cols
        BY DEF Pass
      <4> QED BY <1>0, <3>2, <4>1, <4>2
    <3> QED BY <2>1, <3>3, <3>4
  <2>3. JobFits(p)' /\ job'[p] # None
    BY <2>1, <2>2, OnwardJobFits
  <2>4. pc' \in [Procs -> Nat] /\ runs' \in 0 .. MaxRuns /\ job' \in [Procs -> Jobs \cup {None}] /\ runs' \in Nat
    BY <1>0, <2>1
  <2> QED BY <1>1, <2>2, <2>3, <2>4 DEF JobInv
<1>5. ASSUME NEW c \in Columns, PutTile(p, c)
      PROVE  JobInv'
  <2>1. job' = job /\ pc' = pc /\ runs' = runs /\ due' = [due EXCEPT ![p] = @ \ {c}]
    BY <1>5 DEF PutTile
  <2>2. Same(p) /\ due'[p] \subseteq due[p] /\ due' \in [Procs -> SUBSET Columns] /\ runs' >= runs /\ runs' \in Nat
    BY <1>0, <2>1 DEF Same
  <2>3. (job'[p] = None => due'[p] = {}) /\ (job'[p] # None => JobFits(p)')
    BY <2>2, SameJobFits
  <2>4. job' \in [Procs -> Jobs \cup {None}] /\ pc' \in [Procs -> Nat] /\ runs' \in 0 .. MaxRuns
    BY <1>0, <2>1
  <2> QED BY <1>1, <2>2, <2>3, <2>4 DEF JobInv
<1> QED BY <1>2, <1>3, <1>4, <1>5 DEF Acts
-----------------------------------------------------------------------------
(* Markers and locks.                                                      *)

LEMMA JobIs ==
    ASSUME JobInv, NEW p \in Procs, job[p] # None
    PROVE  /\ job[p] \in Jobs /\ JobFits(p)
           /\ job[p].kind \in Kinds /\ job[p].kind \in KindNames /\ job[p].full \in BOOLEAN
           /\ job[p].groups \subseteq Sources /\ job[p].cols \subseteq Columns /\ job[p].run \in 1 .. runs
           /\ job[p].run \in 1 .. MaxRuns
           /\ Members(job[p].layers) \subseteq Dirs
<1>1. job[p] \in Jobs /\ JobFits(p)
  BY DEF JobInv
<1>2. job[p].kind \in KindNames
  BY <1>1, TransactionAssumption DEF Jobs, TransactionAssumption, KindNames
<1>3. ASSUME NEW layers \in Seq(Dirs)
      PROVE  Members(layers) \subseteq Dirs
  BY DEF Members
<1>4. ASSUME NEW layers \in Seq(Sources)
      PROVE  Members(layers) \subseteq Dirs
  BY DEF Members, Dirs
<1>5. job[p].layers \in LayersOf(job[p].kind)
  BY <1>1 DEF JobFits
<1>6. LayersOf(job[p].kind) \subseteq Seq(Dirs) \cup Seq(Sources)
  <2>1. /\ \A l \in Sources : <<l>> \in Seq(Sources)
        /\ \A d \in Dirs : <<d>> \in Seq(Dirs)
        /\ Requests \subseteq Seq(Sources) /\ PackRequests \subseteq Seq(Dirs) /\ Total \in Dirs
    BY SequencesOfMembers DEF Dirs
  <2>2. CASE job[p].kind \in {"scoped", "world"}
    BY <2>1, <2>2 DEF LayersOf
  <2>3. CASE job[p].kind = "combine"
    BY <2>1, <2>3 DEF LayersOf
  <2>4. CASE job[p].kind = "pyramid"
    <3>1. LayersOf(job[p].kind) = {<<d>> : d \in Dirs}
      BY <2>4 DEF LayersOf
    <3> QED BY <2>1, <3>1
  <2>5. CASE job[p].kind = "hub"
    <3>1. LayersOf(job[p].kind) = {<<d>> : d \in Sources}
      BY <2>5 DEF LayersOf
    <3> QED BY <2>1, <3>1
  <2>6. CASE job[p].kind = "pack"
    BY <2>1, <2>6 DEF LayersOf
  <2> QED BY <1>2, <2>2, <2>3, <2>4, <2>5, <2>6 DEF KindNames
<1>7. Members(job[p].layers) \subseteq Dirs
  BY <1>3, <1>4, <1>5, <1>6
<1>8. job[p].run \in 1 .. runs
  BY <1>1 DEF JobFits
<1> QED BY <1>1, <1>2, <1>7, <1>8 DEF Jobs

LEMMA DescriptorIs ==
    ASSUME JobInv, NEW p \in Procs, job[p] # None, NEW d \in Dirs \cup {Root}
    PROVE  /\ Descriptor(p, d) \in Descriptors
           /\ Descriptor(p, d).cols = job[p].cols
           /\ d = Root => Descriptor(p, d).layers = Members(job[p].layers)
           /\ d = Total /\ job[p].kind \in {"scoped", "world", "combine"} => Descriptor(p, d).operation = "combine-total"
           /\ d = Total /\ job[p].kind = "pyramid" => Descriptor(p, d).operation # "combine-total"
<1>1. job[p].full \in BOOLEAN /\ job[p].cols \subseteq Columns /\ Members(job[p].layers) \subseteq Dirs
  BY JobIs
<1>2. Root \notin Dirs /\ Total \in Dirs
  BY TransactionAssumption DEF TransactionAssumption, Dirs
<1>3. PICK o \in {"scoped", "transcode", "combine-total", "pyramid"} :
          /\ o = CASE d = Root                                          -> "scoped"
                     [] d = Total /\ job[p].kind \in {"scoped", "world", "combine"} -> "combine-total"
                     [] d # Total /\ job[p].kind = "world"                -> "transcode"
                     [] OTHER                                             -> "pyramid"
          /\ d = Total /\ job[p].kind \in {"scoped", "world", "combine"} => o = "combine-total"
          /\ d = Total /\ job[p].kind = "pyramid" => o # "combine-total"
  <2>1. CASE d = Root
    BY <1>2, <2>1
  <2>2. CASE d = Total /\ job[p].kind \in {"scoped", "world", "combine"}
    BY <1>2, <2>2
  <2>3. CASE d # Root /\ d # Total /\ job[p].kind = "world"
    BY <2>3
  <2>4. CASE d # Root /\ ~(d = Total /\ job[p].kind \in {"scoped", "world", "combine"}) /\ ~(d # Total /\ job[p].kind = "world")
    BY <2>4
  <2> QED BY <2>1, <2>2, <2>3, <2>4
<1>4. PICK L : L = (IF d = Root THEN Members(job[p].layers) ELSE {})
  OBVIOUS
<1>a. L \in SUBSET Dirs /\ (d = Root => L = Members(job[p].layers))
  BY <1>1, <1>4
<1>5. Descriptor(p, d) = [operation |-> o, layers |-> L, full |-> job[p].full, cols |-> job[p].cols]
  BY <1>3, <1>4, Zenon DEF Descriptor
<1> QED BY <1>1, <1>3, <1>a, <1>5 DEF Descriptors

\* The marker that Begin writes.
LEMMA BeginIs ==
    ASSUME JobInv, MarkerInv, NEW p \in Procs, Begin(p)
    PROVE  \E d \in Dirs \cup {Root} :
               /\ Is(Instr(p), "begin", d)
               /\ marker[d] # None => marker[d].descriptor = Descriptor(p, d)
               /\ marker'[d] # None /\ marker'[d].descriptor = Descriptor(p, d) /\ marker'[d].token = job[p].run
               /\ marker'[d] \in Markers
               /\ \A e \in (Dirs \cup {Root}) \ {d} : marker'[e] = marker[e]
               /\ marker' \in [Dirs \cup {Root} -> Markers \cup {None}]
<1>1. job[p] # None /\ Instr(p).op = "begin"
  BY DEF Begin, Reached
<1>2. Instr(p).dir \in Dirs \cup {Root}
  BY <1>1, PlaceIs DEF Instructions
<1>3. PICK d \in Dirs \cup {Root} : d = Instr(p).dir
  BY <1>2
<1>4. Is(Instr(p), "begin", d)
  BY <1>1, <1>3 DEF Is
<1>5. PICK m : m = [descriptor |-> Descriptor(p, d), token |-> job[p].run, adopted |-> marker[d] # None]
  OBVIOUS
<1>6. m \in Markers /\ m.descriptor = Descriptor(p, d) /\ m.token = job[p].run
  <2>1. Descriptor(p, d) \in Descriptors
    BY <1>1, DescriptorIs
  <2>2. job[p].run \in Nat
    <3>1. job[p].run \in 1 .. runs /\ runs \in Nat
      BY <1>1, JobIs DEF JobInv
    <3> QED BY <3>1
  <2>3. (marker[d] # None) \in BOOLEAN
    OBVIOUS
  <2> QED BY <1>5, <2>1, <2>2, <2>3 DEF Markers
<1>7. m # None
  BY <1>6, TransactionAssumption DEF TransactionAssumption
<1>8. marker' = [marker EXCEPT ![d] = m] /\ (marker[d] # None => marker[d].descriptor = Descriptor(p, d))
  BY <1>3, <1>5, Zenon DEF Begin
<1>9. marker \in [Dirs \cup {Root} -> Markers \cup {None}]
  BY DEF MarkerInv
<1> HIDE DEF Markers
<1>10. marker'[d] = m /\ \A e \in (Dirs \cup {Root}) \ {d} : marker'[e] = marker[e]
  BY <1>8, <1>9
<1>11. marker' \in [Dirs \cup {Root} -> Markers \cup {None}]
  BY <1>6, <1>8, <1>9
<1> QED BY <1>4, <1>6, <1>7, <1>8, <1>10, <1>11

LEMMA FinishIs ==
    ASSUME JobInv, MarkerInv, NEW p \in Procs, Finish(p)
    PROVE  \E d \in Dirs \cup {Root} :
               /\ Is(Instr(p), "finish", d)
               /\ marker'[d] = None
               /\ \A e \in (Dirs \cup {Root}) \ {d} : marker'[e] = marker[e]
               /\ marker' \in [Dirs \cup {Root} -> Markers \cup {None}]
<1>1. job[p] # None /\ Instr(p).op = "finish"
  BY DEF Finish, Reached
<1>2. Instr(p).dir \in Dirs \cup {Root}
  BY <1>1, PlaceIs DEF Instructions
<1>3. PICK d \in Dirs \cup {Root} : d = Instr(p).dir
  BY <1>2
<1>4. marker' = [marker EXCEPT ![d] = None]
  BY <1>3 DEF Finish
<1>5. marker \in [Dirs \cup {Root} -> Markers \cup {None}]
  BY DEF MarkerInv
<1> HIDE DEF Markers
<1> QED BY <1>1, <1>3, <1>4, <1>5 DEF Is

LEMMA MarkerStep ==
    ASSUME JobInv, MarkerInv, NEW p \in Procs, Acts(p)
    PROVE  MarkerInv'
<1>1. runs' >= runs /\ runs' \in Nat /\ runs \in Nat
  <2>1. JobInv'
    BY JobStep
  <2> QED BY <2>1, ActsTouch DEF Touches, JobInv
<1>2. CASE marker' = marker
  BY <1>1, <1>2 DEF MarkerInv
<1>3. CASE Begin(p)
  <2>1. PICK d \in Dirs \cup {Root} :
               /\ marker'[d].token = job[p].run
               /\ \A e \in (Dirs \cup {Root}) \ {d} : marker'[e] = marker[e]
               /\ marker' \in [Dirs \cup {Root} -> Markers \cup {None}]
    BY <1>3, BeginIs
  <2>2. job[p] # None
    BY <1>3 DEF Begin, Reached
  <2>3. job[p].run \in 1 .. runs
    BY <2>2, JobIs
  <2> QED BY <1>1, <2>1, <2>3 DEF MarkerInv
<1>4. CASE Finish(p)
  <2>1. PICK d \in Dirs \cup {Root} :
               /\ marker'[d] = None
               /\ \A e \in (Dirs \cup {Root}) \ {d} : marker'[e] = marker[e]
               /\ marker' \in [Dirs \cup {Root} -> Markers \cup {None}]
    BY <1>4, FinishIs
  <2> QED BY <1>1, <2>1 DEF MarkerInv
<1>5. marker' = marker \/ Begin(p) \/ Finish(p)
  BY DEF Acts, Begun, Left, Quietly, AcquireLock, ReleaseLock, Scan, Open, PutTile, Moved, SyncAll, TripwirePassed, NotRejected
<1> QED BY <1>2, <1>3, <1>4, <1>5

LEMMA HolderStep ==
    ASSUME JobInv, HolderInv, NEW p \in Procs, Acts(p)
    PROVE  HolderInv'
<1>0. /\ holder \in [Locks -> Procs \cup {None}] /\ job \in [Procs -> Jobs \cup {None}]
      /\ \A l \in Locks : holder[l] # None => holder[l] \in Procs /\ job[holder[l]] # None
  BY DEF JobInv, HolderInv
<1>1. CASE holder' = holder /\ job' = job
  BY <1>0, <1>1 DEF HolderInv
<1>2. CASE Begun(p)
  <2>1. PICK j : job' = [job EXCEPT ![p] = j]
    BY <1>2 DEF Begun
  <2>2. job[p] = None /\ holder' = holder
    BY <1>2 DEF Begun
  <2> QED BY <1>0, <2>1, <2>2 DEF HolderInv
<1>3. CASE Left(p)
  <2>1. job' = [job EXCEPT ![p] = None] /\ holder' = [l \in Locks |-> IF holder[l] = p THEN None ELSE holder[l]]
    BY <1>3 DEF Left, Leave, Released
  <2> QED BY <1>0, <2>1 DEF HolderInv
<1>4. CASE AcquireLock(p)
  <2>1. PICK l \in Locks : holder' = [holder EXCEPT ![l] = p]
    <3>1. job[p] # None /\ Instr(p).op \in {"lock", "lockWithin"}
      BY <1>4 DEF AcquireLock, Reached
    <3>2. <<Instr(p).dir, Instr(p).zoom>> \in Locks
      BY <3>1, InstrFits DEF LockFits
    <3> QED BY <1>4, <3>2 DEF AcquireLock
  <2>2. job' = job /\ job[p] # None
    BY <1>4 DEF AcquireLock, Reached
  <2> QED BY <1>0, <2>1, <2>2 DEF HolderInv
<1>5. CASE ReleaseLock(p)
  <2>1. PICK l : holder' = [holder EXCEPT ![l] = None]
    BY <1>5 DEF ReleaseLock
  <2>2. job' = job
    BY <1>5 DEF ReleaseLock
  <2> QED BY <1>0, <2>1, <2>2 DEF HolderInv
<1>6. (holder' = holder /\ job' = job) \/ Begun(p) \/ Left(p) \/ AcquireLock(p) \/ ReleaseLock(p)
  BY DEF Acts, Begin, Finish, Scan, Open, PutTile, Moved, SyncAll, TripwirePassed, NotRejected
<1> QED BY <1>1, <1>2, <1>3, <1>4, <1>5, <1>6

\* What stands of another process, stands.
LEMMA OthersStand ==
    ASSUME JobInv, NEW p \in Procs, Acts(p), NEW q \in Procs, q # p
    PROVE  Same(q) /\ due'[q] = due[q]
BY ActsTouch DEF Touches

LEMMA LocksExclude ==
    ASSUME LockInv, NEW l \in Locks, NEW p \in Procs, NEW q \in Procs, Holds(p, l), Holds(q, l)
    PROVE  p = q
<1>1. holder[l] = p /\ holder[l] = q
  BY DEF LockInv
<1> QED BY <1>1

LEMMA LockStep ==
    ASSUME JobInv, HolderInv, LockInv, NEW p \in Procs, Acts(p)
    PROVE  LockInv'
<1> SUFFICES ASSUME NEW q \in Procs, NEW l \in Locks, Holds(q, l)'
             PROVE  holder'[l] = q
  BY DEF LockInv
<1>0. q # None /\ holder \in [Locks -> Procs \cup {None}]
  BY TransactionAssumption DEF TransactionAssumption, HolderInv
<1>1. CASE q # p
  <2>1. Holds(q, l)
    BY <1>1, OthersStand, SameStands
  <2>2. holder[l] = q
    BY <2>1 DEF LockInv
  <2>3. CASE holder' = holder
    BY <2>2, <2>3
  <2>4. CASE Left(p)
    <3>1. holder' = [k \in Locks |-> IF holder[k] = p THEN None ELSE holder[k]]
      BY <2>4 DEF Left, Leave, Released
    <3> QED BY <1>1, <2>2, <3>1
  <2>5. CASE AcquireLock(p)
    <3>1. PICK k : holder[k] = None /\ holder' = [holder EXCEPT ![k] = p]
      BY <2>5 DEF AcquireLock
    <3> QED BY <1>0, <2>2, <3>1
  <2>6. CASE ReleaseLock(p)
    <3>1. PICK k : k = <<Instr(p).dir, Instr(p).zoom>>
      OBVIOUS
    <3>2. holder' = [holder EXCEPT ![k] = None] /\ job[p] # None /\ Instr(p).op = "unlock"
      BY <2>6, <3>1 DEF ReleaseLock, Reached
    <3>3. k \in Locks /\ Holds(p, k)
      BY <3>1, <3>2, InstrFits DEF LockFits
    <3>4. holder[k] = p
      BY <3>3 DEF LockInv
    <3> QED BY <1>0, <1>1, <2>2, <3>2, <3>4
  <2>7. holder' = holder \/ Left(p) \/ AcquireLock(p) \/ ReleaseLock(p)
    BY DEF Acts, Begun, Begin, Finish, Scan, Open, PutTile, Moved, SyncAll, TripwirePassed, NotRejected
  <2> QED BY <2>3, <2>4, <2>5, <2>6, <2>7
<1>2. CASE q = p /\ (Begun(p) \/ Left(p))
  <2>1. Afresh(p)
    BY <1>2, BegunTouches, LeftTouches
  <2> QED BY <1>2, <2>1, AfreshStands
<1>3. CASE q = p /\ \E c \in Columns : PutTile(p, c)
  <2>1. Same(p) /\ holder' = holder
    BY <1>3 DEF PutTile, Same
  <2>2. Holds(p, l)
    BY <1>3, <2>1, SameStands
  <2> QED BY <1>3, <2>1, <2>2 DEF LockInv
<1>4. CASE q = p /\ (AcquireLock(p) \/ ReleaseLock(p) \/ Begin(p) \/ Finish(p) \/ Open(p) \/ Moved(p) \/ Scan(p))
  <2>1. Onward(p)
    BY <1>4, GoesOnward
  <2>2. (Holds(p, l) /\ ~Drops(Instr(p), l)) \/ Takes(Instr(p), l)
    BY <1>4, <2>1, OnwardStands
  <2>3. Holds(p, l) => holder[l] = p
    BY DEF LockInv
  <2>4. CASE AcquireLock(p)
    <3>1. Instr(p).op \in {"lock", "lockWithin"} /\ holder' = [holder EXCEPT ![<<Instr(p).dir, Instr(p).zoom>>] = p]
      BY <2>4 DEF AcquireLock, Reached
    <3> QED BY <1>0, <1>4, <2>2, <2>3, <3>1 DEF Takes
  <2>5. CASE ReleaseLock(p)
    <3>1. Instr(p).op = "unlock" /\ holder' = [holder EXCEPT ![<<Instr(p).dir, Instr(p).zoom>>] = None]
      BY <2>5 DEF ReleaseLock, Reached
    <3>2. ~Takes(Instr(p), l)
      BY <3>1 DEF Takes
    <3>3. l # <<Instr(p).dir, Instr(p).zoom>>
      BY <2>2, <3>1, <3>2 DEF Drops
    <3> QED BY <1>0, <1>4, <2>2, <2>3, <3>1, <3>2, <3>3
  <2>6. CASE Begin(p) \/ Finish(p) \/ Open(p) \/ Moved(p) \/ Scan(p)
    <3>1. holder' = holder /\ ~Takes(Instr(p), l)
      BY <2>6 DEF Begin, Finish, Open, Moved, Scan, SyncAll, TripwirePassed, NotRejected, Reached, Takes
    <3> QED BY <1>4, <2>2, <2>3, <3>1
  <2> QED BY <1>4, <2>4, <2>5, <2>6
<1> QED BY <1>1, <1>2, <1>3, <1>4 DEF Acts

\* Of one fence there is one owner.
LEMMA FencesExclude ==
    ASSUME JobInv, LockInv, NEW p \in Procs, NEW q \in Procs, NEW d \in Dirs \cup {Root},
           job[p] # None, Is(Instr(p), "begin", d) \/ Is(Instr(p), "finish", d) \/ InFence(p, d),
           InFence(q, d)
    PROVE  p = q
<1>1. job[q] # None
  BY DEF InFence
<1>2. CASE d \in Dirs
  <2>1. Holds(p, Mutex(d)) /\ Holds(q, Mutex(d))
    BY <1>1, <1>2, InstrFits DEF MutexFits
  <2>2. Mutex(d) \in Locks
    BY <1>2 DEF Locks
  <2> QED BY <2>1, <2>2, LocksExclude
<1>3. CASE d = Root
  <2>1. Holds(p, Master) /\ Holds(q, Master)
    BY <1>1, <1>3, InstrFits DEF UpdateFits
  <2>2. Master \in Locks
    BY DEF Locks
  <2> QED BY <2>1, <2>2, LocksExclude
<1> QED BY <1>2, <1>3

LEMMA FenceStep ==
    ASSUME JobInv, MarkerInv, LockInv, FenceInv, NEW p \in Procs, Acts(p)
    PROVE  FenceInv'
<1> SUFFICES ASSUME NEW q \in Procs, NEW d \in Dirs \cup {Root}, InFence(q, d)'
             PROVE  Owns(q, d)' /\ marker'[d].descriptor = Descriptor(q, d)'
  BY DEF FenceInv
<1>1. CASE InFence(q, d) /\ job'[q] = job[q] /\ marker'[d] = marker[d]
  <2>1. Owns(q, d) /\ marker[d].descriptor = Descriptor(q, d)
    BY <1>1 DEF FenceInv
  <2> QED BY <1>1, <2>1 DEF Owns, Descriptor
<1>2. CASE q # p
  <2>1. InFence(q, d) /\ job'[q] = job[q]
    BY <1>2, OthersStand, SameStands DEF Same
  <2>2. CASE marker' = marker
    BY <1>1, <2>1, <2>2
  <2>3. CASE Begin(p) \/ Finish(p)
    <3>1. PICK e \in Dirs \cup {Root} : /\ Is(Instr(p), "begin", e) \/ Is(Instr(p), "finish", e)
                                        /\ \A k \in (Dirs \cup {Root}) \ {e} : marker'[k] = marker[k]
      BY <2>3, BeginIs, FinishIs
    <3>2. job[p] # None
      BY <2>3 DEF Begin, Finish, Reached
    <3>3. d # e
      BY <1>2, <2>1, <3>1, <3>2, FencesExclude
    <3> QED BY <1>1, <2>1, <3>1, <3>3
  <2>4. marker' = marker \/ Begin(p) \/ Finish(p)
    BY DEF Acts, Begun, Left, Quietly, AcquireLock, ReleaseLock, Scan, Open, PutTile, Moved, SyncAll, TripwirePassed, NotRejected
  <2> QED BY <2>2, <2>3, <2>4
<1>3. CASE q = p /\ (Begun(p) \/ Left(p))
  <2>1. Afresh(p)
    BY <1>3, BegunTouches, LeftTouches
  <2> QED BY <1>3, <2>1, AfreshStands
<1>4. CASE q = p /\ \E c \in Columns : PutTile(p, c)
  <2>1. Same(p) /\ marker' = marker /\ job' = job
    BY <1>4 DEF PutTile, Same
  <2>2. InFence(p, d)
    BY <1>4, <2>1, SameStands
  <2> QED BY <1>1, <1>4, <2>1, <2>2
<1>5. CASE q = p /\ (AcquireLock(p) \/ ReleaseLock(p) \/ Begin(p) \/ Finish(p) \/ Open(p) \/ Moved(p) \/ Scan(p))
  <2>1. Onward(p) /\ job' = job
    BY <1>5, GoesOnward
  <2>2. (InFence(p, d) /\ ~Is(Instr(p), "finish", d)) \/ Is(Instr(p), "begin", d)
    BY <1>5, <2>1, OnwardStands
  <2>3. CASE Begin(p)
    <3>1. PICK e \in Dirs \cup {Root} :
               /\ Is(Instr(p), "begin", e)
               /\ marker'[e] # None /\ marker'[e].descriptor = Descriptor(p, e) /\ marker'[e].token = job[p].run
               /\ \A k \in (Dirs \cup {Root}) \ {e} : marker'[k] = marker[k]
      BY <2>3, BeginIs
    <3>2. CASE d = e
      BY <1>5, <2>1, <3>1, <3>2 DEF Owns, Descriptor
    <3>3. CASE d # e
      <4>1. InFence(p, d)
        BY <2>2, <3>1, <3>3 DEF Is
      <4> QED BY <1>1, <1>5, <2>1, <3>1, <3>3, <4>1
    <3> QED BY <3>2, <3>3
  <2>4. CASE Finish(p)
    <3>1. PICK e \in Dirs \cup {Root} :
               /\ Is(Instr(p), "finish", e)
               /\ \A k \in (Dirs \cup {Root}) \ {e} : marker'[k] = marker[k]
      BY <2>4, FinishIs
    <3>2. InFence(p, d) /\ d # e
      BY <2>2, <3>1 DEF Is
    <3> QED BY <1>1, <1>5, <2>1, <3>1, <3>2
  <2>5. CASE AcquireLock(p) \/ ReleaseLock(p) \/ Open(p) \/ Moved(p) \/ Scan(p)
    <3>1. marker' = marker /\ Instr(p).op # "begin"
      BY <2>5 DEF AcquireLock, ReleaseLock, Open, Moved, SyncAll, TripwirePassed, NotRejected, Scan, Reached
    <3>2. InFence(p, d)
      BY <2>2, <3>1 DEF Is
    <3> QED BY <1>1, <1>5, <2>1, <3>1, <3>2
  <2> QED BY <1>5, <2>3, <2>4, <2>5
<1> QED BY <1>2, <1>3, <1>4, <1>5 DEF Acts
-----------------------------------------------------------------------------
(* The tiles.                                                              *)

OnlyAt(d, z, C) ==
    \A e \in Dirs, y \in Zooms, c \in Columns : ~(e = d /\ y = z /\ c \in C) => store'[e][y][c] = store[e][y][c]

LEMMA StoreAt ==
    ASSUME StoreInv, NEW d \in Dirs, NEW z \in Zooms, NEW row \in [Columns -> Tile],
           store' = [store EXCEPT ![d][z] = row]
    PROVE  /\ store' \in [Dirs -> [Zooms -> [Columns -> Tile]]]
           /\ OnlyAt(d, z, Columns) /\ store'[d][z] = row
<1>1. store \in [Dirs -> [Zooms -> [Columns -> Tile]]]
  BY DEF StoreInv
<1> HIDE DEF Tile, Dirs, Zooms
<1>2. store' \in [Dirs -> [Zooms -> [Columns -> Tile]]]
  BY <1>1
<1>3. store'[d][z] = row
  BY <1>1
<1>4. \A e \in Dirs, y \in Zooms : ~(e = d /\ y = z) => store'[e][y] = store[e][y]
  BY <1>1
<1>5. OnlyAt(d, z, Columns)
  BY <1>4 DEF OnlyAt
<1> QED BY <1>2, <1>3, <1>5

LEMMA StoreCell ==
    ASSUME StoreInv, NEW d \in Dirs, NEW z \in Zooms, NEW c \in Columns, NEW v \in Tile,
           store' = [store EXCEPT ![d][z][c] = v]
    PROVE  /\ store' \in [Dirs -> [Zooms -> [Columns -> Tile]]]
           /\ OnlyAt(d, z, {c}) /\ store'[d][z][c] = v
<1>1. store \in [Dirs -> [Zooms -> [Columns -> Tile]]]
  BY DEF StoreInv
<1> HIDE DEF Tile, Dirs, Zooms
<1>2. PICK row : row = [store[d][z] EXCEPT ![c] = v]
  OBVIOUS
<1>3. store[d][z] \in [Columns -> Tile]
  BY <1>1
<1>4. row \in [Columns -> Tile] /\ row[c] = v /\ \A b \in Columns : b # c => row[b] = store[d][z][b]
  BY <1>2, <1>3
<1>5. store' = [store EXCEPT ![d][z] = row]
  BY <1>1, <1>2
<1>6. /\ store' \in [Dirs -> [Zooms -> [Columns -> Tile]]]
      /\ OnlyAt(d, z, Columns) /\ store'[d][z] = row
  BY ONLY StoreInv, d \in Dirs, z \in Zooms, <1>4, <1>5, StoreAt
<1>7. OnlyAt(d, z, {c})
  BY <1>4, <1>6 DEF OnlyAt
<1> QED BY <1>4, <1>6, <1>7

LEMMA SumIs ==
    ASSUME StoreInv, NEW c \in Columns
    PROVE  Sum(c) \in Tiles(Total)
<1>1. \A l \in Sources : store[l][BaseZoom][c] \in Contents
  <2>1. \A l \in Sources : l \in Dirs /\ l # Total
    BY TransactionAssumption DEF TransactionAssumption, Dirs
  <2> QED BY <2>1, ZoomsAre DEF StoreInv, Tiles
<1>2. [l \in Sources |-> store[l][BaseZoom][c]] \in [Sources -> Contents]
  BY <1>1
<1> QED BY <1>2 DEF Sum, Tiles

LEMMA SumSame ==
    ASSUME NEW c, \A l \in Sources : store'[l][BaseZoom][c] = store[l][BaseZoom][c]
    PROVE  Sum(c)' = Sum(c)
<1>1. [l \in Sources |-> store'[l][BaseZoom][c]] = [l \in Sources |-> store[l][BaseZoom][c]]
  OBVIOUS
<1>2. (\A l \in Sources : store'[l][BaseZoom][c] = None) <=> (\A l \in Sources : store[l][BaseZoom][c] = None)
  OBVIOUS
<1> QED BY <1>1, <1>2 DEF Sum

LEMMA ValueIs ==
    ASSUME StoreInv, JobInv, NEW p \in Procs, job[p] # None, NEW d \in Dirs, NEW z \in Zooms, NEW c \in Columns
    PROVE  Value(p, d, z, c) \in Tiles(d)
<1>1. CASE z < BaseZoom
  <2>1. z + 1 \in Zooms
    BY <1>1, ZoomsAre DEF Zooms
  <2> QED BY <1>1, <2>1 DEF Value, StoreInv
<1>2. CASE ~(z < BaseZoom) /\ d = Total
  BY <1>2, SumIs DEF Value
<1>3. CASE ~(z < BaseZoom) /\ d # Total
  <2>1. job[p].run \in Contents /\ None \in Contents
    <3>1. job[p].run \in 1 .. MaxRuns /\ MaxRuns \in Nat
      BY JobIs, TransactionAssumption DEF TransactionAssumption
    <3> QED BY <3>1 DEF Contents
  <2> QED BY <1>3, <2>1 DEF Value, Tiles
<1> QED BY <1>1, <1>2, <1>3

\* What a process works on.
LEMMA WorkIs ==
    ASSUME JobInv, NEW p \in Procs, job[p] # None, Works(Instr(p))
    PROVE  Instr(p).dir \in Dirs /\ Instr(p).zoom \in Zooms
BY InstrFits DEF LevelFits

Emptying(p) == IF job[p].full THEN Columns ELSE {}

LEMMA OpenIs ==
    ASSUME StoreInv, JobInv, NEW p \in Procs, Open(p)
    PROVE  /\ job[p] # None /\ Instr(p).op = "open" /\ Instr(p).dir \in Dirs /\ Instr(p).zoom \in Zooms
           /\ store' \in [Dirs -> [Zooms -> [Columns -> Tile]]]
           /\ OnlyAt(Instr(p).dir, Instr(p).zoom, Emptying(p))
           /\ \A c \in Emptying(p) : store'[Instr(p).dir][Instr(p).zoom][c] = None
           /\ owed \subseteq owed'
           /\ \A c \in Emptying(p) : Owes(p, Instr(p).dir, Instr(p).zoom, c) \subseteq owed'
           /\ owed' \subseteq owed \cup UNION {Owes(p, Instr(p).dir, Instr(p).zoom, c) : c \in Emptying(p)}
           /\ marker' = marker
<1>1. job[p] # None /\ Instr(p).op = "open" /\ marker' = marker
  BY DEF Open, Reached
<1>2. Instr(p).dir \in Dirs /\ Instr(p).zoom \in Zooms
  BY <1>1, WorkIs DEF Works
<1>3. PICK d \in Dirs, z \in Zooms : d = Instr(p).dir /\ z = Instr(p).zoom
  BY <1>2
<1>4. CASE job[p].full
  <2>1. PICK row : row = [c \in Columns |-> None]
    OBVIOUS
  <2>2. row \in [Columns -> Tile] /\ \A c \in Columns : row[c] = None
    BY <2>1 DEF Tile, Contents
  <2>3. store' = [store EXCEPT ![d][z] = row]
    BY <1>3, <1>4, <2>1 DEF Open
  <2>4. store' \in [Dirs -> [Zooms -> [Columns -> Tile]]] /\ OnlyAt(d, z, Columns) /\ store'[d][z] = row
    BY ONLY StoreInv, d \in Dirs, z \in Zooms, <2>2, <2>3, StoreAt
  <2>5. owed' = owed \cup UNION {Owes(p, d, z, c) : c \in Columns}
    BY <1>3, <1>4 DEF Open
  <2>6. Emptying(p) = Columns
    BY <1>4 DEF Emptying
  <2> QED BY <1>1, <1>3, <2>2, <2>4, <2>5, <2>6
<1>5. CASE ~job[p].full
  <2>1. store' = store /\ owed' = owed
    BY <1>5 DEF Open
  <2>2. Emptying(p) = {}
    BY <1>5 DEF Emptying
  <2> QED BY <1>1, <1>2, <2>1, <2>2 DEF OnlyAt, StoreInv
<1> QED BY <1>4, <1>5

LEMMA PutTileIs ==
    ASSUME StoreInv, JobInv, NEW p \in Procs, NEW c \in Columns, PutTile(p, c)
    PROVE  /\ job[p] # None /\ Instr(p).op = "put" /\ Instr(p).dir \in Dirs /\ Instr(p).zoom \in Zooms
           /\ store' \in [Dirs -> [Zooms -> [Columns -> Tile]]]
           /\ OnlyAt(Instr(p).dir, Instr(p).zoom, {c})
           /\ store'[Instr(p).dir][Instr(p).zoom][c] = Value(p, Instr(p).dir, Instr(p).zoom, c)
           /\ owed' = owed \cup Owes(p, Instr(p).dir, Instr(p).zoom, c)
           /\ marker' = marker /\ job' = job /\ pc' = pc
           /\ c \in due[p] /\ due'[p] = due[p] \ {c} /\ c \in job[p].cols
<1>1. job[p] # None /\ Instr(p).op = "put" /\ marker' = marker /\ job' = job /\ pc' = pc /\ c \in due[p]
  BY DEF PutTile, Reached
<1>2. Instr(p).dir \in Dirs /\ Instr(p).zoom \in Zooms
  BY <1>1, WorkIs DEF Works
<1>3. PICK d \in Dirs, z \in Zooms : d = Instr(p).dir /\ z = Instr(p).zoom
  BY <1>2
<1>4. PICK v : v = Value(p, d, z, c)
  OBVIOUS
<1>5. v \in Tile
  <2>1. v \in Tiles(d)
    BY <1>1, <1>4, ValueIs
  <2> QED BY <2>1 DEF Tiles, Tile, Contents
<1>6. store' = [store EXCEPT ![d][z][c] = v] /\ owed' = owed \cup Owes(p, d, z, c)
  BY <1>3, <1>4 DEF PutTile
<1>7. store' \in [Dirs -> [Zooms -> [Columns -> Tile]]] /\ OnlyAt(d, z, {c}) /\ store'[d][z][c] = v
  BY ONLY StoreInv, d \in Dirs, z \in Zooms, c \in Columns, <1>5, <1>6, StoreCell
<1>8. due'[p] = due[p] \ {c} /\ c \in job[p].cols
  <2>1. due[p] \subseteq job[p].cols
    BY <1>1, JobIs DEF JobFits
  <2>2. due \in [Procs -> SUBSET Columns] /\ due' = [due EXCEPT ![p] = @ \ {c}]
    BY DEF JobInv, PutTile
  <2> QED BY <1>1, <2>1, <2>2
<1> QED BY <1>1, <1>3, <1>4, <1>6, <1>7, <1>8

LEMMA OwesIs ==
    ASSUME NEW p, NEW d \in Dirs, NEW z, NEW c \in Columns
    PROVE  /\ Owes(p, d, z, c) \subseteq Dirs \X Columns
           /\ z = BaseZoom /\ d # Total /\ job[p].kind = "hub" =>
                  <<d, c>> \in Owes(p, d, z, c) /\ <<Total, c>> \in Owes(p, d, z, c)
           /\ z = BaseZoom /\ d # Total /\ job[p].kind = "world" => <<Total, c>> \in Owes(p, d, z, c)
<1>1. Total \in Dirs /\ BaseZoom \in Nat
  BY ZoomsAre DEF Dirs
<1>2. CASE z < BaseZoom \/ d = Total
  BY <1>1, <1>2 DEF Owes
<1>3. CASE ~(z < BaseZoom \/ d = Total) /\ job[p].kind = "hub"
  <2>1. Owes(p, d, z, c) = {<<d, c>>, <<Total, c>>}
    BY <1>3 DEF Owes
  <2> QED BY <1>1, <1>3, <2>1
<1>4. CASE ~(z < BaseZoom \/ d = Total) /\ job[p].kind = "world"
  <2>1. Owes(p, d, z, c) = {<<Total, c>>}
    BY <1>4 DEF Owes
  <2> QED BY <1>1, <1>4, <2>1
<1>5. CASE ~(z < BaseZoom \/ d = Total) /\ job[p].kind # "world" /\ job[p].kind # "hub"
  <2>1. Owes(p, d, z, c) = {}
    BY <1>5 DEF Owes
  <2> QED BY <1>1, <1>5, <2>1
<1> QED BY <1>2, <1>3, <1>4, <1>5

LEMMA StoreStep ==
    ASSUME StoreInv, JobInv, NEW p \in Procs, Acts(p)
    PROVE  StoreInv'
<1>1. CASE store' = store
  BY <1>1 DEF StoreInv
<1>2. CASE Open(p)
  <2>1. PICK d, z, C :
            /\ store' \in [Dirs -> [Zooms -> [Columns -> Tile]]]
            /\ OnlyAt(d, z, C) /\ \A c \in C : store'[d][z][c] = None
    BY <1>2, OpenIs
  <2>2. \A e \in Dirs : None \in Tiles(e)
    BY DEF Tiles, Contents
  <2>3. ASSUME NEW e \in Dirs, NEW y \in Zooms, NEW c \in Columns
        PROVE  store'[e][y][c] \in Tiles(e)
    BY <2>1, <2>2 DEF OnlyAt, StoreInv
  <2> QED BY <2>1, <2>3 DEF StoreInv
<1>3. ASSUME NEW b \in Columns, PutTile(p, b)
      PROVE  StoreInv'
  <2>1. PICK d \in Dirs, z \in Zooms :
            /\ d = Instr(p).dir /\ z = Instr(p).zoom /\ job[p] # None
            /\ store' \in [Dirs -> [Zooms -> [Columns -> Tile]]]
            /\ OnlyAt(d, z, {b}) /\ store'[d][z][b] = Value(p, d, z, b)
    BY <1>3, PutTileIs
  <2>2. Value(p, d, z, b) \in Tiles(d)
    BY <2>1, ValueIs
  <2>3. ASSUME NEW e \in Dirs, NEW y \in Zooms, NEW c \in Columns
        PROVE  store'[e][y][c] \in Tiles(e)
    <3>1. store[e][y][c] \in Tiles(e)
      BY DEF StoreInv
    <3>2. CASE e = d /\ y = z /\ c = b
      BY <2>1, <2>2, <3>2
    <3>3. CASE ~(e = d /\ y = z /\ c = b)
      <4>1. store'[e][y][c] = store[e][y][c]
        BY <2>1, <3>3 DEF OnlyAt
      <4> QED BY <3>1, <4>1
    <3> QED BY <3>2, <3>3
  <2> QED BY <2>1, <2>3 DEF StoreInv
<1>4. store' = store \/ Open(p) \/ \E c \in Columns : PutTile(p, c)
  BY DEF Acts, Begun, Left, Quietly, AcquireLock, ReleaseLock, Begin, Finish, Scan, Moved, SyncAll, TripwirePassed, NotRejected
<1> QED BY <1>1, <1>2, <1>3, <1>4

LEMMA OwedStep ==
    ASSUME StoreInv, JobInv, owed \subseteq Dirs \X Columns, NEW p \in Procs, Acts(p)
    PROVE  owed' \subseteq Dirs \X Columns
<1>1. CASE owed' \subseteq owed
  BY <1>1
<1>2. CASE Open(p)
  <2>1. PICK d, z, C : d \in Dirs /\ C \subseteq Columns /\ owed' \subseteq owed \cup UNION {Owes(p, d, z, c) : c \in C}
    <3>1. Emptying(p) \subseteq Columns
      BY DEF Emptying
    <3>2. PICK d, z, C : d = Instr(p).dir /\ z = Instr(p).zoom /\ C = Emptying(p)
      OBVIOUS
    <3>3. d \in Dirs /\ owed' \subseteq owed \cup UNION {Owes(p, d, z, c) : c \in C}
      BY <1>2, <3>2, OpenIs
    <3> QED BY <3>1, <3>2, <3>3
  <2>2. \A c \in C : Owes(p, d, z, c) \subseteq Dirs \X Columns
    BY <2>1, OwesIs
  <2> QED BY <2>1, <2>2
<1>3. ASSUME NEW c \in Columns, PutTile(p, c)
      PROVE  owed' \subseteq Dirs \X Columns
  <2>1. PICK d, z : d \in Dirs /\ owed' = owed \cup Owes(p, d, z, c)
    BY <1>3, PutTileIs
  <2> QED BY <2>1, OwesIs
<1>4. owed' \subseteq owed \/ Open(p) \/ \E c \in Columns : PutTile(p, c)
  BY DEF Acts, Begun, Left, Quietly, AcquireLock, ReleaseLock, Begin, Finish, Scan, Moved, SyncAll, TripwirePassed, NotRejected
<1> QED BY <1>1, <1>2, <1>3, <1>4

-----------------------------------------------------------------------------
(* What the root's marker stands for, and what is excused by it.           *)

RootStays ==
    /\ marker'[Root] = marker[Root]
    /\ \A q \in Procs : InFence(q, Root)' => InFence(q, Root) /\ \A d \in Dirs : HasFinished(q, d)' => HasFinished(q, d)

LEMMA RootKeeps ==
    ASSUME RootStays, NEW d \in Dirs, NEW c, RootCovers(d, c)
    PROVE  RootCovers(d, c)'
<1>1. \A q \in Procs : InFence(q, Root) => ~HasFinished(q, d)
  BY DEF RootCovers
<1>2. \A q \in Procs : InFence(q, Root)' => ~HasFinished(q, d)'
  BY <1>1 DEF RootStays
<1> QED BY <1>2 DEF RootCovers, RootStays

\* Whatever but a fence's begin or finish leaves it where it was.
LEMMA RootIsLeft ==
    ASSUME JobInv, NEW p \in Procs, Acts(p), ~Begin(p), ~Finish(p)
    PROVE  RootStays /\ marker' = marker
<1>1. marker' = marker
  BY DEF Acts, Begun, Left, Quietly, AcquireLock, ReleaseLock, Scan, Open, PutTile, Moved, SyncAll, TripwirePassed, NotRejected
<1>2. \A q \in Procs \ {p} : (InFence(q, Root)' <=> InFence(q, Root)) /\ \A d : HasFinished(q, d)' <=> HasFinished(q, d)
  BY OthersStand, SameStands
<1>3. InFence(p, Root)' => InFence(p, Root) /\ \A d \in Dirs : HasFinished(p, d)' => HasFinished(p, d)
  <2>1. CASE Begun(p) \/ Left(p)
    BY <2>1, BegunTouches, LeftTouches, AfreshStands
  <2>2. CASE \E c \in Columns : PutTile(p, c)
    <3>1. Same(p)
      BY <2>2 DEF PutTile, Same
    <3> QED BY <3>1, SameStands
  <2>3. CASE AcquireLock(p) \/ ReleaseLock(p) \/ Open(p) \/ Moved(p) \/ Scan(p)
    <3>1. Onward(p)
      BY <2>3, GoesOnward
    <3>2. Instr(p).op \notin {"begin", "finish"}
      BY <2>3 DEF AcquireLock, ReleaseLock, Open, Moved, SyncAll, TripwirePassed, NotRejected, Scan, Reached
    <3>3. \A d : ~Is(Instr(p), "begin", d) /\ ~Is(Instr(p), "finish", d)
      BY <3>2 DEF Is
    <3> QED BY <3>1, <3>3, OnwardStands
  <2> QED BY <2>1, <2>2, <2>3 DEF Acts
<1> QED BY <1>1, <1>2, <1>3 DEF RootStays

LEMMA ExcuseKeeps ==
    ASSUME NEW q, NEW d, NEW c, Excused(q, d, c), job'[q] = job[q],
           <<d, c>> \in owed => <<d, c>> \in owed', RootCovers(d, c) => RootCovers(d, c)'
    PROVE  Excused(q, d, c)'
BY DEF Excused

\* A process in the root's fence is the only one there.
LEMMA RootOwner ==
    ASSUME JobInv, LockInv, FenceInv, NEW p \in Procs, InFence(p, Root)
    PROVE  /\ marker[Root] # None
           /\ marker[Root].descriptor.cols = job[p].cols
           /\ marker[Root].descriptor.layers = Members(job[p].layers)
           /\ job[p].kind = "scoped" /\ Holds(p, Master)
           /\ \A q \in Procs : InFence(q, Root) => q = p
<1>1. job[p] # None
  BY DEF InFence
<1>2. Owns(p, Root) /\ marker[Root].descriptor = Descriptor(p, Root)
  BY DEF FenceInv
<1>3. job[p].kind = "scoped" /\ Holds(p, Master)
  BY <1>1, InstrFits DEF UpdateFits
<1>4. \A q \in Procs : InFence(q, Root) => q = p
  BY <1>1, FencesExclude
<1>5. Descriptor(p, Root).cols = job[p].cols /\ Descriptor(p, Root).layers = Members(job[p].layers)
  BY <1>1, DescriptorIs
<1> QED BY <1>2, <1>3, <1>4, <1>5 DEF Owns
-----------------------------------------------------------------------------
(* What a write disturbs, and of whom.                                     *)

\* p has written columns C of the level that it stands at.
Wrote(p, C) ==
    /\ job[p] # None /\ Instr(p).op \in {"open", "put"} /\ Instr(p).dir \in Dirs /\ Instr(p).zoom \in Zooms
    /\ C \subseteq job[p].cols
    /\ OnlyAt(Instr(p).dir, Instr(p).zoom, C)
    /\ owed \subseteq owed' /\ \A c \in C : Owes(p, Instr(p).dir, Instr(p).zoom, c) \subseteq owed'
    /\ marker' = marker /\ job' = job /\ RootStays

LEMMA OpenWrites ==
    ASSUME StoreInv, JobInv, NEW p \in Procs, Open(p)
    PROVE  Wrote(p, Emptying(p))
<1>1. Acts(p) /\ ~Begin(p) /\ ~Finish(p)
  BY DEF Acts, Open, Begin, Finish, Reached
<1>2. RootStays
  BY <1>1, RootIsLeft
<1>3. job' = job
  BY DEF Open
<1>4. job[p] # None
  BY OpenIs
<1>5. Emptying(p) \subseteq job[p].cols
  BY <1>4, JobIs DEF Emptying, JobFits
<1> QED BY <1>2, <1>3, <1>5, OpenIs DEF Wrote

LEMMA PutTileWrites ==
    ASSUME StoreInv, JobInv, NEW p \in Procs, NEW c \in Columns, PutTile(p, c)
    PROVE  Wrote(p, {c})
<1>1. Acts(p) /\ ~Begin(p) /\ ~Finish(p)
  BY DEF Acts, PutTile, Begin, Finish, Reached
<1>2. RootStays
  BY <1>1, RootIsLeft
<1>3. PICK d, z : d = Instr(p).dir /\ z = Instr(p).zoom
  OBVIOUS
<1>4. /\ job[p] # None /\ Instr(p).op \in {"open", "put"} /\ d \in Dirs /\ z \in Zooms
      /\ {c} \subseteq job[p].cols /\ OnlyAt(d, z, {c})
      /\ owed' = owed \cup Owes(p, d, z, c) /\ marker' = marker /\ job' = job
  BY <1>3, PutTileIs
<1>5. owed \subseteq owed' /\ \A b \in {c} : Owes(p, d, z, b) \subseteq owed'
  BY <1>4
<1> QED BY <1>2, <1>3, <1>4, <1>5 DEF Wrote

LEMMA PoolsStay ==
    ASSUME NEW d0, NEW z0, NEW C, OnlyAt(d0, z0, C), NEW d \in Dirs, NEW z \in MinZoom .. (BaseZoom - 1), NEW c \in Columns,
           ~(d = d0 /\ c \in C /\ (z0 = z \/ z0 = z + 1))
    PROVE  Pools(d, z, c)' <=> Pools(d, z, c)
<1>1. z \in Zooms /\ z + 1 \in Zooms
  BY ZoomsAre DEF Zooms
<1> QED BY <1>1 DEF Pools, OnlyAt

LEMMA SummedStays ==
    ASSUME NEW d0, NEW z0, NEW C, OnlyAt(d0, z0, C), NEW c \in Columns, ~(z0 = BaseZoom /\ c \in C)
    PROVE  Summed(c)' <=> Summed(c)
<1>1. BaseZoom \in Zooms /\ Total \in Dirs /\ Sources \subseteq Dirs
  BY ZoomsAre DEF Dirs
<1>2. \A d \in Dirs : store'[d][BaseZoom][c] = store[d][BaseZoom][c]
  BY <1>1 DEF OnlyAt
<1>3. Sum(c)' = Sum(c)
  BY <1>1, <1>2, SumSame
<1> QED BY <1>1, <1>2, <1>3 DEF Summed

\* The base of a source is written in its fence, under the root's marker, or
\* owed; and Total's sum likewise.
LEMMA SourceWritten ==
    ASSUME JobInv, LockInv, FenceInv, NEW p \in Procs, NEW C, Wrote(p, C), NEW c \in C,
           NEW d \in Dirs, Instr(p).dir = d, Instr(p).zoom = BaseZoom, d # Total
    PROVE  /\ <<Total, c>> \in owed' \/ (job[p].kind = "scoped" /\ RootCovers(Total, c)')
           /\ \/ InFence(p, d) \/ <<d, c>> \in owed'
              \/ job[p].kind = "scoped" /\ RootCovers(d, c)'
<1>0. /\ job[p] # None /\ Instr(p).dir \in Dirs /\ Works(Instr(p)) /\ c \in job[p].cols
      /\ Owes(p, d, BaseZoom, c) \subseteq owed' /\ Total \in Dirs /\ c \in Columns
  <2>1. job[p].cols \subseteq Columns
    BY JobIs DEF Wrote
  <2> QED BY <2>1 DEF Wrote, Works, Dirs
<1>1. /\ job[p].kind \in {"scoped", "world", "hub"}
      /\ job[p].kind = "world" => InFence(p, d)
      /\ job[p].kind = "scoped" => d \in Members(job[p].layers)
  BY <1>0, InstrFits DEF BaseFits
<1>2. CASE job[p].kind = "hub"
  BY <1>0, <1>2, OwesIs
<1>3. CASE job[p].kind = "world"
  BY <1>0, <1>1, <1>3, OwesIs
<1>4. CASE job[p].kind = "scoped"
  <2>1. InFence(p, Root) /\ \A e \in Dirs : ~HasFinished(p, e)
    BY <1>0, <1>4, InstrFits DEF UpdateFits
  <2>2. /\ marker[Root] # None
        /\ marker[Root].descriptor.cols = job[p].cols
        /\ marker[Root].descriptor.layers = Members(job[p].layers)
        /\ \A q \in Procs : InFence(q, Root) => q = p
    BY <2>1, RootOwner
  <2>3. RootCovers(Total, c) /\ RootCovers(d, c)
    BY <1>0, <1>1, <1>4, <2>1, <2>2 DEF RootCovers
  <2>4. RootStays
    BY DEF Wrote
  <2> QED BY <1>0, <1>4, <2>3, <2>4, RootKeeps
<1> QED BY <1>1, <1>2, <1>3, <1>4

LEMMA FencedWork ==
    ASSUME JobInv, NEW p \in Procs, NEW C, Wrote(p, C), ~InFence(p, Instr(p).dir)
    PROVE  Instr(p).zoom = BaseZoom /\ Instr(p).dir # Total
<1>1. job[p] # None /\ Works(Instr(p)) /\ Instr(p).zoom \in Zooms
  BY DEF Wrote, Works
<1>2. ~(Instr(p).zoom < BaseZoom \/ Instr(p).dir = Total)
  BY <1>1, InstrFits DEF LevelFits
<1> QED BY <1>1, <1>2, ZoomsAre DEF Zooms

LEMMA FenceMarks ==
    ASSUME JobInv, FenceInv, NEW p \in Procs, NEW d \in Dirs, InFence(p, d), NEW c \in job[p].cols
    PROVE  /\ Marked(d, c)
           /\ d = Total /\ job[p].kind \in {"scoped", "world", "combine"} => marker[d].descriptor.operation = "combine-total"
<1>1. job[p] # None
  BY DEF InFence
<1>2. Owns(p, d) /\ marker[d].descriptor = Descriptor(p, d)
  BY DEF FenceInv
<1>3. Descriptor(p, d).cols = job[p].cols
  BY <1>1, DescriptorIs
<1>4. d = Total /\ job[p].kind \in {"scoped", "world", "combine"} => Descriptor(p, d).operation = "combine-total"
  BY <1>1, DescriptorIs
<1> QED BY <1>2, <1>3, <1>4 DEF Marked, Owns

LEMMA DamageWritten ==
    ASSUME StoreInv, JobInv, LockInv, FenceInv, DamageInv, NEW p \in Procs, NEW C, Wrote(p, C)
    PROVE  DamageInv'
<1>0. /\ OnlyAt(Instr(p).dir, Instr(p).zoom, C) /\ owed \subseteq owed' /\ marker' = marker /\ RootStays
      /\ C \subseteq job[p].cols /\ Instr(p).dir \in Dirs /\ Total \in Dirs /\ job[p] # None
  BY DEF Wrote, Dirs
<1>1. ASSUME NEW d \in Dirs, NEW c \in Columns
      PROVE  PoolFenced(d, c)'
  <2>1. CASE ~(d = Instr(p).dir /\ c \in C)
    <3>1. Pooled(d, c) => Pooled(d, c)'
      BY <1>0, <2>1, PoolsStay DEF Pooled
    <3>2. PoolFenced(d, c)
      BY DEF DamageInv
    <3> QED BY <1>0, <3>1, <3>2, RootKeeps DEF PoolFenced, Marked
  <2>2. CASE d = Instr(p).dir /\ c \in C /\ InFence(p, d)
    <3>1. Marked(d, c)
      BY <1>0, <2>2, FenceMarks
    <3> QED BY <1>0, <3>1 DEF PoolFenced, Marked
  <2>3. CASE d = Instr(p).dir /\ c \in C /\ ~InFence(p, d)
    <3>1. Instr(p).zoom = BaseZoom /\ Instr(p).dir = d /\ d # Total
      BY <2>3, FencedWork
    <3>2. <<d, c>> \in owed' \/ RootCovers(d, c)'
      BY <2>3, <3>1, SourceWritten
    <3> QED BY <3>2 DEF PoolFenced
  <2> QED BY <2>1, <2>2, <2>3
<1>2. ASSUME NEW c \in Columns
      PROVE  SumFenced(c)'
  <2>1. CASE ~(Instr(p).zoom = BaseZoom /\ c \in C)
    <3>1. Summed(c)' <=> Summed(c)
      BY <1>0, <2>1, SummedStays
    <3>2. SumFenced(c)
      BY DEF DamageInv
    <3> QED BY <1>0, <3>1, <3>2, RootKeeps DEF SumFenced, Marked
  <2>2. CASE Instr(p).zoom = BaseZoom /\ c \in C /\ Instr(p).dir = Total
    <3>1. InFence(p, Total) /\ job[p].kind \in {"scoped", "world", "combine"}
      <4>1. Works(Instr(p))
        BY DEF Wrote, Works
      <4> QED BY <1>0, <2>2, <4>1, InstrFits DEF LevelFits, BaseFits
    <3>2. Marked(Total, c) /\ marker[Total].descriptor.operation = "combine-total"
      BY <1>0, <2>2, <3>1, FenceMarks
    <3> QED BY <1>0, <3>2 DEF SumFenced, Marked
  <2>3. CASE Instr(p).zoom = BaseZoom /\ c \in C /\ Instr(p).dir # Total
    <3>1. PICK d \in Dirs : Instr(p).dir = d
      BY <1>0
    <3>2. <<Total, c>> \in owed' \/ RootCovers(Total, c)'
      BY <2>3, <3>1, SourceWritten
    <3> QED BY <3>2 DEF SumFenced
  <2> QED BY <2>1, <2>2, <2>3
<1> QED BY <1>1, <1>2 DEF DamageInv

\* A write disturbs nothing that another has derived in a fence it stands in,
\* but for what it excuses.
LEMMA OthersKeep ==
    ASSUME JobInv, LockInv, FenceInv, NEW p \in Procs, NEW C, Wrote(p, C),
           NEW q \in Procs, q # p, NEW d \in Dirs, InFence(q, d), NEW z \in Zooms, NEW c \in Columns, Derived(q, d, z, c)
    PROVE  Derived(q, d, z, c)'
<1>0. /\ OnlyAt(Instr(p).dir, Instr(p).zoom, C) /\ owed \subseteq owed' /\ RootStays /\ job' = job /\ job[p] # None
      /\ Total \in Dirs /\ Works(Instr(p)) /\ job[q] # None
  BY DEF Wrote, Dirs, Works, InFence
<1>1. Excused(q, d, c) => Excused(q, d, c)'
  BY <1>0, RootKeeps, ExcuseKeeps
<1>2. ~(Instr(p).dir = d /\ InFence(p, d))
  BY <1>0, FencesExclude
<1>3. ASSUME Instr(p).zoom = BaseZoom, Holds(p, Master)
      PROVE  job[q].kind # "scoped"
  <2>1. job[q].kind = "scoped" => Holds(q, Master)
    BY <1>0, InstrFits DEF BaseFits
  <2>2. Master \in Locks
    BY DEF Locks
  <2> QED BY <1>3, <2>1, <2>2, LocksExclude
<1>4. ASSUME NEW e \in Dirs, <<e, c>> \in owed' \/ (job[p].kind = "scoped" /\ RootCovers(e, c)'), Instr(p).zoom = BaseZoom, e = d
      PROVE  Excused(q, d, c)'
  <2>1. CASE <<e, c>> \in owed'
    BY <1>4, <2>1 DEF Excused
  <2>2. CASE job[p].kind = "scoped" /\ RootCovers(e, c)'
    <3>1. Holds(p, Master)
      BY <1>0, <1>4, <2>2, InstrFits DEF BaseFits
    <3>2. job'[q].kind # "scoped"
      BY <1>0, <1>3, <1>4, <3>1
    <3> QED BY <1>4, <2>2, <3>2 DEF Excused
  <2> QED BY <1>4, <2>1, <2>2
<1>5. CASE z < BaseZoom
  <2>0. z \in MinZoom .. (BaseZoom - 1)
    BY <1>5, ZoomsAre DEF Zooms
  <2>1. Pools(d, z, c) \/ (z = BaseZoom - 1 /\ Excused(q, d, c))
    BY <1>5 DEF Derived
  <2>2. CASE ~(d = Instr(p).dir /\ c \in C /\ (Instr(p).zoom = z \/ Instr(p).zoom = z + 1))
    <3>1. Pools(d, z, c)' <=> Pools(d, z, c)
      BY <1>0, <2>0, <2>2, PoolsStay
    <3> QED BY <1>1, <1>5, <2>1, <3>1 DEF Derived
  <2>3. CASE d = Instr(p).dir /\ c \in C /\ (Instr(p).zoom = z \/ Instr(p).zoom = z + 1)
    <3>1. ~InFence(p, d)
      BY <1>2, <2>3
    <3>2. Instr(p).zoom = BaseZoom /\ d # Total
      BY <2>3, <3>1, FencedWork
    <3>3. z = BaseZoom - 1
      BY <1>5, <2>0, <2>3, <3>2, ZoomsAre
    <3>4. <<d, c>> \in owed' \/ (job[p].kind = "scoped" /\ RootCovers(d, c)')
      BY <2>3, <3>1, <3>2, SourceWritten
    <3>5. Excused(q, d, c)'
      BY <1>4, <3>2, <3>4
    <3> QED BY <1>5, <3>3, <3>5 DEF Derived
  <2> QED BY <2>2, <2>3
<1>6. CASE ~(z < BaseZoom) /\ d = Total
  <2>1. Summed(c) \/ Excused(q, d, c)
    BY <1>6 DEF Derived
  <2>2. CASE ~(Instr(p).zoom = BaseZoom /\ c \in C)
    <3>1. Summed(c)' <=> Summed(c)
      BY <1>0, <2>2, SummedStays
    <3> QED BY <1>1, <1>6, <2>1, <3>1 DEF Derived
  <2>3. CASE Instr(p).zoom = BaseZoom /\ c \in C
    <3>1. PICK e \in Dirs : Instr(p).dir = e
      BY DEF Wrote
    <3>2. e # Total
      <4>1. Instr(p).dir = Total => InFence(p, Total)
        BY <1>0, InstrFits DEF LevelFits
      <4> QED BY <1>2, <1>6, <3>1, <4>1
    <3>3. <<Total, c>> \in owed' \/ (job[p].kind = "scoped" /\ RootCovers(Total, c)')
      BY <2>3, <3>1, <3>2, SourceWritten
    <3>4. Excused(q, d, c)'
      BY <1>0, <1>4, <1>6, <2>3, <3>3
    <3> QED BY <1>6, <3>4 DEF Derived
  <2> QED BY <2>2, <2>3
<1>7. CASE ~(z < BaseZoom) /\ d # Total
  BY <1>7 DEF Derived
<1> QED BY <1>5, <1>6, <1>7

\* Nor what the process itself has passed.
LEMMA OwnKeeps ==
    ASSUME JobInv, LockInv, FenceInv, NEW p \in Procs, NEW C, Wrote(p, C),
           NEW d \in Dirs, NEW z \in Zooms, HasPassed(p, d, z), NEW c \in Columns, Derived(p, d, z, c)
    PROVE  Derived(p, d, z, c)'
<1>0. /\ OnlyAt(Instr(p).dir, Instr(p).zoom, C) /\ owed \subseteq owed' /\ RootStays /\ job' = job /\ job[p] # None
      /\ Total \in Dirs /\ Works(Instr(p)) /\ Instr(p).zoom \in Zooms /\ InFence(p, d)
  BY PassedFences DEF Wrote, Dirs, Works, HasPassed, InFence
<1>1. Excused(p, d, c) => Excused(p, d, c)'
  BY <1>0, RootKeeps, ExcuseKeeps
<1>2. ~(d = Instr(p).dir /\ z <= Instr(p).zoom)
  BY <1>0, InstrFits DEF LevelFits
<1>3. z \in Nat /\ Instr(p).zoom \in Nat /\ z <= BaseZoom /\ BaseZoom \in Nat /\ Instr(p).zoom <= BaseZoom
  BY <1>0, ZoomsAre DEF Zooms
<1>5. CASE z < BaseZoom
  <2>0. z \in MinZoom .. (BaseZoom - 1)
    BY <1>5, ZoomsAre DEF Zooms
  <2>1. Pools(d, z, c) \/ (z = BaseZoom - 1 /\ Excused(p, d, c))
    BY <1>5 DEF Derived
  <2>2. ~(d = Instr(p).dir /\ c \in C /\ (Instr(p).zoom = z \/ Instr(p).zoom = z + 1))
    BY <1>2, <1>3
  <2>3. Pools(d, z, c)' <=> Pools(d, z, c)
    BY <1>0, <2>0, <2>2, PoolsStay
  <2> QED BY <1>1, <1>5, <2>1, <2>3 DEF Derived
<1>6. CASE ~(z < BaseZoom) /\ d = Total
  <2>1. Summed(c) \/ Excused(p, d, c)
    BY <1>6 DEF Derived
  <2>2. CASE ~(Instr(p).zoom = BaseZoom /\ c \in C)
    <3>1. Summed(c)' <=> Summed(c)
      BY <1>0, <2>2, SummedStays
    <3> QED BY <1>1, <1>6, <2>1, <3>1 DEF Derived
  <2>3. CASE Instr(p).zoom = BaseZoom /\ c \in C
    <3>1. PICK e \in Dirs : Instr(p).dir = e
      BY DEF Wrote
    <3>2. e # Total
      BY <1>2, <1>3, <1>6, <2>3, <3>1
    <3>3. <<Total, c>> \in owed' \/ (job[p].kind = "scoped" /\ RootCovers(Total, c)')
      BY <2>3, <3>1, <3>2, SourceWritten
    <3>4. job[p].kind # "scoped"
      BY <1>0, <2>3, <3>1, <3>2, InstrFits DEF UpdateFits
    <3>5. Excused(p, d, c)'
      BY <1>6, <3>3, <3>4 DEF Excused
    <3> QED BY <1>6, <3>5 DEF Derived
  <2> QED BY <2>2, <2>3
<1>7. CASE ~(z < BaseZoom) /\ d # Total
  BY <1>7 DEF Derived
<1> QED BY <1>5, <1>6, <1>7
-----------------------------------------------------------------------------
(* The other steps leave the tiles, and what is excused, as they are, but  *)
(* for the fence that finishes.                                            *)

LEMMA CoherentIs ==
    ASSUME NEW d, NEW c
    PROVE  Coherent(d, c) <=> Pooled(d, c) /\ (d = Total => Summed(c))
BY DEF Coherent, Pooled, Pools, Summed

LEMMA TilesStay ==
    ASSUME store' = store
    PROVE  /\ \A d : \A z : \A c : Pools(d, z, c)' <=> Pools(d, z, c)
           /\ \A d : \A c : Pooled(d, c)' <=> Pooled(d, c)
           /\ \A c : Summed(c)' <=> Summed(c)
           /\ \A d : \A c : Coherent(d, c)' <=> Coherent(d, c)
<1>1. \A c : Sum(c)' = Sum(c)
  BY DEF Sum
<1>2. \A c : Summed(c)' <=> Summed(c)
  BY <1>1 DEF Summed
<1>3. \A d : \A z : \A c : Pools(d, z, c)' <=> Pools(d, z, c)
  BY DEF Pools
<1>4. \A d : \A c : Pooled(d, c)' <=> Pooled(d, c)
  BY <1>3 DEF Pooled
<1>5. \A d : \A c : Coherent(d, c)' <=> Coherent(d, c)
  BY <1>1 DEF Coherent
<1> QED BY <1>2, <1>3, <1>4, <1>5

LEMMA UnwrittenKeeps ==
    ASSUME NEW q, NEW d, NEW z \in Zooms, NEW c, store' = store, job'[q] = job[q], Derived(q, d, z, c),
           <<d, c>> \in owed => <<d, c>> \in owed' \/ Coherent(d, c),
           RootCovers(d, c) => RootCovers(d, c)'
    PROVE  Derived(q, d, z, c)'
<1>1. /\ Pools(d, z, c)' <=> Pools(d, z, c)
      /\ Summed(c)' <=> Summed(c)
  BY TilesStay
<1>2. Excused(q, d, c) => Excused(q, d, c)' \/ Coherent(d, c)
  BY DEF Excused
<1>3. CASE z < BaseZoom
  <2>1. Pools(d, z, c) \/ (z = BaseZoom - 1 /\ Excused(q, d, c))
    BY <1>3 DEF Derived
  <2>2. z \in MinZoom .. (BaseZoom - 1)
    BY <1>3, ZoomsAre DEF Zooms
  <2>3. Coherent(d, c) => Pools(d, z, c)
    BY <2>2, CoherentIs DEF Pooled
  <2> QED BY <1>1, <1>2, <1>3, <2>1, <2>3 DEF Derived
<1>4. CASE ~(z < BaseZoom)
  <2>1. d = Total => Summed(c) \/ Excused(q, d, c)
    BY <1>4 DEF Derived
  <2>2. d = Total /\ Coherent(d, c) => Summed(c)
    BY CoherentIs
  <2>3. d = Total => Summed(c)' \/ Excused(q, d, c)'
    BY <1>1, <1>2, <2>1, <2>2
  <2> QED BY <1>4, <2>3 DEF Derived
<1> QED BY <1>3, <1>4

LEMMA BeginRoots ==
    ASSUME JobInv, MarkerInv, NEW p \in Procs, Begin(p), NEW d \in Dirs, NEW c, RootCovers(d, c)
    PROVE  RootCovers(d, c)'
<1>0. Acts(p) /\ Onward(p) /\ job[p] # None
  BY GoesOnward DEF Acts, Begin, Reached
<1>1. PICK e \in Dirs \cup {Root} :
               /\ Is(Instr(p), "begin", e)
               /\ marker[e] # None => marker[e].descriptor = Descriptor(p, e)
               /\ marker'[e] # None /\ marker'[e].descriptor = Descriptor(p, e)
               /\ \A k \in (Dirs \cup {Root}) \ {e} : marker'[k] = marker[k]
  BY BeginIs
<1>2. marker'[Root] # None /\ marker'[Root].descriptor = marker[Root].descriptor
  BY <1>1 DEF RootCovers
<1>3. ASSUME NEW q \in Procs, InFence(q, Root)'
      PROVE  ~HasFinished(q, d)'
  <2>1. CASE q # p
    BY <1>0, <1>3, <2>1, OthersStand, SameStands DEF RootCovers
  <2>2. CASE q = p
    <3>1. ~Is(Instr(p), "finish", d)
      BY <1>1 DEF Is
    <3>2. HasFinished(p, d)' => HasFinished(p, d)
      BY <1>0, <3>1, OnwardStands
    <3>3. CASE InFence(p, Root)
      BY <2>2, <3>2, <3>3 DEF RootCovers
    <3>4. CASE Is(Instr(p), "begin", Root)
      BY <1>0, <2>2, <3>2, <3>4, InstrFits DEF UpdateFits
    <3>5. InFence(p, Root) \/ Is(Instr(p), "begin", Root)
      BY <1>0, <1>3, <2>2, OnwardStands
    <3> QED BY <3>3, <3>4, <3>5
  <2> QED BY <2>1, <2>2
<1> QED BY <1>2, <1>3 DEF RootCovers

LEMMA FinishRoots ==
    ASSUME JobInv, MarkerInv, LockInv, FenceInv, NEW p \in Procs, Finish(p), NEW d \in Dirs, NEW c, RootCovers(d, c),
           ~Is(Instr(p), "finish", d) \/ ~InFence(p, Root)
    PROVE  RootCovers(d, c)'
<1>0. Acts(p) /\ Onward(p) /\ job[p] # None
  BY GoesOnward DEF Acts, Finish, Reached
<1>1. PICK e \in Dirs \cup {Root} :
               /\ Is(Instr(p), "finish", e)
               /\ \A k \in (Dirs \cup {Root}) \ {e} : marker'[k] = marker[k]
  BY FinishIs
<1>2. e # Root
  <2>1. SUFFICES ASSUME e = Root PROVE FALSE
    OBVIOUS
  <2>2. InFence(p, Root) /\ \A k \in Members(job[p].layers) \cup {Total} : HasFinished(p, k)
    BY <1>0, <1>1, <2>1, InstrFits DEF UpdateFits
  <2>3. marker[Root].descriptor.layers = Members(job[p].layers)
    BY <2>2, RootOwner
  <2> QED BY <2>2, <2>3 DEF RootCovers
<1>3. marker'[Root] = marker[Root]
  BY <1>1, <1>2
<1>4. ASSUME NEW q \in Procs, InFence(q, Root)'
      PROVE  ~HasFinished(q, d)'
  <2>1. CASE q # p
    BY <1>0, <1>4, <2>1, OthersStand, SameStands DEF RootCovers
  <2>2. CASE q = p
    <3>1. InFence(p, Root)
      <4>1. ~Is(Instr(p), "begin", Root)
        BY <1>1 DEF Is
      <4> QED BY <1>0, <1>4, <2>2, <4>1, OnwardStands
    <3>2. HasFinished(p, d)' => HasFinished(p, d)
      BY <1>0, <3>1, OnwardStands
    <3> QED BY <2>2, <3>1, <3>2 DEF RootCovers
  <2> QED BY <2>1, <2>2
<1> QED BY <1>3, <1>4 DEF RootCovers

LEMMA FinishOwes ==
    ASSUME NEW p, Finish(p), NEW d, NEW c, <<d, c>> \in owed
    PROVE  /\ <<d, c>> \in owed' \/ Coherent(d, c)
           /\ Instr(p).dir # d => <<d, c>> \in owed'
<1>1. owed' = {dc \in owed : dc[1] = Instr(p).dir => ~Coherent(dc[1], dc[2])}
  BY DEF Finish
<1>2. <<d, c>>[1] = d /\ <<d, c>>[2] = c
  OBVIOUS
<1> QED BY <1>1, <1>2

\* What a fence over d leaves when it finishes.
LEMMA FinishLeaves ==
    ASSUME JobInv, LockInv, FenceInv, DamageInv, WorkInv, NEW p \in Procs, Finish(p),
           NEW d \in Dirs, Is(Instr(p), "finish", d), NEW c \in Columns
    PROVE  /\ Pooled(d, c) \/ <<d, c>> \in owed \/ (RootCovers(d, c) /\ ~InFence(p, Root))
           /\ d = Total => Summed(c) \/ <<d, c>> \in owed \/ (RootCovers(d, c) /\ ~InFence(p, Root))
<1>0. /\ job[p] # None /\ InFence(p, d) /\ job[p].kind \in KindNames
      /\ \A z \in MinZoom .. (BaseZoom - 1) : HasPassed(p, d, z)
      /\ d = Total /\ job[p].kind # "pyramid" => HasPassed(p, Total, BaseZoom)
      /\ job[p].kind = "scoped" <=> InFence(p, Root)
  <2>1. job[p] # None
    BY DEF Finish, Reached
  <2>2. job[p].kind \in KindNames
    BY <2>1, JobIs
  <2> QED BY <2>1, <2>2, InstrFits DEF MutexFits, BaseFits, UpdateFits
<1>1. CASE c \in job[p].cols
  <2>1. ASSUME NEW z \in MinZoom .. (BaseZoom - 1)
        PROVE  Pools(d, z, c) \/ <<d, c>> \in owed \/ (RootCovers(d, c) /\ ~InFence(p, Root))
    <3>1. z \in Zooms /\ z < BaseZoom
      BY ZoomsAre DEF Zooms
    <3>2. Derived(p, d, z, c)
      BY <1>0, <1>1, <3>1 DEF WorkInv
    <3> QED BY <1>0, <3>1, <3>2 DEF Derived, Excused
  <2>2. ASSUME d = Total
        PROVE  Summed(c) \/ <<d, c>> \in owed \/ (RootCovers(d, c) /\ ~InFence(p, Root))
    <3>1. CASE job[p].kind # "pyramid"
      <4>1. BaseZoom \in Zooms /\ ~(BaseZoom < BaseZoom)
        BY ZoomsAre
      <4>2. Derived(p, d, BaseZoom, c)
        BY <1>0, <1>1, <2>2, <3>1, <4>1 DEF WorkInv
      <4> QED BY <1>0, <2>2, <4>1, <4>2 DEF Derived, Excused
    <3>2. CASE job[p].kind = "pyramid"
      <4>1. marker[d].descriptor = Descriptor(p, d)
        BY <1>0 DEF FenceInv
      <4>2. marker[Total].descriptor.operation # "combine-total"
        BY <1>0, <2>2, <3>2, <4>1, DescriptorIs
      <4>3. SumFenced(c)
        BY DEF DamageInv
      <4> QED BY <1>0, <2>2, <3>2, <4>2, <4>3 DEF SumFenced
    <3> QED BY <3>1, <3>2
  <2> QED BY <2>1, <2>2 DEF Pooled
<1>2. CASE c \notin job[p].cols
  <2>1. ~Marked(d, c)
    <3>1. marker[d].descriptor = Descriptor(p, d)
      BY <1>0 DEF FenceInv
    <3>2. Descriptor(p, d).cols = job[p].cols
      BY <1>0, DescriptorIs
    <3> QED BY <1>2, <3>1, <3>2 DEF Marked
  <2>2. RootCovers(d, c) => ~InFence(p, Root)
    BY <1>2, RootOwner DEF RootCovers
  <2>3. PoolFenced(d, c) /\ (d = Total => SumFenced(c))
    BY DEF DamageInv
  <2> QED BY <2>1, <2>2, <2>3 DEF PoolFenced, SumFenced
<1> QED BY <1>1, <1>2

LEMMA DamageStep ==
    ASSUME StoreInv, JobInv, MarkerInv, LockInv, FenceInv, DamageInv, WorkInv, NEW p \in Procs, Acts(p)
    PROVE  DamageInv'
<1>1. CASE Open(p) \/ \E c \in Columns : PutTile(p, c)
  BY <1>1, OpenWrites, PutTileWrites, DamageWritten
<1>2. CASE ~Open(p) /\ ~(\E c \in Columns : PutTile(p, c)) /\ ~Begin(p) /\ ~Finish(p)
  <2>1. store' = store /\ owed' = owed
    BY <1>2 DEF Acts, Begun, Left, Quietly, AcquireLock, ReleaseLock, Scan, Moved, SyncAll, TripwirePassed, NotRejected
  <2>2. RootStays /\ marker' = marker
    BY <1>2, RootIsLeft
  <2>3. ASSUME NEW d \in Dirs, NEW c \in Columns
        PROVE  PoolFenced(d, c)'
    <3>1. PoolFenced(d, c)
      BY DEF DamageInv
    <3> QED BY <2>1, <2>2, <3>1, TilesStay, RootKeeps DEF PoolFenced, Marked
  <2>4. ASSUME NEW c \in Columns
        PROVE  SumFenced(c)'
    <3>1. SumFenced(c) /\ Total \in Dirs
      BY DEF DamageInv, Dirs
    <3> QED BY <2>1, <2>2, <3>1, TilesStay, RootKeeps DEF SumFenced, Marked
  <2> QED BY <2>3, <2>4 DEF DamageInv
<1>3. CASE Begin(p)
  <2>1. store' = store /\ owed' = owed
    BY <1>3 DEF Begin
  <2>2. PICK e \in Dirs \cup {Root} :
               /\ marker[e] # None => marker[e].descriptor = Descriptor(p, e)
               /\ marker'[e] # None /\ marker'[e].descriptor = Descriptor(p, e)
               /\ \A k \in (Dirs \cup {Root}) \ {e} : marker'[k] = marker[k]
    BY <1>3, BeginIs
  <2>3. \A d \in Dirs : marker[d] # None => marker'[d] # None /\ marker'[d].descriptor = marker[d].descriptor
    BY <2>2
  <2>4. ASSUME NEW d \in Dirs, NEW c \in Columns
        PROVE  PoolFenced(d, c)'
    <3>1. PoolFenced(d, c)
      BY DEF DamageInv
    <3>2. RootCovers(d, c) => RootCovers(d, c)'
      BY <1>3, BeginRoots
    <3>3. Marked(d, c) => Marked(d, c)'
      BY <2>3 DEF Marked
    <3> QED BY <2>1, <3>1, <3>2, <3>3, TilesStay DEF PoolFenced
  <2>5. ASSUME NEW c \in Columns
        PROVE  SumFenced(c)'
    <3>1. SumFenced(c) /\ Total \in Dirs
      BY DEF DamageInv, Dirs
    <3>2. RootCovers(Total, c) => RootCovers(Total, c)'
      BY <1>3, <3>1, BeginRoots
    <3>3. Marked(Total, c) => Marked(Total, c)' /\ marker'[Total].descriptor = marker[Total].descriptor
      BY <2>3, <3>1 DEF Marked
    <3> QED BY <2>1, <3>1, <3>2, <3>3, TilesStay DEF SumFenced
  <2> QED BY <2>4, <2>5 DEF DamageInv
<1>4. CASE Finish(p)
  <2>1. store' = store
    BY <1>4 DEF Finish
  <2>2. PICK e \in Dirs \cup {Root} :
               /\ Is(Instr(p), "finish", e)
               /\ \A k \in (Dirs \cup {Root}) \ {e} : marker'[k] = marker[k]
    BY <1>4, FinishIs
  <2>3. \A d \in Dirs : d # e => marker'[d] = marker[d] /\ ~Is(Instr(p), "finish", d)
    BY <2>2 DEF Is
  <2>4. ASSUME NEW d \in Dirs, NEW c \in Columns
        PROVE  PoolFenced(d, c)'
    <3>1. <<d, c>> \in owed => <<d, c>> \in owed' \/ Pooled(d, c)
      BY <1>4, FinishOwes, CoherentIs
    <3>2. CASE d # e
      <4>1. PoolFenced(d, c)
        BY DEF DamageInv
      <4>2. RootCovers(d, c) => RootCovers(d, c)'
        BY <1>4, <2>3, <3>2, FinishRoots
      <4>3. Marked(d, c) => Marked(d, c)'
        BY <2>3, <3>2 DEF Marked
      <4> QED BY <2>1, <3>1, <4>1, <4>2, <4>3, TilesStay DEF PoolFenced
    <3>3. CASE d = e
      <4>1. Pooled(d, c) \/ <<d, c>> \in owed \/ (RootCovers(d, c) /\ ~InFence(p, Root))
        BY <1>4, <2>2, <3>3, FinishLeaves
      <4>2. RootCovers(d, c) /\ ~InFence(p, Root) => RootCovers(d, c)'
        BY <1>4, FinishRoots
      <4> QED BY <2>1, <3>1, <4>1, <4>2, TilesStay DEF PoolFenced
    <3> QED BY <3>2, <3>3
  <2>5. ASSUME NEW c \in Columns
        PROVE  SumFenced(c)'
    <3>0. Total \in Dirs
      BY DEF Dirs
    <3>1. <<Total, c>> \in owed => <<Total, c>> \in owed' \/ Summed(c)
      BY <1>4, FinishOwes, CoherentIs
    <3>2. CASE Total # e
      <4>1. SumFenced(c)
        BY DEF DamageInv
      <4>2. RootCovers(Total, c) => RootCovers(Total, c)'
        BY <1>4, <2>3, <3>0, <3>2, FinishRoots
      <4>3. marker'[Total] = marker[Total]
        BY <2>3, <3>0, <3>2
      <4> QED BY <2>1, <3>1, <4>1, <4>2, <4>3, TilesStay DEF SumFenced, Marked
    <3>3. CASE Total = e
      <4>1. Summed(c) \/ <<Total, c>> \in owed \/ (RootCovers(Total, c) /\ ~InFence(p, Root))
        BY <1>4, <2>2, <3>0, <3>3, FinishLeaves
      <4>2. RootCovers(Total, c) /\ ~InFence(p, Root) => RootCovers(Total, c)'
        BY <1>4, <3>0, FinishRoots
      <4> QED BY <2>1, <3>1, <4>1, <4>2, TilesStay DEF SumFenced
    <3> QED BY <3>2, <3>3
  <2> QED BY <2>4, <2>5 DEF DamageInv
<1> QED BY <1>1, <1>2, <1>3, <1>4
-----------------------------------------------------------------------------
(* What has been derived in a fence stays derived.                         *)

\* Nobody finishes the fence that another stands in.
LEMMA NotFinished ==
    ASSUME JobInv, MarkerInv, LockInv, NEW p \in Procs, NEW q \in Procs, NEW d \in Dirs, InFence(q, d), Finish(p),
           q = p => ~Is(Instr(p), "finish", d)
    PROVE  Instr(p).dir # d
<1>1. Instr(p).op = "finish" /\ job[p] # None
  BY DEF Finish, Reached
<1>2. SUFFICES ASSUME Is(Instr(p), "finish", d) PROVE FALSE
  BY <1>1 DEF Is
<1>3. p = q
  BY <1>1, <1>2, FencesExclude
<1> QED BY <1>2, <1>3

LEMMA ExcuseStep ==
    ASSUME StoreInv, JobInv, MarkerInv, LockInv, FenceInv, NEW p \in Procs, Acts(p),
           NEW q \in Procs, NEW d \in Dirs, InFence(q, d), q = p => ~Is(Instr(p), "finish", d), NEW c \in Columns
    PROVE  /\ <<d, c>> \in owed => <<d, c>> \in owed'
           /\ RootCovers(d, c) => RootCovers(d, c)'
<1>1. CASE Finish(p)
  <2>1. Instr(p).dir # d
    BY <1>1, NotFinished
  <2>2. ~Is(Instr(p), "finish", d)
    BY <2>1 DEF Is
  <2> QED BY <1>1, <2>1, <2>2, FinishOwes, FinishRoots
<1>2. CASE Begin(p)
  <2>1. owed' = owed
    BY <1>2 DEF Begin
  <2> QED BY <1>2, <2>1, BeginRoots
<1>3. CASE ~Finish(p) /\ ~Begin(p)
  <2>1. RootStays
    BY <1>3, RootIsLeft
  <2>2. owed \subseteq owed'
    <3>1. CASE Open(p)
      BY <3>1, OpenIs
    <3>2. ASSUME NEW b \in Columns, PutTile(p, b) PROVE owed \subseteq owed'
      BY <3>2, PutTileIs
    <3>3. CASE ~Open(p) /\ ~(\E b \in Columns : PutTile(p, b))
      BY <1>3, <3>3 DEF Acts, Begun, Left, Quietly, AcquireLock, ReleaseLock, Scan, Moved, SyncAll, TripwirePassed, NotRejected
    <3> QED BY <3>1, <3>2, <3>3
  <2> QED BY <2>1, <2>2, RootKeeps
<1> QED BY <1>1, <1>2, <1>3

Writes(p) == Open(p) \/ \E c \in Columns : PutTile(p, c)

LEMMA UnwrittenIs ==
    ASSUME NEW p \in Procs, Acts(p), ~Writes(p)
    PROVE  store' = store
BY DEF Writes, Acts, Begun, Left, Quietly, AcquireLock, ReleaseLock, Begin, Finish, Scan, Moved, SyncAll, TripwirePassed, NotRejected

LEMMA WritesWrite ==
    ASSUME StoreInv, JobInv, NEW p \in Procs, Writes(p)
    PROVE  \E C \in SUBSET Columns : Wrote(p, C)
<1>1. CASE Open(p)
  <2>1. Emptying(p) \in SUBSET Columns
    BY DEF Emptying
  <2> QED BY <1>1, <2>1, OpenWrites
<1>2. ASSUME NEW c \in Columns, PutTile(p, c)
      PROVE  \E C \in SUBSET Columns : Wrote(p, C)
  <2>1. {c} \in SUBSET Columns
    OBVIOUS
  <2> QED BY <1>2, <2>1, PutTileWrites
<1> QED BY <1>1, <1>2 DEF Writes

LEMMA DerivedStep ==
    ASSUME StoreInv, JobInv, MarkerInv, LockInv, FenceInv, NEW p \in Procs, Acts(p),
           NEW q \in Procs, NEW d \in Dirs, InFence(q, d), job'[q] = job[q],
           NEW z \in Zooms, NEW c \in Columns, Derived(q, d, z, c),
           q = p => ~Is(Instr(p), "finish", d) /\ (Writes(p) => HasPassed(p, d, z))
    PROVE  Derived(q, d, z, c)'
<1>1. CASE Writes(p)
  <2>1. PICK C : Wrote(p, C)
    BY <1>1, WritesWrite
  <2>2. CASE q = p
    BY <1>1, <2>1, <2>2, OwnKeeps
  <2>3. CASE q # p
    BY <2>1, <2>3, OthersKeep
  <2> QED BY <2>2, <2>3
<1>2. CASE ~Writes(p)
  <2>1. store' = store
    BY <1>2, UnwrittenIs
  <2>2. /\ <<d, c>> \in owed => <<d, c>> \in owed'
        /\ RootCovers(d, c) => RootCovers(d, c)'
    BY ExcuseStep
  <2> QED BY <2>1, <2>2, UnwrittenKeeps
<1> QED BY <1>1, <1>2

\* Where a process is when it has come further.
LEMMA Stands ==
    ASSUME JobInv, NEW p \in Procs, Acts(p), NEW q \in Procs
    PROVE  \/ Same(q) /\ (q = p => \E c \in Columns : PutTile(p, c))
           \/ q = p /\ Onward(p) /\ job' = job
              /\ (AcquireLock(p) \/ ReleaseLock(p) \/ Begin(p) \/ Finish(p) \/ Open(p) \/ Moved(p) \/ Scan(p))
           \/ q = p /\ Afresh(p) /\ (Begun(p) \/ Left(p))
<1>1. CASE q # p
  BY <1>1, OthersStand
<1>2. CASE q = p /\ (Begun(p) \/ Left(p))
  BY <1>2, BegunTouches, LeftTouches
<1>3. CASE q = p /\ \E c \in Columns : PutTile(p, c)
  <2>1. Same(p)
    BY <1>3 DEF PutTile, Same
  <2> QED BY <1>3, <2>1
<1>4. CASE q = p /\ (AcquireLock(p) \/ ReleaseLock(p) \/ Begin(p) \/ Finish(p) \/ Open(p) \/ Moved(p) \/ Scan(p))
  BY <1>4, GoesOnward
<1> QED BY <1>1, <1>2, <1>3, <1>4 DEF Acts
LEMMA WorkStep ==
    ASSUME StoreInv, JobInv, MarkerInv, LockInv, FenceInv, WorkInv, PutInv, NEW p \in Procs, Acts(p)
    PROVE  WorkInv'
<1> SUFFICES ASSUME NEW q \in Procs, NEW d \in Dirs, NEW z \in Zooms, HasPassed(q, d, z)', NEW c \in job'[q].cols
             PROVE  Derived(q, d, z, c)'
  BY DEF WorkInv
<1>1. ~Afresh(q)
  BY AfreshStands
<1>2. job'[q] = job[q]
  BY <1>1, Stands DEF Same
<1>3. job[q] # None
  BY <1>2 DEF HasPassed
<1>4. c \in job[q].cols /\ c \in Columns
  BY <1>2, <1>3, JobIs
<1>5. CASE HasPassed(q, d, z) /\ (q = p => ~Is(Instr(p), "finish", d))
  <2>1. InFence(q, d)
    BY <1>5, PassedFences DEF HasPassed, InFence
  <2>2. Derived(q, d, z, c)
    BY <1>4, <1>5 DEF WorkInv
  <2> QED BY <1>2, <1>4, <1>5, <2>1, <2>2, DerivedStep
<1>6. CASE q = p /\ Onward(p) /\ InFence(p, d) /\ Puts(Instr(p), d, z)
  <2>1. Instr(p).op = "put" /\ Instr(p).dir = d /\ Instr(p).zoom = z /\ Reached(p, "put")
    BY <1>3, <1>6 DEF Puts, Reached
  <2>2. SyncAll(p)
    <3>1. ~(\E b \in Columns : PutTile(p, b))
      <4>1. pc'[p] # pc[p]
        BY <1>6 DEF Onward, JobInv
      <4> QED BY <4>1 DEF PutTile
    <3>3. AcquireLock(p) \/ ReleaseLock(p) \/ Begin(p) \/ Finish(p) \/ Open(p) \/ Moved(p) \/ Scan(p)
      BY <1>1, <1>6, <3>1, Stands
    <3> QED BY <2>1, <3>3 DEF AcquireLock, ReleaseLock, Begin, Finish, Open, Moved, Scan, TripwirePassed, NotRejected, Reached
  <2>3. due[p] = {} /\ ~Writes(p)
    <3>1. due[p] = {} /\ store' = store
      BY <2>2 DEF SyncAll
    <3>2. ~Open(p) /\ \A b \in Columns : ~PutTile(p, b)
      BY <2>1, <3>1 DEF Open, PutTile, Reached
    <3> QED BY <3>1, <3>2 DEF Writes
  <2>4. Derived(p, d, z, c)
    BY <1>4, <1>6, <2>1, <2>3 DEF PutInv
  <2>5. ~Is(Instr(p), "finish", d)
    BY <2>1 DEF Is
  <2> QED BY <1>2, <1>4, <1>6, <2>3, <2>4, <2>5, DerivedStep
<1>7. CASE Same(q) /\ (q = p => \E b \in Columns : PutTile(p, b))
  <2>1. HasPassed(q, d, z)
    BY <1>7, SameStands
  <2>2. q = p => ~Is(Instr(p), "finish", d)
    BY <1>7 DEF PutTile, Reached, Is
  <2> QED BY <1>5, <2>1, <2>2
<1>8. CASE q = p /\ Onward(p)
  BY <1>5, <1>6, <1>8, OnwardStands
<1> QED BY <1>1, <1>7, <1>8, Stands
-----------------------------------------------------------------------------
(* What has been scanned stays silent.                                     *)

LEMMA OthersExcused ==
    ASSUME JobInv, LockInv, FenceInv, NEW p \in Procs, NEW C, Wrote(p, C), NEW c \in C,
           NEW q \in Procs, q # p, NEW d \in Dirs, InFence(q, d), Instr(p).dir = d
    PROVE  Instr(p).zoom = BaseZoom /\ d # Total /\ Excused(q, d, c)'
<1>0. job[p] # None /\ Works(Instr(p)) /\ job[q] # None /\ job' = job
  BY DEF Wrote, Works, InFence
<1>1. ~InFence(p, d)
  BY <1>0, FencesExclude
<1>2. Instr(p).zoom = BaseZoom /\ d # Total
  BY <1>1, FencedWork
<1>3. <<d, c>> \in owed' \/ (job[p].kind = "scoped" /\ RootCovers(d, c)')
  BY <1>1, <1>2, SourceWritten
<1>4. CASE <<d, c>> \in owed'
  BY <1>2, <1>4 DEF Excused
<1>5. CASE job[p].kind = "scoped" /\ RootCovers(d, c)'
  <2>1. Holds(p, Master)
    BY <1>0, <1>2, <1>5, InstrFits DEF BaseFits
  <2>2. job[q].kind = "scoped" => Holds(q, Master)
    BY <1>0, InstrFits DEF BaseFits
  <2>3. Master \in Locks
    BY DEF Locks
  <2>4. job'[q].kind # "scoped"
    BY <1>0, <2>1, <2>2, <2>3, LocksExclude
  <2> QED BY <1>2, <1>5, <2>4 DEF Excused
<1> QED BY <1>2, <1>3, <1>4, <1>5

LEMMA SilentStep ==
    ASSUME StoreInv, JobInv, MarkerInv, LockInv, FenceInv, NEW p \in Procs, Acts(p),
           NEW q \in Procs, NEW d \in Dirs, InFence(q, d), job'[q] = job[q],
           NEW z \in MinZoom .. (BaseZoom - 1), NEW c \in Columns, Silent(q, d, z, c),
           q = p => ~Is(Instr(p), "finish", d) /\ ~Writes(p)
    PROVE  Silent(q, d, z, c)'
<1>0. z + 1 \in Zooms /\ z \in Nat
  BY ZoomsAre DEF Zooms
<1>1. Excused(q, d, c) => Excused(q, d, c)'
  BY ExcuseStep, ExcuseKeeps
<1>2. CASE store'[d][z + 1][c] = store[d][z + 1][c]
  BY <1>1, <1>2 DEF Silent
<1>3. CASE store'[d][z + 1][c] # store[d][z + 1][c]
  <2>1. Writes(p) /\ q # p
    BY <1>3, UnwrittenIs
  <2>2. PICK C : Wrote(p, C)
    BY <2>1, WritesWrite
  <2>3. Instr(p).dir = d /\ Instr(p).zoom = z + 1 /\ c \in C
    BY <1>0, <1>3, <2>2 DEF Wrote, OnlyAt
  <2>4. Instr(p).zoom = BaseZoom /\ Excused(q, d, c)'
    BY <2>1, <2>2, <2>3, OthersExcused
  <2>5. z = BaseZoom - 1
    BY <1>0, <2>3, <2>4, ZoomsAre
  <2> QED BY <2>4, <2>5 DEF Silent
<1> QED BY <1>2, <1>3

LEMMA ScanStep ==
    ASSUME StoreInv, JobInv, MarkerInv, LockInv, FenceInv, ScanInv, NEW p \in Procs, Acts(p)
    PROVE  ScanInv'
<1> SUFFICES ASSUME NEW q \in Procs, NEW d \in Dirs, NEW z \in MinZoom .. (BaseZoom - 1), Scanned(q, d, z)'
             PROVE  InFence(q, d)' /\ \A c \in job'[q].cols \ due'[q] : job'[q].full /\ Silent(q, d, z, c)'
  BY DEF ScanInv
<1>0. z \in Nat /\ BaseZoom \in Nat /\ z < BaseZoom /\ z \in Zooms /\ ~(z >= BaseZoom)
  BY ZoomsAre DEF Zooms
<1>1. ~Afresh(q)
  BY AfreshStands
<1>2. job'[q] = job[q]
  BY <1>1, Stands DEF Same
<1>3. job[q] # None /\ job[q].cols \subseteq Columns
  <2>1. job[q] # None
    BY <1>2 DEF Scanned
  <2> QED BY <2>1, JobIs
<1>4. CASE Same(q) /\ (q = p => \E b \in Columns : PutTile(p, b))
  <2>1. Scanned(q, d, z)
    BY <1>4, SameStands
  <2>2. InFence(q, d) /\ \A c \in job[q].cols \ due[q] : job[q].full /\ Silent(q, d, z, c)
    BY <2>1 DEF ScanInv
  <2>3. q # p
    <3>1. ASSUME NEW b \in Columns, PutTile(q, b) PROVE FALSE
      <4>1. Instr(q).op = "put"
        BY <3>1 DEF PutTile, Reached
      <4>2. Is(Before(q, 1), "open", Instr(q).dir) \/ (Is(Before(q, 1), "scan", Instr(q).dir) /\ Before(q, 1).zoom = Instr(q).zoom /\ Instr(q).zoom >= BaseZoom)
        <5>1. TurnFits(q) /\ Instr(q).zoom \in Nat
          BY <1>3, InstrFits, PlaceIs DEF Instructions
        <5>2. Instr(q).zoom < BaseZoom \/ Instr(q).zoom >= BaseZoom
          BY <1>0, <5>1
        <5> QED BY <4>1, <5>1, <5>2 DEF TurnFits
      <4> QED BY <1>0, <2>1, <4>2 DEF Scanned, Is
    <3> QED BY <1>4, <3>1
  <2>4. due'[q] = due[q]
    BY <2>3, OthersStand
  <2>5. \A c \in job[q].cols \ due[q] : Silent(q, d, z, c)'
    BY <1>2, <1>3, <2>2, <2>3, SilentStep
  <2> QED BY <1>2, <1>4, <2>2, <2>4, <2>5, SameStands
<1>5. CASE q = p /\ Onward(p) /\ (AcquireLock(p) \/ ReleaseLock(p) \/ Begin(p) \/ Finish(p) \/ Open(p) \/ Moved(p) \/ Scan(p))
  <2>1. Before(p, 1)' = Instr(p) /\ (pc'[p] > 2 => pc[p] > 1 /\ Before(p, 2)' = Before(p, 1))
    BY <1>5, OnwardStands
  <2>2. CASE Is(Instr(p), "scan", d) /\ Instr(p).zoom = z
    <3>1. Scan(p)
      BY <1>5, <2>2 DEF Is, AcquireLock, ReleaseLock, Begin, Finish, Open, Moved, SyncAll, TripwirePassed, NotRejected, Reached
    <3>2. due'[p] = Pass(p, d, z) /\ store' = store /\ Instr(p).dir = d /\ Instr(p).op = "scan"
      BY <2>2, <3>1 DEF Scan, JobInv, Is
    <3>3. InFence(p, d)
      BY <1>0, <1>3, <1>5, <2>2, <3>2, InstrFits DEF LevelFits, Works
    <3>4. InFence(p, d)'
      BY <1>5, <3>2, <3>3, OnwardStands DEF Is
    <3>5. Pass(p, d, z) = {c \in job[p].cols : job[p].full => store[d][z + 1][c] # None}
      BY <1>0 DEF Pass
    <3>6. \A c \in job[p].cols \ due'[p] : job[p].full /\ store'[d][z + 1][c] = None
      BY <3>2, <3>5
    <3> QED BY <1>2, <1>5, <3>4, <3>6 DEF Silent
  <2>3. CASE ~(Is(Instr(p), "scan", d) /\ Instr(p).zoom = z)
    <3>1. /\ Instr(p).op \in {"lock", "lockWithin"}
          /\ pc[p] > 1 /\ Is(Before(p, 1), "scan", d) /\ Before(p, 1).zoom = z
      BY <1>5, <2>1, <2>3 DEF Scanned
    <3>2. AcquireLock(p)
      BY <1>5, <3>1 DEF ReleaseLock, Begin, Finish, Open, Moved, SyncAll, TripwirePassed, NotRejected, Scan, Reached
    <3>3. Scanned(p, d, z)
      BY <1>3, <1>5, <3>1 DEF Scanned
    <3>4. InFence(p, d) /\ \A c \in job[p].cols \ due[p] : job[p].full /\ Silent(p, d, z, c)
      BY <3>3 DEF ScanInv
    <3>5. ~Is(Instr(p), "finish", d) /\ ~Writes(p)
      BY <3>1 DEF Is, Writes, Open, PutTile, Reached
    <3>6. due' = due
      BY <3>2 DEF AcquireLock
    <3>7. \A c \in job[p].cols \ due[p] : Silent(p, d, z, c)'
      BY <1>2, <1>3, <1>5, <3>4, <3>5, SilentStep
    <3>8. InFence(p, d)'
      BY <1>5, <3>4, <3>5, OnwardStands
    <3> QED BY <1>2, <1>5, <3>4, <3>6, <3>7, <3>8
  <2> QED BY <2>2, <2>3
<1> QED BY <1>1, <1>4, <1>5, Stands
-----------------------------------------------------------------------------
(* What has been emptied stays empty, and what has been put, derived.      *)

LEMMA NextTurn ==
    ASSUME JobInv, NEW p \in Procs, Onward(p)
    PROVE  /\ Instr(p)' \in Instructions
           /\ Works(Instr(p)') => Instr(p)'.dir \in Dirs /\ Instr(p)'.zoom \in Zooms
           /\ Instr(p)'.op = "put" /\ Instr(p)'.zoom < BaseZoom =>
                  Is(Instr(p), "open", Instr(p)'.dir) /\ Instr(p).zoom = Instr(p)'.zoom
           /\ Instr(p)'.op = "put" /\ ~(Instr(p)'.zoom < BaseZoom) =>
                  Is(Instr(p), "scan", Instr(p)'.dir) /\ Instr(p).zoom = Instr(p)'.zoom
           /\ Instr(p)'.op = "ship" =>
                  /\ job[p].kind = "pack" /\ Instr(p).op = "reject"
                  /\ \A d \in Members(job[p].layers), z \in Zooms : Holds(p, Level(d, z))'
<1>1. PICK P, i, kind, layers, groups :
          P = TextOf(p) /\ i = pc[p] /\ kind = job[p].kind /\ layers = job[p].layers /\ groups = job[p].groups
  OBVIOUS
<1>2. /\ ProgramFits(kind, layers, groups, P) /\ P \in Seq(Instructions) /\ i \in Nat /\ i >= 1 /\ P[i] = Instr(p)
      /\ Instr(p) \in Instructions
  BY <1>1, PlaceIs DEF Onward
<1>3. TextOf(p)' = P /\ pc'[p] = i + 1 /\ job'[p] = job[p] /\ pc'[p] \in DOMAIN TextOf(p)'
  BY <1>1, OnwardStands DEF Onward, TextOf
<1>4. i + 1 \in DOMAIN P /\ i + 1 - 1 = i
  BY <1>2, <1>3
<1>5. PICK x : x = P[i + 1]
  OBVIOUS
<1>6. Instr(p)' = x
  <2>1. Instr(p)' = TextOf(p)'[pc'[p]]
    BY DEF Instr, TextOf
  <2> QED BY <1>3, <1>5, <2>1
<1>7. x \in Instructions
  BY <1>2, <1>4, <1>5, ElementOfSeq
<1>8. InTurn(P, i + 1) /\ WorkFits(P, i + 1) /\ EndFits(kind, layers, P, i + 1)
  BY <1>2, <1>4 DEF ProgramFits, Part, PlaceFits
<1>9. x.zoom \in Nat /\ BaseZoom \in Nat
  BY <1>7, ZoomsAre DEF Instructions
<1>10. Works(x) => x.dir \in Dirs /\ x.zoom \in Zooms
  BY <1>5, <1>8 DEF WorkFits
<1>11. x.op = "put" => Instr(p) = [x EXCEPT !.op = IF x.zoom < BaseZoom THEN "open" ELSE "scan"]
  BY <1>2, <1>4, <1>5, <1>8 DEF InTurn
<1>12. \A o : [x EXCEPT !.op = o].op = o /\ [x EXCEPT !.op = o].dir = x.dir /\ [x EXCEPT !.op = o].zoom = x.zoom
  BY <1>7 DEF Instructions
<1>13. x.op = "put" /\ x.zoom < BaseZoom => Is(Instr(p), "open", x.dir) /\ Instr(p).zoom = x.zoom
  BY <1>11, <1>12 DEF Is
<1>14. x.op = "put" /\ ~(x.zoom < BaseZoom) => Is(Instr(p), "scan", x.dir) /\ Instr(p).zoom = x.zoom
  BY <1>11, <1>12 DEF Is
<1>15. x.op = "ship" => /\ kind = "pack" /\ Instr(p).op = "reject"
                        /\ \A d \in Members(layers), z \in Zooms : Holding(P, i + 1, Level(d, z))
  BY <1>2, <1>4, <1>5, <1>8 DEF EndFits
<1>16. \A l : Holding(P, i + 1, l) => Holds(p, l)'
  <2>1. job'[p] # None
    BY <1>3 DEF Onward
  <2> QED BY <1>3, <2>1 DEF Holds
<1> QED BY <1>1, <1>6, <1>7, <1>10, <1>13, <1>14, <1>15, <1>16

\* A process at a put has just opened the level, or scanned the base.
LEMMA PutTurn ==
    ASSUME JobInv, NEW p \in Procs, job[p] # None, Instr(p).op = "put"
    PROVE  /\ ~Emptied(p)
           /\ \A d \in Dirs, z \in MinZoom .. (BaseZoom - 1) : ~Scanned(p, d, z)
<1>1. TurnFits(p) /\ Instr(p).zoom \in Nat /\ BaseZoom \in Nat /\ MinZoom \in Nat
  BY InstrFits, PlaceIs, ZoomsAre DEF Instructions
<1>2. CASE Instr(p).zoom < BaseZoom
  <2>1. Is(Before(p, 1), "open", Instr(p).dir) /\ Before(p, 1).zoom # BaseZoom
    BY <1>1, <1>2 DEF TurnFits
  <2> QED BY <2>1 DEF Emptied, Scanned, Is
<1>3. CASE Instr(p).zoom >= BaseZoom
  <2>1. Is(Before(p, 1), "scan", Instr(p).dir) /\ Before(p, 1).zoom >= BaseZoom
    BY <1>1, <1>3 DEF TurnFits
  <2>2. \A z \in MinZoom .. (BaseZoom - 1) : Before(p, 1).zoom # z
    BY <1>1, <2>1
  <2> QED BY <2>1, <2>2 DEF Emptied, Scanned, Is
<1> QED BY <1>1, <1>2, <1>3

LEMMA EmptyStep ==
    ASSUME StoreInv, JobInv, LockInv, FenceInv, EmptyInv, NEW p \in Procs, Acts(p)
    PROVE  EmptyInv'
<1> SUFFICES ASSUME NEW q \in Procs, Emptied(q)'
             PROVE  InFence(q, Total)' /\ \A c \in Columns : store'[Total][BaseZoom][c] = None
  BY DEF EmptyInv
<1>1. ~Afresh(q)
  BY AfreshStands
<1>2. job'[q] = job[q] /\ Total \in Dirs /\ BaseZoom \in Zooms
  BY <1>1, Stands, ZoomsAre DEF Same, Dirs
<1>3. job[q] # None
  BY <1>2 DEF Emptied
<1>4. CASE Same(q) /\ (q = p => \E b \in Columns : PutTile(p, b))
  <2>1. Emptied(q)
    BY <1>4, SameStands
  <2>2. InFence(q, Total) /\ \A c \in Columns : store[Total][BaseZoom][c] = None
    BY <2>1 DEF EmptyInv
  <2>3. q # p
    BY <1>3, <1>4, <2>1, PutTurn DEF PutTile, Reached
  <2>4. ASSUME NEW c \in Columns PROVE store'[Total][BaseZoom][c] = store[Total][BaseZoom][c]
    <3>1. CASE ~Writes(p)
      BY <3>1, UnwrittenIs
    <3>2. CASE Writes(p)
      <4>1. PICK C : Wrote(p, C)
        BY <3>2, WritesWrite
      <4>2. ~(Instr(p).dir = Total /\ c \in C)
        BY <1>2, <2>2, <2>3, <4>1, OthersExcused
      <4> QED BY <1>2, <4>1, <4>2 DEF Wrote, OnlyAt
    <3> QED BY <3>1, <3>2
  <2> QED BY <1>4, <2>2, <2>4, SameStands
<1>5. CASE q = p /\ Onward(p) /\ (AcquireLock(p) \/ ReleaseLock(p) \/ Begin(p) \/ Finish(p) \/ Open(p) \/ Moved(p) \/ Scan(p))
  <2>1. Is(Instr(p), "open", Total) /\ Instr(p).zoom = BaseZoom /\ job[p].full
    BY <1>2, <1>5, OnwardStands DEF Emptied
  <2>2. Open(p) /\ Instr(p).op = "open" /\ Instr(p).dir = Total
    BY <1>5, <2>1 DEF Is, AcquireLock, ReleaseLock, Begin, Finish, Scan, Moved, SyncAll, TripwirePassed, NotRejected, Reached
  <2>3. Emptying(p) = Columns
    BY <2>1 DEF Emptying
  <2>4. \A c \in Columns : store'[Total][BaseZoom][c] = None
    BY <2>1, <2>2, <2>3, OpenIs
  <2>5. InFence(p, Total)
    BY <1>3, <1>5, <2>2, InstrFits DEF LevelFits, Works
  <2>6. InFence(p, Total)'
    BY <1>5, <2>2, <2>5, OnwardStands DEF Is
  <2> QED BY <1>5, <2>4, <2>6
<1> QED BY <1>1, <1>4, <1>5, Stands
\* A tile just put is derived, and so is one that is empty and silent.
LEMMA PutDerives ==
    ASSUME StoreInv, JobInv, NEW p \in Procs, NEW c \in Columns, PutTile(p, c)
    PROVE  Derived(p, Instr(p).dir, Instr(p).zoom, c)'
<1>1. PICK d \in Dirs, z \in Zooms :
          /\ d = Instr(p).dir /\ z = Instr(p).zoom
          /\ OnlyAt(d, z, {c}) /\ store'[d][z][c] = Value(p, d, z, c) /\ pc' = pc /\ job' = job
  BY PutTileIs
<1>2. Instr(p)' = Instr(p)
  BY <1>1 DEF Instr
<1>3. z \in Nat /\ MinZoom \in Nat /\ BaseZoom \in Nat /\ BaseZoom \in Zooms /\ Total \in Dirs /\ Sources \subseteq Dirs
  BY ZoomsAre DEF Zooms, Dirs
<1>4. CASE z < BaseZoom
  <2>1. z + 1 \in Zooms /\ z + 1 # z
    BY <1>3, <1>4 DEF Zooms
  <2>2. store'[d][z + 1][c] = store[d][z + 1][c]
    BY <1>1, <2>1 DEF OnlyAt
  <2>3. Value(p, d, z, c) = store[d][z + 1][c]
    BY <1>4 DEF Value
  <2> QED BY <1>1, <1>2, <1>4, <2>2, <2>3 DEF Derived, Pools
<1>5. CASE ~(z < BaseZoom) /\ d = Total
  <2>1. z = BaseZoom
    BY <1>3, <1>5 DEF Zooms
  <2>2. Total \notin Sources
    BY TransactionAssumption DEF TransactionAssumption
  <2>3. \A l \in Sources : store'[l][BaseZoom][c] = store[l][BaseZoom][c]
    BY <1>1, <1>3, <1>5, <2>2 DEF OnlyAt
  <2>4. Sum(c)' = Sum(c)
    BY <2>3, SumSame
  <2>5. Value(p, d, z, c) = Sum(c)
    BY <1>5 DEF Value
  <2> QED BY <1>1, <1>2, <1>5, <2>1, <2>4, <2>5 DEF Derived, Summed
<1>6. CASE ~(z < BaseZoom) /\ d # Total
  BY <1>1, <1>2, <1>6 DEF Derived
<1> QED BY <1>4, <1>5, <1>6

\* A tile put leaves what is beside it.
LEMMA PutKeeps ==
    ASSUME StoreInv, JobInv, MarkerInv, LockInv, FenceInv, NEW p \in Procs, NEW b \in Columns, PutTile(p, b),
           NEW c \in Columns, c # b, Derived(p, Instr(p).dir, Instr(p).zoom, c)
    PROVE  Derived(p, Instr(p).dir, Instr(p).zoom, c)'
<1>1. PICK d \in Dirs, z \in Zooms :
          /\ d = Instr(p).dir /\ z = Instr(p).zoom
          /\ OnlyAt(d, z, {b}) /\ pc' = pc /\ job' = job /\ job[p] # None /\ Instr(p).op = "put"
  BY PutTileIs
<1>2. Instr(p)' = Instr(p) /\ Acts(p)
  BY <1>1 DEF Instr, Acts
<1>3. CASE ~(z < BaseZoom) /\ d # Total
  BY <1>1, <1>2, <1>3 DEF Derived
<1>4. CASE z < BaseZoom \/ d = Total
  <2>1. InFence(p, d) /\ ~Is(Instr(p), "finish", d)
    BY <1>1, <1>4, InstrFits DEF LevelFits, Works, Is
  <2>2. Excused(p, d, c) => Excused(p, d, c)'
    BY <1>1, <1>2, <2>1, ExcuseStep, ExcuseKeeps
  <2>3. c \notin {b}
    OBVIOUS
  <2>4. z < BaseZoom => (Pools(d, z, c)' <=> Pools(d, z, c))
    <3>1. z < BaseZoom => z \in MinZoom .. (BaseZoom - 1)
      BY ZoomsAre DEF Zooms
    <3> QED BY <1>1, <2>3, <3>1, PoolsStay
  <2>5. Summed(c)' <=> Summed(c)
    BY <1>1, <2>3, SummedStays
  <2> QED BY <1>1, <1>2, <2>2, <2>4, <2>5 DEF Derived
<1> QED BY <1>3, <1>4

LEMMA OpenDerives ==
    ASSUME StoreInv, JobInv, MarkerInv, LockInv, FenceInv, ScanInv, NEW p \in Procs, Open(p),
           NEW d \in Dirs, d = Instr(p).dir, NEW z \in Zooms, z = Instr(p).zoom, z < BaseZoom,
           NEW c \in job[p].cols \ due[p]
    PROVE  Derived(p, d, z, c)'
<1>1. /\ job[p] # None /\ Instr(p).op = "open" /\ Acts(p) /\ OnlyAt(d, z, Emptying(p)) /\ job' = job
      /\ \A b \in Emptying(p) : store'[d][z][b] = None
  <2>1. Acts(p) /\ job' = job
    BY DEF Acts, Open
  <2> QED BY <2>1, OpenIs
<1>2. z \in MinZoom .. (BaseZoom - 1) /\ z + 1 \in Zooms /\ z + 1 # z
  BY ZoomsAre DEF Zooms
<1>3. Scanned(p, d, z)
  BY <1>1, InstrFits DEF TurnFits, Scanned
<1>4. InFence(p, d) /\ job[p].full /\ Silent(p, d, z, c)
  BY <1>2, <1>3 DEF ScanInv
<1>5. c \in Columns /\ Emptying(p) = Columns
  BY <1>1, <1>4, JobIs DEF Emptying
<1>6. store'[d][z][c] = None /\ store'[d][z + 1][c] = store[d][z + 1][c]
  BY <1>1, <1>2, <1>5 DEF OnlyAt
<1>7. CASE store[d][z + 1][c] = None
  BY <1>6, <1>7 DEF Derived, Pools
<1>8. CASE z = BaseZoom - 1 /\ Excused(p, d, c)
  <2>1. ~Is(Instr(p), "finish", d)
    BY <1>1 DEF Is
  <2>2. Excused(p, d, c)'
    BY <1>1, <1>4, <1>5, <1>8, <2>1, ExcuseStep, ExcuseKeeps
  <2> QED BY <1>8, <2>2 DEF Derived
<1> QED BY <1>4, <1>7, <1>8 DEF Silent

LEMMA ScanDerives ==
    ASSUME StoreInv, JobInv, EmptyInv, NEW p \in Procs, Scan(p), Instr(p).zoom = BaseZoom,
           NEW d \in Dirs, d = Instr(p).dir, NEW c \in job[p].cols \ due'[p]
    PROVE  Derived(p, d, BaseZoom, c)'
<1>0. ~(BaseZoom < BaseZoom) /\ BaseZoom \in Zooms
  BY ZoomsAre
<1>1. CASE d # Total
  BY <1>0, <1>1 DEF Derived
<1>2. CASE d = Total
  <2>1. job[p] # None /\ Instr(p).op = "scan" /\ due'[p] = Pass(p, Total, BaseZoom) /\ store' = store
    BY <1>2 DEF Scan, Reached, JobInv
  <2>2. c \in Columns
    BY <2>1, JobIs
  <2>3. Pass(p, Total, BaseZoom) =
            {b \in job[p].cols : Sum(b) # None \/ (~job[p].full /\ store[Total][BaseZoom][b] # None)}
    BY <1>0 DEF Pass
  <2>4. Sum(c) = None /\ (job[p].full \/ store[Total][BaseZoom][c] = None)
    BY <2>1, <2>3
  <2>5. job[p].full => store[Total][BaseZoom][c] = None
    <3>1. pc[p] > 1 /\ Is(Before(p, 1), "open", Total) /\ Before(p, 1).zoom = BaseZoom
      BY <1>2, <2>1, InstrFits DEF TurnFits
    <3> QED BY <2>1, <2>2, <3>1 DEF Emptied, EmptyInv
  <2>6. Summed(c)
    BY <2>4, <2>5 DEF Summed
  <2>7. Summed(c)'
    BY <2>1, <2>6, TilesStay
  <2> QED BY <1>0, <2>7 DEF Derived
<1> QED BY <1>1, <1>2

\* Nothing is put, or shipped, at first.
LEMMA FirstTurn ==
    ASSUME JobInv, NEW p \in Procs, Begun(p)
    PROVE  Instr(p)'.op \notin {"put", "ship"}
<1>1. PICK j \in Jobs : /\ job' = [job EXCEPT ![p] = j]
                        /\ j.layers \in LayersOf(j.kind) /\ j.groups \subseteq Members(j.layers)
  BY DEF Begun
<1>2. job'[p] = j /\ pc'[p] = 1
  BY <1>1 DEF Begun, JobInv
<1>3. PICK P : P = Program[j.kind][j.layers][j.groups]
  OBVIOUS
<1>4. Instr(p)' = P[1]
  BY <1>2, <1>3 DEF Instr
<1>5. ProgramFits(j.kind, j.layers, j.groups, P)
  BY <1>1, <1>3, ProgramsFit DEF Jobs
<1>6. P \in Seq(Instructions) /\ Len(P) > 0
  BY <1>5 DEF ProgramFits, Part
<1>7. 1 \in DOMAIN P /\ ~(1 > 1)
  BY ONLY <1>6
<1>8. InTurn(P, 1) /\ EndFits(j.kind, j.layers, P, 1)
  BY <1>5, <1>7 DEF ProgramFits, Part, PlaceFits
<1>9. P[1].op # "put"
  BY <1>7, <1>8 DEF InTurn
<1>10. P[1].op # "ship"
  BY <1>7, <1>8 DEF EndFits
<1> QED BY <1>4, <1>9, <1>10

LEMMA PutStep ==
    ASSUME StoreInv, JobInv, MarkerInv, LockInv, FenceInv, ScanInv, EmptyInv, PutInv, NEW p \in Procs, Acts(p)
    PROVE  PutInv'
<1> SUFFICES ASSUME NEW q \in Procs, Reached(q, "put")', NEW c \in job'[q].cols \ due'[q]
             PROVE  Derived(q, Instr(q).dir, Instr(q).zoom, c)'
  BY DEF PutInv
<1>0. Instr(q)'.op = "put" /\ job'[q] # None
  BY DEF Reached
<1>1. CASE q = p /\ (Begun(p) \/ Left(p))
  <2>1. ~Left(p)
    BY <1>0, <1>1, LeftTouches
  <2> QED BY <1>0, <1>1, <2>1, FirstTurn
<1>2. CASE Same(q) /\ q # p
  <2>1. Instr(q)' = Instr(q) /\ job'[q] = job[q] /\ job[q] # None /\ due'[q] = due[q] /\ Instr(q).op = "put"
    BY <1>0, <1>2, SameStands, OthersStand DEF Same
  <2>2. PICK d \in Dirs, z \in Zooms : d = Instr(q).dir /\ z = Instr(q).zoom
    BY <2>1, WorkIs DEF Works
  <2>3. c \in Columns /\ Derived(q, d, z, c)
    BY <2>1, <2>2, JobIs DEF PutInv, Reached
  <2>4. CASE z < BaseZoom \/ d = Total
    <3>1. InFence(q, d)
      BY <2>1, <2>2, <2>4, InstrFits DEF LevelFits, Works
    <3>2. Derived(q, d, z, c)'
      BY <1>2, <2>1, <2>3, <3>1, DerivedStep
    <3> QED BY <2>1, <2>2, <3>2
  <2>5. CASE ~(z < BaseZoom) /\ d # Total
    BY <2>1, <2>2, <2>5 DEF Derived
  <2> QED BY <2>4, <2>5
<1>3. ASSUME q = p, NEW b \in Columns, PutTile(p, b)
      PROVE  Derived(q, Instr(q).dir, Instr(q).zoom, c)'
  <2>1. job' = job /\ due'[p] = due[p] \ {b} /\ job[p] # None /\ Reached(p, "put")
    BY <1>3, PutTileIs DEF PutTile
  <2>2. CASE c = b
    BY <1>3, <2>2, PutDerives
  <2>3. CASE c # b
    <3>1. c \in job[p].cols \ due[p] /\ c \in Columns
      BY <1>3, <2>1, <2>3, JobIs
    <3>2. Derived(p, Instr(p).dir, Instr(p).zoom, c)
      BY <2>1, <3>1 DEF PutInv
    <3> QED BY <1>3, <2>3, <3>1, <3>2, PutKeeps
  <2> QED BY <2>2, <2>3
<1>4. CASE q = p /\ Onward(p) /\ (AcquireLock(p) \/ ReleaseLock(p) \/ Begin(p) \/ Finish(p) \/ Open(p) \/ Moved(p) \/ Scan(p))
  <2>1. job'[p] = job[p] /\ job[p] # None
    BY <1>4 DEF Onward
  <2>2. PICK d \in Dirs, z \in Zooms : d = Instr(p)'.dir /\ z = Instr(p)'.zoom
    BY <1>0, <1>4, NextTurn DEF Works
  <2>3. CASE z < BaseZoom
    <3>1. Is(Instr(p), "open", d) /\ Instr(p).zoom = z
      BY <1>0, <1>4, <2>2, <2>3, NextTurn
    <3>2. Open(p)
      BY <1>4, <3>1 DEF Is, AcquireLock, ReleaseLock, Begin, Finish, Scan, Moved, SyncAll, TripwirePassed, NotRejected, Reached
    <3>3. due' = due
      BY <3>2 DEF Open
    <3>4. Derived(p, d, z, c)'
      BY <1>4, <2>1, <2>3, <3>1, <3>2, <3>3, OpenDerives DEF Is
    <3> QED BY <1>4, <2>2, <3>4
  <2>4. CASE ~(z < BaseZoom)
    <3>1. Is(Instr(p), "scan", d) /\ Instr(p).zoom = z /\ z = BaseZoom
      BY <1>0, <1>4, <2>2, <2>4, NextTurn, ZoomsAre DEF Zooms
    <3>2. Scan(p)
      BY <1>4, <3>1 DEF Is, AcquireLock, ReleaseLock, Begin, Finish, Open, Moved, SyncAll, TripwirePassed, NotRejected, Reached
    <3>3. Derived(p, d, z, c)'
      BY <1>4, <2>1, <3>1, <3>2, ScanDerives DEF Is
    <3> QED BY <1>4, <2>2, <3>3
  <2> QED BY <2>3, <2>4
<1> QED BY <1>1, <1>2, <1>3, <1>4, Stands
-----------------------------------------------------------------------------
(* What a pack ships, and what a scoped update has put.                    *)

\* Nobody writes what another holds the levels of.
LEMMA NotWhileHeld ==
    ASSUME JobInv, LockInv, NEW p \in Procs, NEW C, Wrote(p, C), NEW q \in Procs, q # p, NEW d \in Dirs,
           \A z \in Zooms : Holds(q, Level(d, z))
    PROVE  Instr(p).dir # d
<1>1. job[p] # None /\ Works(Instr(p)) /\ Instr(p).op # "scan" /\ Instr(p).dir \in Dirs /\ Instr(p).zoom \in Zooms
  BY DEF Wrote, Works
<1>2. Holds(p, Level(Instr(p).dir, Instr(p).zoom))
  BY <1>1, InstrFits DEF LevelFits
<1>3. Level(Instr(p).dir, Instr(p).zoom) \in Locks
  BY <1>1 DEF Locks
<1> QED BY <1>1, <1>2, <1>3, LocksExclude

LEMMA PackedStays ==
    ASSUME StoreInv, JobInv, LockInv, NEW p \in Procs, Acts(p), NEW q \in Procs, q # p, Shipping(q),
           NEW d \in Members(job[q].layers), NEW c \in Columns, Coherent(d, c)
    PROVE  Coherent(d, c)'
<1>1. CASE ~Writes(p)
  BY <1>1, UnwrittenIs, TilesStay
<1>2. CASE Writes(p)
  <2>1. PICK C : Wrote(p, C)
    BY <1>2, WritesWrite
  <2>2. job[q] # None /\ Instr(q).op = "ship"
    BY DEF Shipping, Reached
  <2>3. /\ job[q].kind = "pack" /\ job[q].layers \in PackRequests
        /\ \A e \in Members(job[q].layers), z \in Zooms : Holds(q, Level(e, z))
        /\ Members(job[q].layers) \subseteq Dirs
    <3>1. job[q].kind = "pack" /\ \A e \in Members(job[q].layers), z \in Zooms : Holds(q, Level(e, z))
      BY <2>2, InstrFits DEF TurnFits
    <3>2. JobFits(q) /\ Members(job[q].layers) \subseteq Dirs
      BY <2>2, JobIs
    <3> QED BY <3>1, <3>2 DEF JobFits, LayersOf
  <2>4. \A e \in Members(job[q].layers) : Instr(p).dir # e
    BY <2>1, <2>3, NotWhileHeld
  <2>5. OnlyAt(Instr(p).dir, Instr(p).zoom, C) /\ Instr(p).dir \in Dirs
    BY <2>1 DEF Wrote
  <2>6. Pooled(d, c) /\ (d = Total => Summed(c))
    BY CoherentIs
  <2>7. Pooled(d, c)'
    <3>1. ASSUME NEW z \in MinZoom .. (BaseZoom - 1) PROVE Pools(d, z, c)'
      BY <2>3, <2>4, <2>5, <2>6, PoolsStay DEF Pooled
    <3> QED BY <3>1 DEF Pooled
  <2>8. d = Total => Summed(c)'
    <3>1. d # Total
      <4>1. SUFFICES ASSUME d = Total PROVE FALSE
        OBVIOUS
      <4>2. Sources \subseteq Members(job[q].layers)
        BY <2>3, <4>1, PackedSources
      <4> QED BY <2>4, <2>5, <4>1, <4>2 DEF Dirs
    <3> QED BY <3>1
  <2>9. (Pooled(d, c) /\ (d = Total => Summed(c)))' => Coherent(d, c)'
    BY DEF Coherent, Pooled, Pools, Summed
  <2> QED BY <2>7, <2>8, <2>9
<1> QED BY <1>1, <1>2

LEMMA OwedKept ==
    ASSUME StoreInv, JobInv, NEW p \in Procs, Acts(p), NEW d, NEW c, <<d, c>> \in owed
    PROVE  <<d, c>> \in owed' \/ (Coherent(d, c) /\ store' = store)
<1>1. CASE Open(p)
  BY <1>1, OpenIs
<1>2. ASSUME NEW b \in Columns, PutTile(p, b) PROVE <<d, c>> \in owed'
  BY <1>2, PutTileIs
<1>3. CASE Finish(p)
  BY <1>3, FinishOwes DEF Finish
<1>4. CASE ~Open(p) /\ ~(\E b \in Columns : PutTile(p, b)) /\ ~Finish(p)
  BY <1>4 DEF Acts, Begun, Left, Quietly, AcquireLock, ReleaseLock, Begin, Scan, Moved, SyncAll, TripwirePassed, NotRejected
<1> QED BY <1>1, <1>2, <1>3, <1>4

LEMMA ShipStep ==
    ASSUME StoreInv, JobInv, MarkerInv, LockInv, DamageInv, PackIsCoherent, NEW p \in Procs, Acts(p)
    PROVE  PackIsCoherent'
<1> SUFFICES ASSUME NEW q \in Procs, Shipping(q)', NEW d \in Members(job'[q].layers), NEW c \in Columns
             PROVE  (Coherent(d, c) \/ <<d, c>> \in owed)'
  BY DEF PackIsCoherent, Members
<1>0. Instr(q)'.op = "ship" /\ job'[q] # None
  BY DEF Shipping, Reached
<1>1. CASE q = p /\ (Begun(p) \/ Left(p))
  <2>1. ~Left(p)
    BY <1>0, <1>1, LeftTouches
  <2> QED BY <1>0, <1>1, <2>1, FirstTurn
<1>2. CASE Same(q) /\ (q = p => \E b \in Columns : PutTile(p, b))
  <2>1. Instr(q)' = Instr(q) /\ job'[q] = job[q] /\ job[q] # None /\ Instr(q).op = "ship"
    BY <1>0, <1>2, SameStands DEF Same
  <2>2. q # p
    BY <1>2, <2>1 DEF PutTile, Reached
  <2>3. Shipping(q) /\ d \in Members(job[q].layers)
    BY <2>1 DEF Shipping, Reached
  <2>4. Coherent(d, c) \/ <<d, c>> \in owed
    BY <2>3 DEF PackIsCoherent
  <2>5. Coherent(d, c) => Coherent(d, c)'
    BY <2>2, <2>3, PackedStays
  <2> QED BY <2>4, <2>5, OwedKept
<1>3. CASE q = p /\ Onward(p) /\ (AcquireLock(p) \/ ReleaseLock(p) \/ Begin(p) \/ Finish(p) \/ Open(p) \/ Moved(p) \/ Scan(p))
  <2>1. Instr(p).op = "reject" /\ job'[p] = job[p] /\ job[p] # None
    BY <1>0, <1>3, NextTurn DEF Onward
  <2>2. NotRejected(p)
    BY <1>3, <2>1 DEF AcquireLock, ReleaseLock, Begin, Finish, Open, Scan, Moved, SyncAll, TripwirePassed, Reached
  <2>3. store' = store /\ owed' = owed /\ marker[d] = None /\ marker[Root] = None
    BY <1>3, <2>1, <2>2 DEF NotRejected, Unfinished
  <2>4. d \in Dirs
    BY <1>3, <2>1, JobIs
  <2>5. Pooled(d, c) \/ <<d, c>> \in owed
    <3>1. PoolFenced(d, c)
      BY <2>4 DEF DamageInv
    <3> QED BY <2>3, <3>1 DEF PoolFenced, RootCovers, Marked
  <2>6. d = Total => Summed(c) \/ <<d, c>> \in owed
    <3>1. SumFenced(c)
      BY DEF DamageInv
    <3> QED BY <2>3, <3>1 DEF SumFenced, RootCovers, Marked
  <2>7. Coherent(d, c) \/ <<d, c>> \in owed
    BY <2>5, <2>6, CoherentIs
  <2> QED BY <2>3, <2>7, TilesStay
<1> QED BY <1>1, <1>2, <1>3, Stands
\* A process in the root's fence writes no base of its own but what is staged.
LEMMA UpdateWrites ==
    ASSUME StoreInv, JobInv, NEW p \in Procs, NEW b \in Columns, PutTile(p, b), job[p].kind = "scoped",
           NEW l \in Sources, NEW c \in Columns
    PROVE  \/ store'[l][BaseZoom][c] = store[l][BaseZoom][c]
           \/ c = b /\ store'[l][BaseZoom][c] = Staged(p, l, c)
<1>1. l \in Dirs /\ l # Total /\ BaseZoom \in Zooms /\ ~(BaseZoom < BaseZoom)
  BY TransactionAssumption, ZoomsAre DEF TransactionAssumption, Dirs
<1>2. /\ OnlyAt(Instr(p).dir, Instr(p).zoom, {b})
      /\ store'[Instr(p).dir][Instr(p).zoom][b] = Value(p, Instr(p).dir, Instr(p).zoom, b)
  BY PutTileIs
<1>3. CASE Instr(p).dir = l /\ Instr(p).zoom = BaseZoom /\ c = b
  <2>1. Value(p, l, BaseZoom, b) = Staged(p, l, b)
    BY <1>1 DEF Value, Staged
  <2> QED BY <1>2, <1>3, <2>1
<1>4. CASE ~(Instr(p).dir = l /\ Instr(p).zoom = BaseZoom /\ c = b)
  BY <1>1, <1>2, <1>4 DEF OnlyAt
<1> QED BY <1>3, <1>4

\* Nor does another, without ingests of the hub.
LEMMA OthersWait ==
    ASSUME StoreInv, JobInv, LockInv, FenceInv, "hub" \notin Kinds, NEW p \in Procs, Acts(p),
           NEW q \in Procs, q # p, InFence(q, Root), NEW l \in Sources, NEW c \in Columns
    PROVE  store'[l][BaseZoom][c] = store[l][BaseZoom][c]
<1>1. CASE ~Writes(p)
  BY <1>1, UnwrittenIs
<1>2. CASE Writes(p)
  <2>1. PICK C : Wrote(p, C)
    BY <1>2, WritesWrite
  <2>2. job[p] # None /\ Works(Instr(p)) /\ job[p].kind # "hub"
    <3>1. job[p] # None /\ Works(Instr(p))
      BY <2>1 DEF Wrote, Works
    <3> QED BY <3>1, JobIs
  <2>3. Holds(q, Master) /\ Master \in Locks
    BY RootOwner DEF Locks
  <2>4. Instr(p).zoom # BaseZoom
    <3>1. Instr(p).zoom = BaseZoom => Holds(p, Master)
      BY <2>2, InstrFits DEF BaseFits
    <3> QED BY <2>3, <3>1, LocksExclude
  <2>5. l \in Dirs /\ BaseZoom \in Zooms
    BY ZoomsAre DEF Dirs
  <2> QED BY <2>1, <2>4, <2>5 DEF Wrote, OnlyAt
<1> QED BY <1>1, <1>2

LEMMA ArriveStep ==
    ASSUME StoreInv, JobInv, LockInv, FenceInv, ArriveInv, NEW p \in Procs, Acts(p)
    PROVE  ArriveInv'
<1> SUFFICES ASSUME "hub" \notin Kinds, NEW q \in Procs, NEW l \in Sources,
                    job'[q] # None, job'[q].kind = "scoped", InFence(q, Root)', NEW c \in job'[q].cols,
                    HasWritten(q, l, BaseZoom)' \/ (/\ Reached(q, "put")' /\ Instr(q)'.dir = l /\ Instr(q)'.zoom = BaseZoom
                                                    /\ c \notin due'[q])
             PROVE  store'[l][BaseZoom][c] = Staged(q, l, c)'
  BY DEF ArriveInv
<1>1. ~Afresh(q)
  BY AfreshStands
<1>2. job'[q] = job[q] /\ job[q] # None /\ job[q].kind = "scoped"
  BY <1>1, Stands DEF Same
<1>3. Staged(q, l, c)' = Staged(q, l, c) /\ c \in job[q].cols /\ c \in Columns /\ ~job[q].full
  BY <1>2, JobIs DEF Staged, JobFits
<1>4. ASSUME InFence(q, Root), HasWritten(q, l, BaseZoom) \/ (Reached(q, "put") /\ Instr(q).dir = l /\ Instr(q).zoom = BaseZoom /\ c \notin due[q])
      PROVE  store[l][BaseZoom][c] = Staged(q, l, c)
  BY <1>2, <1>3, <1>4 DEF ArriveInv
<1>5. CASE Same(q) /\ q # p
  <2>1. /\ InFence(q, Root) /\ (HasWritten(q, l, BaseZoom)' <=> HasWritten(q, l, BaseZoom)) /\ Instr(q)' = Instr(q)
        /\ (Reached(q, "put")' <=> Reached(q, "put")) /\ due'[q] = due[q]
    BY <1>5, SameStands, OthersStand
  <2>2. store[l][BaseZoom][c] = Staged(q, l, c)
    BY <1>4, <2>1
  <2>3. store'[l][BaseZoom][c] = store[l][BaseZoom][c]
    BY <1>3, <1>5, <2>1, OthersWait
  <2> QED BY <1>3, <2>2, <2>3
<1>6. ASSUME q = p, Same(p), NEW b \in Columns, PutTile(p, b)
      PROVE  store'[l][BaseZoom][c] = Staged(q, l, c)'
  <2>1. /\ InFence(p, Root) /\ (HasWritten(p, l, BaseZoom)' <=> HasWritten(p, l, BaseZoom)) /\ Instr(p)' = Instr(p)
        /\ (Reached(p, "put")' <=> Reached(p, "put")) /\ due'[p] = due[p] \ {b}
    BY <1>6, SameStands, PutTileIs
  <2>2. CASE store'[l][BaseZoom][c] # store[l][BaseZoom][c]
    <3>1. store'[l][BaseZoom][c] = Staged(p, l, c)
      BY <1>2, <1>3, <1>6, <2>2, UpdateWrites
    <3> QED BY <1>3, <1>6, <3>1
  <2>3. CASE store'[l][BaseZoom][c] = store[l][BaseZoom][c] /\ (HasWritten(p, l, BaseZoom) \/ c # b)
    <3>1. store[l][BaseZoom][c] = Staged(p, l, c)
      BY <1>4, <1>6, <2>1, <2>3
    <3> QED BY <1>3, <1>6, <2>3, <3>1
  <2>4. CASE ~HasWritten(p, l, BaseZoom) /\ c = b
    <3>1. Instr(p).dir = l /\ Instr(p).zoom = BaseZoom
      BY <1>6, <2>1, <2>4
    <3>2. store'[l][BaseZoom][c] = Value(p, l, BaseZoom, c)
      BY <1>6, <2>4, <3>1, PutTileIs
    <3>3. l # Total /\ ~(BaseZoom < BaseZoom)
      BY TransactionAssumption, ZoomsAre DEF TransactionAssumption
    <3>4. Value(p, l, BaseZoom, c) = Staged(p, l, c)
      BY <3>3 DEF Value, Staged
    <3> QED BY <1>3, <1>6, <3>2, <3>4
  <2> QED BY <2>2, <2>3, <2>4
<1>7. CASE q = p /\ Onward(p) /\ (AcquireLock(p) \/ ReleaseLock(p) \/ Begin(p) \/ Finish(p) \/ Open(p) \/ Moved(p) \/ Scan(p))
  <2>1. store' = store
    BY <1>2, <1>3, <1>7 DEF AcquireLock, ReleaseLock, Begin, Finish, Open, Scan, Moved, SyncAll, TripwirePassed, NotRejected
  <2>2. CASE HasWritten(p, l, BaseZoom)'
    <3>1. ~Is(Instr(p), "begin", Root)
      <4>1. SUFFICES ASSUME Is(Instr(p), "begin", Root) PROVE FALSE
        OBVIOUS
      <4>2. ~HasWritten(p, l, BaseZoom)
        BY <1>2, <1>7, <4>1, InstrFits DEF UpdateFits
      <4>3. ~Puts(Instr(p), l, BaseZoom)
        BY <4>1 DEF Is, Puts
      <4> QED BY <1>7, <2>2, <4>2, <4>3, OnwardStands
    <3>2. InFence(p, Root)
      BY <1>7, <3>1, OnwardStands
    <3>3. CASE HasWritten(p, l, BaseZoom)
      BY <1>3, <1>4, <1>7, <2>1, <3>2, <3>3
    <3>4. CASE Puts(Instr(p), l, BaseZoom)
      <4>1. Reached(p, "put") /\ Instr(p).op = "put" /\ Instr(p).dir = l /\ Instr(p).zoom = BaseZoom
        BY <1>2, <1>7, <3>4 DEF Puts, Reached
      <4>2. due[p] = {}
        BY <1>7, <4>1 DEF AcquireLock, ReleaseLock, Begin, Finish, Open, Scan, Moved, SyncAll, TripwirePassed, NotRejected, Reached
      <4> QED BY <1>3, <1>4, <1>7, <2>1, <3>2, <4>1, <4>2
    <3> QED BY <1>7, <2>2, <3>3, <3>4, OnwardStands
  <2>3. CASE Reached(p, "put")' /\ Instr(p)'.dir = l /\ Instr(p)'.zoom = BaseZoom /\ c \notin due'[p]
    <3>0. l \in Dirs /\ l # Total /\ ~(BaseZoom < BaseZoom)
      BY TransactionAssumption, ZoomsAre DEF TransactionAssumption, Dirs
    <3>1. Instr(p)'.op = "put"
      BY <2>3 DEF Reached
    <3>2. Is(Instr(p), "scan", l) /\ Instr(p).zoom = BaseZoom
      BY <1>7, <2>3, <3>0, <3>1, NextTurn
    <3>3. Scan(p)
      BY <1>7, <3>2 DEF Is, AcquireLock, ReleaseLock, Begin, Finish, Open, Moved, SyncAll, TripwirePassed, NotRejected, Reached
    <3>4. due'[p] = Pass(p, l, BaseZoom)
      BY <3>2, <3>3 DEF Scan, JobInv, Is
    <3>5. c \in Pass(p, l, BaseZoom)
      BY <1>3, <1>7, <3>0 DEF Pass
    <3> QED BY <2>3, <3>4, <3>5
  <2> QED BY <1>7, <2>2, <2>3
<1> QED BY <1>1, <1>5, <1>6, <1>7, Stands
-----------------------------------------------------------------------------
(* The invariant is inductive.                                             *)

LEMMA InitHolds == Init => TransactionInv
<1> SUFFICES ASSUME Init PROVE TransactionInv
  OBVIOUS
<1>0. /\ BaseZoom \in Zooms /\ Total \in Dirs /\ Total \notin Sources /\ Sources \subseteq Dirs /\ MaxRuns \in Nat
      /\ \A z \in MinZoom .. (BaseZoom - 1) : z \in Zooms /\ z + 1 \in Zooms
  BY TransactionAssumption, ZoomsAre DEF TransactionAssumption, Zooms, Dirs
<1>1. \A p \in Procs : job[p] = None
  BY DEF Init
<1>2. ASSUME NEW d \in Dirs, NEW z \in Zooms, NEW c \in Columns
      PROVE  store[d][z][c] = IF d = Total THEN [l \in Sources |-> 0] ELSE 0
  BY <1>2 DEF Init
<1>3. StoreInv
  <2>1. 0 \in Contents /\ [l \in Sources |-> 0] \in [Sources -> Contents]
    BY <1>0 DEF Contents
  <2>2. PICK v : v = [l \in Sources |-> 0]
    OBVIOUS
  <2>3. 0 \in Tile /\ v \in Tile
    BY <2>1, <2>2 DEF Tile
  <2>4. store = [d \in Dirs |-> [z \in Zooms |-> [c \in Columns |-> IF d = Total THEN v ELSE 0]]]
    BY <2>2 DEF Init
  <2>5. store \in [Dirs -> [Zooms -> [Columns -> Tile]]]
    <3> HIDE DEF Dirs, Zooms, Tile
    <3> QED BY <2>3, <2>4
  <2>6. \A d \in Dirs, z \in Zooms, c \in Columns : store[d][z][c] \in Tiles(d)
    BY <1>2, <2>1 DEF Tiles
  <2> QED BY <2>5, <2>6 DEF StoreInv
<1>4. JobInv
  BY <1>0, <1>1 DEF Init, JobInv
<1>5. MarkerInv
  BY DEF Init, MarkerInv
<1>6. HolderInv
  BY DEF Init, HolderInv
<1>7. owed \subseteq Dirs \X Columns
  BY DEF Init
<1>8. \A p \in Procs : /\ \A l : ~Holds(p, l)
                       /\ \A d : ~InFence(p, d)
                       /\ \A d : \A z : ~HasPassed(p, d, z) /\ ~Scanned(p, d, z)
                       /\ ~Emptied(p) /\ \A op : ~Reached(p, op)
  BY <1>1 DEF Holds, InFence, HasPassed, Scanned, Emptied, Reached
<1>9. LockInv /\ FenceInv /\ WorkInv /\ ScanInv /\ EmptyInv /\ PutInv /\ PackIsCoherent
  BY <1>8 DEF LockInv, FenceInv, WorkInv, ScanInv, EmptyInv, PutInv, PackIsCoherent, Shipping
<1>10. ArriveInv
  BY <1>8 DEF ArriveInv
<1>11. DamageInv
  <2>1. ASSUME NEW d \in Dirs, NEW c \in Columns PROVE Pooled(d, c)
    BY <1>0, <1>2 DEF Pooled, Pools
  <2>2. ASSUME NEW c \in Columns PROVE Summed(c)
    <3>1. \A l \in Sources : store[l][BaseZoom][c] = 0
      BY <1>0, <1>2
    <3>2. PICK l \in Sources : TRUE
      <4>1. Layers \in Seq(Sources) /\ Layers # <<>>
        BY TransactionAssumption DEF TransactionAssumption
      <4>2. Len(Layers) \in Nat \ {0}
        BY <4>1
      <4>3. 1 \in DOMAIN Layers
        BY ONLY <4>1, <4>2
      <4> QED BY <4>3 DEF Sources
    <3>3. 0 # None
      BY TransactionAssumption DEF TransactionAssumption
    <3>4. Sum(c) = [k \in Sources |-> store[k][BaseZoom][c]]
      BY <3>1, <3>2, <3>3 DEF Sum
    <3>5. [k \in Sources |-> store[k][BaseZoom][c]] = [k \in Sources |-> 0]
      BY <3>1
    <3> QED BY <1>0, <1>2, <3>4, <3>5 DEF Summed
  <2> QED BY <2>1, <2>2 DEF DamageInv, PoolFenced, SumFenced
<1> QED BY <1>3, <1>4, <1>5, <1>6, <1>7, <1>9, <1>10, <1>11 DEF TransactionInv

LEMMA StepHolds == TransactionInv /\ Next => TransactionInv'
<1> SUFFICES ASSUME TransactionInv, Next PROVE TransactionInv'
  OBVIOUS
<1>0. /\ StoreInv /\ JobInv /\ MarkerInv /\ HolderInv /\ owed \subseteq Dirs \X Columns
      /\ LockInv /\ FenceInv /\ DamageInv /\ WorkInv /\ ScanInv /\ EmptyInv /\ PutInv /\ PackIsCoherent /\ ArriveInv
  BY DEF TransactionInv
<1>1. PICK p \in Procs : Acts(p)
  BY <1>0, NextIs
<1>2. StoreInv' /\ JobInv' /\ MarkerInv' /\ HolderInv' /\ owed' \subseteq Dirs \X Columns
  BY <1>0, <1>1, StoreStep, JobStep, MarkerStep, HolderStep, OwedStep
<1>3. LockInv' /\ FenceInv' /\ DamageInv'
  BY <1>0, <1>1, LockStep, FenceStep, DamageStep
<1>4. WorkInv' /\ ScanInv' /\ EmptyInv' /\ PutInv'
  BY <1>0, <1>1, WorkStep, ScanStep, EmptyStep, PutStep
<1>5. PackIsCoherent' /\ ArriveInv'
  BY <1>0, <1>1, ShipStep, ArriveStep
<1> QED BY <1>2, <1>3, <1>4, <1>5 DEF TransactionInv

LEMMA StutterHolds == TransactionInv /\ UNCHANGED vars => TransactionInv'
<1> SUFFICES ASSUME TransactionInv, UNCHANGED vars PROVE TransactionInv'
  OBVIOUS
<1>0. /\ StoreInv /\ JobInv /\ MarkerInv /\ HolderInv /\ owed \subseteq Dirs \X Columns
      /\ LockInv /\ FenceInv /\ DamageInv /\ WorkInv /\ ScanInv /\ EmptyInv /\ PutInv /\ PackIsCoherent /\ ArriveInv
  BY DEF TransactionInv
<1>1. /\ store' = store /\ marker' = marker /\ holder' = holder /\ job' = job /\ pc' = pc /\ due' = due
      /\ owed' = owed /\ runs' = runs
  BY DEF vars
<1>2. \A q \in Procs : Same(q)
  BY <1>1 DEF Same
<1>3. RootStays
  BY <1>1, <1>2, SameStands DEF RootStays
<1>4. \A d \in Dirs : \A c : RootCovers(d, c) => RootCovers(d, c)'
  BY <1>3, RootKeeps
<1>5. \A q : \A d \in Dirs : \A c : Excused(q, d, c) => Excused(q, d, c)'
  BY <1>1, <1>4 DEF Excused
<1>6. \A q : \A d \in Dirs : \A z : \A c : Derived(q, d, z, c) => Derived(q, d, z, c)'
  BY <1>1, <1>5, TilesStay DEF Derived
<1>7. StoreInv' /\ MarkerInv' /\ HolderInv' /\ owed' \subseteq Dirs \X Columns
  BY <1>0, <1>1 DEF StoreInv, MarkerInv, HolderInv
<1>8. JobInv'
  BY <1>0, <1>1 DEF JobInv, JobFits, TextOf
<1>9. LockInv' /\ FenceInv'
  BY <1>0, <1>1, <1>2, SameStands DEF LockInv, FenceInv, Owns, Descriptor
<1>10. DamageInv'
  <2>1. ASSUME NEW d \in Dirs, NEW c \in Columns PROVE PoolFenced(d, c)'
    <3>1. PoolFenced(d, c)
      BY <1>0 DEF DamageInv
    <3> QED BY <1>1, <1>4, <3>1, TilesStay DEF PoolFenced, Marked
  <2>2. ASSUME NEW c \in Columns PROVE SumFenced(c)'
    <3>1. SumFenced(c) /\ Total \in Dirs
      BY <1>0 DEF DamageInv, Dirs
    <3> QED BY <1>1, <1>4, <3>1, TilesStay DEF SumFenced, Marked
  <2> QED BY <2>1, <2>2 DEF DamageInv
<1>11. WorkInv'
  BY <1>0, <1>1, <1>2, <1>6, SameStands DEF WorkInv
<1>12. ScanInv'
  <2>1. \A q : \A d \in Dirs : \A z : \A c : Silent(q, d, z, c) => Silent(q, d, z, c)'
    BY <1>1, <1>5 DEF Silent
  <2> QED BY <1>0, <1>1, <1>2, <2>1, SameStands DEF ScanInv
<1>13. EmptyInv'
  BY <1>0, <1>1, <1>2, SameStands DEF EmptyInv
<1>14. PutInv'
  <2> SUFFICES ASSUME NEW q \in Procs, Reached(q, "put")', NEW c \in job'[q].cols \ due'[q]
               PROVE  Derived(q, Instr(q).dir, Instr(q).zoom, c)'
    BY DEF PutInv
  <2>1. Reached(q, "put") /\ Instr(q)' = Instr(q) /\ job[q] # None /\ Instr(q).op = "put"
    BY <1>2, SameStands DEF Reached
  <2>2. PICK d \in Dirs, z \in Zooms : d = Instr(q).dir /\ z = Instr(q).zoom
    BY <1>0, <2>1, WorkIs DEF Works
  <2>3. Derived(q, d, z, c)
    BY <1>0, <1>1, <2>1, <2>2 DEF PutInv
  <2>4. Derived(q, d, z, c)'
    BY <1>6, <2>3
  <2> QED BY <2>1, <2>2, <2>4
<1>15. PackIsCoherent'
  BY <1>0, <1>1, <1>2, SameStands, TilesStay DEF PackIsCoherent, Shipping
<1>16. ArriveInv'
  BY <1>0, <1>1, <1>2, SameStands DEF ArriveInv, Staged
<1> QED BY <1>7, <1>8, <1>9, <1>10, <1>11, <1>12, <1>13, <1>14, <1>15, <1>16 DEF TransactionInv

\* The invariant holds in every state of every behaviour.
LEMMA TransactionsHold == Spec => []TransactionInv
<1>1. TransactionInv /\ [Next]_vars => TransactionInv'
  BY StepHolds, StutterHolds
<1> QED BY InitHolds, <1>1, PTL DEF Spec
-----------------------------------------------------------------------------
(* What follows from it.                                                   *)

LEMMA TypeFollows == TransactionInv => TypeOK
<1> SUFFICES ASSUME TransactionInv PROVE TypeOK
  OBVIOUS
<1>1. StoreInv /\ JobInv /\ MarkerInv /\ HolderInv /\ owed \subseteq Dirs \X Columns
  BY DEF TransactionInv
<1>2. ASSUME NEW d \in Dirs, NEW z \in Zooms, NEW c \in Columns
      PROVE  IF d = Total THEN store[d][z][c] = None \/ store[d][z][c] \in [Sources -> Contents]
             ELSE store[d][z][c] \in Contents
  BY <1>1 DEF StoreInv, Tiles
<1>3. \A l \in Locks : holder[l] # None => holder[l] \in Procs /\ job[holder[l]] # None
  BY <1>1 DEF HolderInv
<1>4. \A d \in Dirs \cup {Root} : marker[d] # None => marker[d].token \in 1 .. runs
  BY <1>1 DEF MarkerInv
<1>5. \A p \in Procs : job[p] # None => job[p].run \in 1 .. runs
  BY <1>1, JobIs
<1>6. due \in [Procs -> SUBSET Columns]
  BY <1>1 DEF JobInv
<1> QED BY <1>1, <1>2, <1>3, <1>4, <1>5, <1>6 DEF TypeOK

LEMMA OwnersFollow == TransactionInv => OwnersExclude
<1> SUFFICES ASSUME TransactionInv PROVE OwnersExclude
  OBVIOUS
<1>1. JobInv /\ LockInv /\ FenceInv
  BY DEF TransactionInv
<1>2. ASSUME NEW p \in Procs, job[p] # None, NEW d \in Dirs \cup {Root}, Done(p, "begin", d), ~Done(p, "finish", d)
      PROVE  Owns(p, d)
  <2>1. PICK P, i : P = TextOf(p) /\ i = pc[p]
    OBVIOUS
  <2>2. i \in Nat
    BY <1>1, <1>2, <2>1, PlaceIs
  <2>3. \A op : Done(p, op, d) <=> \E n \in 1 .. (i - 1) : Is(P[n], op, d)
    BY <2>1 DEF Done, TextOf, Is
  <2>4. PICK m \in 1 .. (i - 1) : Is(P[m], "begin", d)
    BY <1>2, <2>3
  <2>5. m < i /\ \A n \in (m + 1) .. (i - 1) : n \in 1 .. (i - 1)
    BY <2>2, <2>4
  <2>6. Fences(P, m, i, d)
    BY <1>2, <2>3, <2>4, <2>5 DEF Fences
  <2>7. InFence(p, d)
    BY <1>2, <2>1, <2>4, <2>6 DEF InFence, Fencing
  <2> QED BY <1>1, <2>7 DEF FenceInv
<1>3. ASSUME NEW p \in Procs, NEW q \in Procs, p # q, Reached(p, "put")
      PROVE  /\ ~(Reached(q, "put") /\ Instr(q) = Instr(p))
             /\ ~(Shipping(q) /\ Instr(p).dir \in Members(job[q].layers))
  <2>1. job[p] # None /\ Works(Instr(p)) /\ Instr(p).op # "scan"
    BY <1>3 DEF Reached, Works
  <2>2. Instr(p).dir \in Dirs /\ Instr(p).zoom \in Zooms /\ Holds(p, Level(Instr(p).dir, Instr(p).zoom))
    BY <1>1, <2>1, InstrFits DEF LevelFits
  <2>3. PICK d \in Dirs, z \in Zooms : d = Instr(p).dir /\ z = Instr(p).zoom /\ Holds(p, Level(d, z))
    BY <2>2
  <2>4. Level(d, z) \in Locks
    BY DEF Locks
  <2>5. ~Holds(q, Level(d, z))
    BY <1>1, <1>3, <2>3, <2>4, LocksExclude
  <2>6. Reached(q, "put") /\ Instr(q) = Instr(p) => Holds(q, Level(d, z))
    BY <1>1, <2>3, InstrFits DEF LevelFits, Works, Reached
  <2>7. Shipping(q) /\ Instr(p).dir \in Members(job[q].layers) => Holds(q, Level(d, z))
    BY <1>1, <2>3, InstrFits DEF TurnFits, Shipping, Reached
  <2> QED BY <2>5, <2>6, <2>7
<1>4. FenceIsOwned
  BY <1>2 DEF FenceIsOwned
<1>5. WritersExclude
  BY <1>3 DEF WritersExclude
<1> QED BY <1>4, <1>5 DEF OwnersExclude

LEMMA DamageFollows == TransactionInv => DamageIsFenced
<1> SUFFICES ASSUME TransactionInv, NEW d \in Dirs, NEW c \in Columns
             PROVE  Coherent(d, c) \/ Covers(d, c) \/ <<d, c>> \in owed
  BY DEF DamageIsFenced
<1>1. PoolFenced(d, c) /\ SumFenced(c)
  BY DEF TransactionInv, DamageInv
<1>2. RootCovers(d, c) \/ Marked(d, c) => Covers(d, c)
  BY DEF RootCovers, Marked, Covers
<1>3. Pooled(d, c) \/ Covers(d, c) \/ <<d, c>> \in owed
  BY <1>1, <1>2 DEF PoolFenced
<1>4. d = Total => Summed(c) \/ Covers(d, c) \/ <<d, c>> \in owed
  BY <1>1, <1>2 DEF SumFenced
<1> QED BY <1>3, <1>4, CoherentIs

LEMMA RepaintFollows == TransactionInv /\ "hub" \notin Kinds => RepaintIsSafe
<1> SUFFICES ASSUME TransactionInv, "hub" \notin Kinds PROVE RepaintIsSafe
  OBVIOUS
<1>1. JobInv /\ ArriveInv
  BY DEF TransactionInv
<1>2. ASSUME NEW p \in Procs, Finishes(p), NEW l \in job[p].groups, NEW c \in job[p].cols
      PROVE  store[l][BaseZoom][c] = Staged(p, l, c)
  <2>1. job[p] # None /\ Is(Instr(p), "finish", Root)
    BY <1>2 DEF Finishes, Reached, Is
  <2>2. job[p].kind = "scoped" /\ InFence(p, Root) /\ HasWritten(p, l, BaseZoom)
    BY <1>1, <1>2, <2>1, InstrFits DEF UpdateFits
  <2>3. l \in Sources
    BY <1>1, <2>1, JobIs
  <2> QED BY <1>1, <1>2, <2>1, <2>2, <2>3 DEF ArriveInv
<1>3. RepaintArrives
  BY <1>2 DEF RepaintArrives
<1> QED BY <1>3, DamageFollows DEF RepaintIsSafe

-----------------------------------------------------------------------------
(* The theorems.                                                           *)

\* Every variable has its type; a lock's holder, a marker's token and a
\* process's run exist (rebuild.rs, locks.rs).
THEOREM TransactionsTyped == Spec => []TypeOK
<1> QED BY TransactionsHold, TypeFollows, PTL

\* However many processes run, and whichever are killed, nobody touches the
\* marker or writes the level of a live transaction, nor writes what a pack
\* reads (rebuild.rs, StoreRebuildFence; store.rs, acquire_write_lock).
THEOREM TransactionsExclude == Spec => []OwnersExclude
<1> QED BY TransactionsHold, OwnersFollow, PTL

\* At any moment whatever is not derived lies under a durable marker, or was
\* left to a later run on purpose (rebuild.rs, the marker protocol).
THEOREM DamageStaysFenced == Spec => []DamageIsFenced
<1> QED BY TransactionsHold, DamageFollows, PTL

\* What a pack captures is coherent in all its layers, but for what is owed
\* (tile_store_pack.rs, with_store_snapshots_after_capture).
THEOREM PacksAreCoherent == Spec => []PackIsCoherent
<1>1. TransactionInv => PackIsCoherent
  BY DEF TransactionInv
<1> QED BY TransactionsHold, <1>1, PTL

\* Without ingests of the hub, a scoped update finishes with what it staged in
\* every layer, and leaves no damage unmarked (build-heatmap.sh).
THEOREM RepaintsAreSafe == ASSUME "hub" \notin Kinds PROVE Spec => []RepaintIsSafe
<1>1. TransactionInv => RepaintIsSafe
  BY RepaintFollows
<1> QED BY TransactionsHold, <1>1, PTL
=============================================================================
