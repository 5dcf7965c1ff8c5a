------------------------ MODULE ScriptLibraryProofs -------------------------
(***************************************************************************)
(* Proofs about ScriptLibrary and the operators of ScriptGraph it uses,    *)
(* for every finite set of scripts, however they call each other and nest  *)
(* their steps, any user directory, any number of clients and saves, and   *)
(* every state of the devices.                                             *)
(***************************************************************************)
EXTENDS ScriptLibrary, TLAPS, SequenceTheorems, FiniteSetTheorems, WellFoundedInduction

----------------------------------------------------------------------------
(***************************************************************************)
(* Functions that are defined by recursion on a measure: they have the     *)
(* value of their definition, and what a step keeps is kept. Every         *)
(* recursive function of ScriptGraph is one.                               *)
(***************************************************************************)

\* R is transitive, and nothing goes down in it for ever.
WellFounded(R, D) ==
  /\ \A x, y, z \in D : <<x, y>> \in R /\ <<y, z>> \in R => <<x, z>> \in R
  /\ \A T \in SUBSET D : T # {} => \E x \in T : \A y \in T : <<y, x>> \notin R

\* F[f][x] looks at f only below x.
LooksBelow(F, R, D, S) ==
  /\ S # {} /\ F \in [[D -> S] -> [D -> S]]
  /\ \A f, g \in [D -> S] : \A x \in D :
       (\A y \in D : <<y, x>> \in R => f[y] = g[y]) => F[f][x] = F[g][x]

\* A definition that looks only below its argument has a solution.
LEMMA Recursion ==
  ASSUME NEW D, NEW S, NEW R, NEW F,
         WellFounded(R, D), LooksBelow(F, R, D, S)
  PROVE  \E f \in [D -> S] : f = F[f]
<1> USE DEF WellFounded, LooksBelow
<1> DEFINE Right(f, x) == \A y \in D : y = x \/ <<y, x>> \in R => f[y] = F[f][y]
           Good == {x \in D : \E f \in [D -> S] : Right(f, x)}
           h == [x \in D |-> CHOOSE f \in [D -> S] : Right(f, x)]
<1>1. \A f, g \in [D -> S] : \A x \in D : Right(f, x) /\ Right(g, x) => f[x] = g[x]
  <2> SUFFICES ASSUME NEW f \in [D -> S], NEW g \in [D -> S], NEW x \in D, Right(f, x), Right(g, x),
                      f[x] # g[x]
               PROVE  FALSE
    OBVIOUS
  <2> DEFINE T == {y \in D : (y = x \/ <<y, x>> \in R) /\ f[y] # g[y]}
  <2>1. PICK y \in T : \A z \in T : <<z, y>> \notin R
    <3>1. T \in SUBSET D /\ x \in T
      OBVIOUS
    <3> HIDE DEF T
    <3> QED BY <3>1
  <2>2. \A z \in D : <<z, y>> \in R => f[z] = g[z]
    BY <2>1
  <2>3. F[f][y] = F[g][y]
    BY <2>2
  <2> QED BY <2>1, <2>3
<1>2. \A x, y \in D, f \in [D -> S] : Right(f, x) /\ <<y, x>> \in R => Right(f, y)
  OBVIOUS
<1> HIDE DEF Right
\* What the approximations below x say fits together.
<1>3. \A x \in Good : h[x] \in [D -> S] /\ Right(h[x], x)
  OBVIOUS
<1>4. \A x \in Good, y \in D : <<y, x>> \in R => y \in Good /\ h[y][y] = h[x][y]
  <2> SUFFICES ASSUME NEW x \in Good, NEW y \in D, <<y, x>> \in R
               PROVE  y \in Good /\ h[y][y] = h[x][y]
    OBVIOUS
  <2>1. Right(h[x], y) /\ h[x] \in [D -> S] /\ x \in D
    BY <1>2, <1>3
  <2>2. y \in Good
    BY <2>1
  <2> HIDE DEF Good, h
  <2> QED BY <1>1, <1>3, <2>1, <2>2
<1> DEFINE g == [y \in D |-> IF y \in Good THEN h[y][y] ELSE CHOOSE s \in S : TRUE]
<1>5. g \in [D -> S]
  <2>1. \A y \in Good : h[y][y] \in S
    BY <1>3
  <2> HIDE DEF Good, h
  <2> QED BY <2>1
<1>6. \A x \in Good : g[x] = F[g][x]
  <2> SUFFICES ASSUME NEW x \in Good PROVE g[x] = F[g][x]
    OBVIOUS
  <2>1. x \in D /\ h[x] \in [D -> S] /\ h[x][x] = F[h[x]][x]
    BY <1>3 DEF Right
  <2>2. \A y \in D : <<y, x>> \in R => g[y] = h[x][y]
    <3> HIDE DEF Good, h
    <3> QED BY <1>4
  <2>3. F[g][x] = F[h[x]][x]
    <3> HIDE DEF Good, h, g
    <3> QED BY <1>5, <2>1, <2>2
  <2> HIDE DEF h
  <2> QED BY <2>1, <2>3
<1>7. Good = D
  <2> SUFFICES ASSUME D \ Good # {} PROVE FALSE
    OBVIOUS
  <2>1. PICK x \in D \ Good : \A y \in D \ Good : <<y, x>> \notin R
    <3>1. D \ Good \in SUBSET D
      OBVIOUS
    <3> HIDE DEF Good
    <3> QED BY <3>1
  <2> DEFINE e == [y \in D |-> IF y = x THEN F[g][x] ELSE g[y]]
  <2>2. F[g] \in [D -> S]
    <3> HIDE DEF g
    <3> QED BY <1>5
  <2>3. e \in [D -> S]
    <3> HIDE DEF g
    <3> QED BY <1>5, <2>2
  <2>4. <<x, x>> \notin R
    BY <2>1
  <2>5. \A y \in D : <<y, x>> \in R => y \in Good /\ e[y] = g[y]
    <3> HIDE DEF Good, g
    <3> QED BY <2>1, <2>4
  <2>6. F[e][x] = F[g][x]
    <3> HIDE DEF g, e, Good
    <3> QED BY <1>5, <2>3, <2>5
  <2>7. \A y \in D : <<y, x>> \in R => F[e][y] = F[g][y]
    <3> SUFFICES ASSUME NEW y \in D, <<y, x>> \in R PROVE F[e][y] = F[g][y]
      OBVIOUS
    <3>1. \A z \in D : <<z, y>> \in R => e[z] = g[z]
      <4> HIDE DEF g, e, Good
      <4> QED BY <2>5
    <3> HIDE DEF g, e, Good
    <3> QED BY <1>5, <2>3, <3>1
  <2>8. \A y \in D : y = x \/ <<y, x>> \in R => e[y] = F[e][y]
    <3>1. e[x] = F[g][x]
      OBVIOUS
    <3> HIDE DEF g, e, Good
    <3> QED BY <1>6, <2>5, <2>6, <2>7, <3>1
  <2>9. Right(e, x)
    <3> HIDE DEF e
    <3> QED BY <2>8 DEF Right
  <2> HIDE DEF e
  <2> QED BY <2>1, <2>3, <2>9
<1>8. g = F[g]
  <2>1. F[g] \in [D -> S] /\ \A x \in D : g[x] = F[g][x]
    <3> HIDE DEF g, Good
    <3> QED BY <1>5, <1>6, <1>7
  <2> HIDE DEF g
  <2> QED BY <1>5, <2>1
<1> HIDE DEF g
<1> QED BY <1>5, <1>8

\* Where there are natural numbers there is a smallest.
LEMMA Least ==
  ASSUME NEW T \in SUBSET Nat, T # {}
  PROVE  \E n \in T : \A m \in T : n <= m
<1> DEFINE R == OpToRel(<, Nat)
<1>1. \E n \in T : \A m \in T : ~(<<m, n>> \in R)
  <2>1. IsWellFoundedOn(R, Nat)
    BY NatLessThanWellFounded
  <2> HIDE DEF R
  <2> QED BY <2>1, WFMin
<1>2. \A m, n \in Nat : <<m, n>> \in R <=> m < n
  BY DEF OpToRel
<1> HIDE DEF R
<1>3. PICK n \in T : \A m \in T : ~(<<m, n>> \in R)
  BY <1>1
<1>4. ASSUME NEW m \in T PROVE n <= m
  <2>1. m \in Nat /\ n \in Nat /\ ~(<<m, n>> \in R)
    BY <1>3
  <2>2. ~(m < n)
    BY <1>2, <2>1
  <2> QED BY <2>1, <2>2
<1> QED BY <1>3, <1>4

LEMMA LeastBy ==
  ASSUME NEW T, NEW m \in [T -> Nat], T # {}
  PROVE  \E x \in T : \A y \in T : m[x] <= m[y]
<1>1. {m[x] : x \in T} \in SUBSET Nat /\ {m[x] : x \in T} # {}
  OBVIOUS
<1>2. PICK n \in {m[x] : x \in T} : \A k \in {m[x] : x \in T} : n <= k
  BY <1>1, Least
<1> QED BY <1>2

\* A measure that is compared place by place: m first, then n, then o.
Lower(m, n, o, y, x) ==
  \/ m[y] < m[x]
  \/ m[y] = m[x] /\ n[y] < n[x]
  \/ m[y] = m[x] /\ n[y] = n[x] /\ o[y] < o[x]

LEMMA LeastByThree ==
  ASSUME NEW D, NEW m \in [D -> Nat], NEW n \in [D -> Nat], NEW o \in [D -> Nat],
         NEW T \in SUBSET D, T # {}
  PROVE  \E x \in T : \A y \in T : ~Lower(m, n, o, y, x)
<1>1. PICK a \in T : \A y \in T : m[a] <= m[y]
  <2>1. [x \in T |-> m[x]] \in [T -> Nat]
    OBVIOUS
  <2>2. PICK a \in T : \A y \in T : [x \in T |-> m[x]][a] <= [x \in T |-> m[x]][y]
    BY <2>1, LeastBy
  <2> QED BY <2>2
<1> DEFINE U == {y \in T : m[y] = m[a]}
<1>2. PICK b \in U : \A y \in U : n[b] <= n[y]
  <2>1. [x \in U |-> n[x]] \in [U -> Nat] /\ a \in U
    OBVIOUS
  <2>2. PICK b \in U : \A y \in U : [x \in U |-> n[x]][b] <= [x \in U |-> n[x]][y]
    <3> HIDE DEF U
    <3> QED BY <2>1, LeastBy
  <2> QED BY <2>2
<1> DEFINE V == {y \in U : n[y] = n[b]}
<1>3. PICK c \in V : \A y \in V : o[c] <= o[y]
  <2>1. [x \in V |-> o[x]] \in [V -> Nat] /\ b \in V
    OBVIOUS
  <2>2. PICK c \in V : \A y \in V : [x \in V |-> o[x]][c] <= [x \in V |-> o[x]][y]
    <3> HIDE DEF U, V
    <3> QED BY <2>1, LeastBy
  <2> QED BY <2>2
<1>4. ASSUME NEW y \in T PROVE ~Lower(m, n, o, y, c)
  <2>1. m[c] = m[a] /\ n[c] = n[b] /\ c \in T
    OBVIOUS
  <2>2. m[y] \in Nat /\ n[y] \in Nat /\ o[y] \in Nat /\ m[c] \in Nat /\ n[c] \in Nat /\ o[c] \in Nat
    OBVIOUS
  <2>3. m[a] <= m[y] /\ (m[y] = m[a] => n[b] <= n[y])
        /\ (m[y] = m[a] /\ n[y] = n[b] => o[c] <= o[y])
    BY <1>1, <1>2, <1>3
  <2> HIDE DEF V, U
  <2> QED BY <2>1, <2>2, <2>3 DEF Lower
<1>5. c \in T
  OBVIOUS
<1> HIDE DEF V, U
<1> QED BY <1>4, <1>5

Contracts(F, D, S, m, n, o) ==
  /\ m \in [D -> Nat] /\ n \in [D -> Nat] /\ o \in [D -> Nat]
  /\ S # {} /\ F \in [[D -> S] -> [D -> S]]
  /\ \A f, g \in [D -> S] : \A x \in D :
       (\A y \in D : Lower(m, n, o, y, x) => f[y] = g[y]) => F[f][x] = F[g][x]

\* A definition that looks only at what three numbers put lower has a solution.
LEMMA MeasuredRecursion ==
  ASSUME NEW D, NEW S, NEW m, NEW n, NEW o, NEW F, Contracts(F, D, S, m, n, o)
  PROVE  \E f \in [D -> S] : f = F[f]
<1> DEFINE R == {p \in D \X D : Lower(m, n, o, p[1], p[2])}
<1>0. m \in [D -> Nat] /\ n \in [D -> Nat] /\ o \in [D -> Nat]
  BY DEF Contracts
<1>1. \A x, y \in D : <<y, x>> \in R <=> Lower(m, n, o, y, x)
  <2> SUFFICES ASSUME NEW x \in D, NEW y \in D
               PROVE  <<y, x>> \in R <=> Lower(m, n, o, y, x)
    OBVIOUS
  <2>1. <<y, x>>[1] = y /\ <<y, x>>[2] = x /\ <<y, x>> \in D \X D
    OBVIOUS
  <2> QED BY <2>1
<1> HIDE DEF R
<1>2. \A x, y, z \in D : <<x, y>> \in R /\ <<y, z>> \in R => <<x, z>> \in R
  <2> SUFFICES ASSUME NEW x \in D, NEW y \in D, NEW z \in D,
                      Lower(m, n, o, x, y), Lower(m, n, o, y, z)
               PROVE  Lower(m, n, o, x, z)
    BY <1>1
  <2>1. /\ m[x] \in Nat /\ m[y] \in Nat /\ m[z] \in Nat
        /\ n[x] \in Nat /\ n[y] \in Nat /\ n[z] \in Nat
        /\ o[x] \in Nat /\ o[y] \in Nat /\ o[z] \in Nat
    BY <1>0
  <2> QED BY <2>1 DEF Lower
<1>3. ASSUME NEW T \in SUBSET D, T # {} PROVE \E x \in T : \A y \in T : <<y, x>> \notin R
  <2>1. PICK x \in T : \A y \in T : ~Lower(m, n, o, y, x)
    BY <1>0, <1>3, LeastByThree
  <2> QED BY <1>1, <2>1
<1>4. WellFounded(R, D)
  BY <1>2, <1>3 DEF WellFounded
<1>5. LooksBelow(F, R, D, S)
  BY <1>1 DEF LooksBelow, Contracts
<1> QED BY <1>4, <1>5, Recursion

Follows(f, g, D, m, n, o) ==
  /\ m \in [D -> Nat] /\ n \in [D -> Nat] /\ o \in [D -> Nat]
  /\ \A x \in D : (\A y \in D : Lower(m, n, o, y, x) => f[y] = g[y]) => f[x] = g[x]

\* Two functions that agree wherever they agree on all that is lower are the same.
LEMMA SameByMeasure ==
  ASSUME NEW D, NEW f, NEW g, NEW m, NEW n, NEW o, Follows(f, g, D, m, n, o)
  PROVE  \A x \in D : f[x] = g[x]
<1> DEFINE T == {x \in D : f[x] # g[x]}
<1> SUFFICES ASSUME T # {} PROVE FALSE
  OBVIOUS
<1>1. PICK x \in T : \A y \in T : ~Lower(m, n, o, y, x)
  <2>1. T \in SUBSET D /\ m \in [D -> Nat] /\ n \in [D -> Nat] /\ o \in [D -> Nat]
    BY DEF Follows
  <2> HIDE DEF T
  <2> QED BY <2>1, LeastByThree
<1> QED BY <1>1 DEF Follows

\* step[k] takes values of S to values of S.
StaysIn(S, base, step, i, n) ==
  /\ i \in Int /\ n \in Int /\ base \in S
  /\ \A k \in (i + 1)..n : \A s \in S : step[k][s] \in S

Iterated(h, S, base, step, i, n) ==
  h \in [i..n -> S] /\ \A k \in i..n : h[k] = IF k = i THEN base ELSE step[k][h[k - 1]]

\* A function that is computed from one number to the next.
LEMMA Iterates ==
  ASSUME NEW S, NEW i, NEW n, NEW base, NEW step, StaysIn(S, base, step, i, n)
  PROVE  \E h : Iterated(h, S, base, step, i, n)
<1> USE DEF StaysIn, Iterated
<1> DEFINE D == i..n
           F == [f \in [D -> S] |-> [k \in D |-> IF k = i THEN base ELSE step[k][f[k - 1]]]]
           m == [k \in D |-> k - i]
           z == [k \in D |-> 0]
<1>1. m \in [D -> Nat] /\ z \in [D -> Nat] /\ S # {}
  OBVIOUS
<1>2. F \in [[D -> S] -> [D -> S]]
  <2> SUFFICES ASSUME NEW f \in [D -> S], NEW k \in D, k # i PROVE step[k][f[k - 1]] \in S
    OBVIOUS
  <2>1. k \in i + 1..n /\ k - 1 \in D
    OBVIOUS
  <2> QED BY <2>1
<1>3. ASSUME NEW f \in [D -> S], NEW g \in [D -> S], NEW x \in D,
             \A y \in D : Lower(m, z, z, y, x) => f[y] = g[y]
      PROVE  F[f][x] = F[g][x]
  <2>1. CASE x = i
    BY <2>1
  <2>2. CASE x # i
    <3>1. x - 1 \in D /\ m[x - 1] < m[x]
      BY <2>2
    <3>2. f[x - 1] = g[x - 1]
      <4> HIDE DEF D, m, z, F
      <4> QED BY <1>3, <3>1 DEF Lower
    <3> QED BY <3>2
  <2> QED BY <2>1, <2>2
<1>4. PICK h \in [D -> S] : h = F[h]
  <2>1. Contracts(F, D, S, m, z, z)
    <3> HIDE DEF D, F, m, z
    <3> QED BY <1>1, <1>2, <1>3 DEF Contracts
  <2> HIDE DEF D, F, m, z
  <2> QED BY <2>1, MeasuredRecursion
<1> QED BY <1>4

----------------------------------------------------------------------------
(***************************************************************************)
(* FlattenSeq, which joins sequences.                                      *)
(***************************************************************************)

LEMMA Natural ==
  ASSUME NEW S, 0 \in S, \A n \in Nat : n \in S => n + 1 \in S
  PROVE  Nat \subseteq S
<1> SUFFICES ASSUME Nat \ S # {} PROVE FALSE
  OBVIOUS
<1>1. PICK n \in Nat \ S : \A m \in Nat \ S : n <= m
  BY Least
<1>2. n # 0 /\ n - 1 \in Nat
  OBVIOUS
<1>3. n - 1 \in S
  BY <1>1, <1>2
<1> QED BY <1>2, <1>3

Lists(S) == Seq(Seq(S))

LEMMA FlattenSteps ==
  ASSUME NEW S, NEW ss \in Seq(Seq(S)), Len(ss) > 0
  PROVE  \E h \in [1..Len(ss) -> Seq(S)] :
           /\ h[1] = ss[1] /\ FlattenSeq(ss) = h[Len(ss)]
           /\ \A k \in 2..Len(ss) : h[k] = h[k - 1] \o ss[k]
<1> DEFINE n == Len(ss)
           step == [k \in 2..n |-> [s \in Seq(S) |-> s \o ss[k]]]
           G(f) == [i \in 1..Len(ss) |-> IF i = 1 THEN ss[i] ELSE f[i - 1] \o ss[i]]
           flatten == CHOOSE f : f = G(f)
<1>1. \A k \in 1..n : ss[k] \in Seq(S)
  OBVIOUS
<1>2. \A k \in (1 + 1)..n : \A s \in Seq(S) : step[k][s] \in Seq(S)
  BY <1>1
<1>3. PICK h : Iterated(h, Seq(S), ss[1], step, 1, n)
  <2>1. StaysIn(Seq(S), ss[1], step, 1, n)
    BY <1>1, <1>2 DEF StaysIn
  <2> HIDE DEF step, n
  <2> QED BY <2>1, Iterates
<1>4. h = G(h)
  <2>1. \A k \in 1..n : h[k] = G(h)[k]
    <3> SUFFICES ASSUME NEW k \in 1..n, k # 1 PROVE h[k] = h[k - 1] \o ss[k]
      BY <1>3 DEF Iterated
    <3>1. k \in 2..n /\ k - 1 \in 1..n
      OBVIOUS
    <3>2. h[k - 1] \in Seq(S)
      BY <1>3, <3>1 DEF Iterated
    <3> QED BY <1>3, <3>1, <3>2 DEF Iterated
  <2> QED BY <1>3, <2>1 DEF Iterated
<1>5. FlattenSeq(ss) = flatten[Len(ss)]
  BY DEF FlattenSeq
<1>6. flatten = G(flatten)
  <2> HIDE DEF G
  <2> QED BY <1>4
<1> HIDE DEF flatten
<1>n. n \in Nat /\ \A k \in 1..n : flatten[k] = IF k = 1 THEN ss[k] ELSE flatten[k - 1] \o ss[k]
  <2>1. n \in Nat
    OBVIOUS
  <2>2. ASSUME NEW k \in 1..n PROVE flatten[k] = IF k = 1 THEN ss[k] ELSE flatten[k - 1] \o ss[k]
    <3>1. flatten[k] = G(flatten)[k]
      <4> HIDE DEF G
      <4> QED BY <1>6
    <3> QED BY <3>1
  <2> QED BY <2>1, <2>2
<1>7. \A k \in Nat : k \in 1..n => flatten[k] \in Seq(S)
  <2> DEFINE N == {k \in Nat : k \in 1..n => flatten[k] \in Seq(S)}
  <2>1. 0 \in N
    OBVIOUS
  <2>2. ASSUME NEW k \in Nat, k \in N PROVE k + 1 \in N
    <3> SUFFICES ASSUME k + 1 \in 1..n PROVE flatten[k + 1] \in Seq(S)
      OBVIOUS
    <3>1. CASE k = 0
      <4>1. flatten[1] = ss[1]
        BY <1>n
      <4> QED BY <1>1, <3>1, <4>1
    <3>2. CASE k # 0
      <4>1. k \in 1..n /\ flatten[k] \in Seq(S)
        BY <2>2, <3>2
      <4>2. flatten[k + 1] = flatten[k] \o ss[k + 1]
        <5>1. k + 1 # 1 /\ (k + 1) - 1 = k
          BY <4>1
        <5> HIDE DEF n
        <5> QED BY <1>n, <5>1
      <4> QED BY <1>1, <4>1, <4>2
    <3> QED BY <3>1, <3>2
  <2>3. Nat \subseteq N
    <3> HIDE DEF N
    <3> QED BY <2>1, <2>2, Natural
  <2> QED BY <2>3
<1>8. flatten \in [1..n -> Seq(S)]
  BY <1>6, <1>7
<1>9. flatten[1] = ss[1] /\ \A k \in 2..n : flatten[k] = flatten[k - 1] \o ss[k]
  <2>1. 1 \in 1..n /\ \A k \in 2..n : k \in 1..n /\ k # 1
    BY <1>n
  <2> HIDE DEF n
  <2> QED BY <1>n, <2>1
<1> QED BY <1>5, <1>8, <1>9

\* Joining sequences of S gives a sequence of S.
LEMMA Flatten ==
  ASSUME NEW S, NEW ss \in Lists(S)
  PROVE  /\ FlattenSeq(ss) \in Seq(S)
         /\ Range(FlattenSeq(ss)) = UNION {Range(ss[k]) : k \in DOMAIN ss}
<1> USE DEF Lists
<1>1. CASE Len(ss) = 0
  <2>1. FlattenSeq(ss) = <<>> /\ DOMAIN ss = {}
    BY <1>1 DEF FlattenSeq
  <2> QED BY <2>1 DEF Range
<1>2. CASE Len(ss) > 0
  <2> DEFINE n == Len(ss)
  <2>1. PICK h \in [1..n -> Seq(S)] :
          /\ h[1] = ss[1] /\ FlattenSeq(ss) = h[n]
          /\ \A k \in 2..n : h[k] = h[k - 1] \o ss[k]
    BY <1>2, FlattenSteps
  <2> DEFINE N == {k \in Nat : k \in 1..n => Range(h[k]) = UNION {Range(ss[j]) : j \in 1..k}}
  <2>2. 0 \in N
    OBVIOUS
  <2>3. ASSUME NEW k \in Nat, k \in N PROVE k + 1 \in N
    <3> SUFFICES ASSUME k + 1 \in 1..n
                 PROVE  Range(h[k + 1]) = UNION {Range(ss[j]) : j \in 1..k + 1}
      OBVIOUS
    <3>1. CASE k = 0
      <4>1. 1..k + 1 = {1} /\ h[k + 1] = ss[1]
        BY <2>1, <3>1
      <4> QED BY <4>1
    <3>2. CASE k # 0
      <4>1. k \in 1..n /\ Range(h[k]) = UNION {Range(ss[j]) : j \in 1..k}
        BY <2>3, <3>2
      <4>2. h[k] \in Seq(S) /\ ss[k + 1] \in Seq(S) /\ h[k + 1] = h[k] \o ss[k + 1]
        <5>1. k + 1 \in 2..n /\ (k + 1) - 1 = k
          BY <4>1
        <5>2. ss[k + 1] \in Seq(S)
          OBVIOUS
        <5>3. h[k] \in Seq(S)
          BY <4>1
        <5> QED BY <2>1, <5>1, <5>2, <5>3
      <4>3. Range(h[k] \o ss[k + 1]) = Range(h[k]) \cup Range(ss[k + 1])
        BY <4>2, RangeConcatenation
      <4>4. 1..k + 1 = 1..k \cup {k + 1}
        OBVIOUS
      <4> QED BY <4>1, <4>2, <4>3, <4>4
    <3> QED BY <3>1, <3>2
  <2>4. Nat \subseteq N
    <3> HIDE DEF N
    <3> QED BY <2>2, <2>3, Natural
  <2>5. n \in 1..n /\ n \in N /\ DOMAIN ss = 1..n
    <3>1. n \in Nat /\ n >= 1 /\ DOMAIN ss = 1..n
      BY <1>2
    <3> HIDE DEF N, n
    <3> QED BY <2>4, <3>1
  <2>6. FlattenSeq(ss) \in Seq(S)
    BY <2>1, <2>5
  <2>7. Range(FlattenSeq(ss)) = UNION {Range(ss[j]) : j \in 1..n}
    BY <2>1, <2>5
  <2> QED BY <2>5, <2>6, <2>7
<1> QED BY <1>1, <1>2

----------------------------------------------------------------------------
(***************************************************************************)
(* The calls of a script, and the scripts that calls lead to. Where every  *)
(* script of a set calls another one of it, one comes back to itself.      *)
(***************************************************************************)

LEMMA StepFacts ==
  ASSUME NEW b \in Blocks, NEW k \in DOMAIN b
  PROVE  /\ b[k] \in Steps /\ b[k] \in Range(b)
         /\ Inner(b[k]) \in Seq(Blocks)
         /\ \A i \in DOMAIN Inner(b[k]) : /\ Inner(b[k])[i] \in Blocks
                                          /\ Nesting[Inner(b[k])[i]] < Nesting[b]
<1>1. b \in Seq(Steps) /\ b[k] \in Range(b)
  BY GraphAssumption DEF Range
<1>2. b[k] \in Steps
  BY <1>1
<1>3. \A i \in DOMAIN Inner(b[k]) : /\ Inner(b[k])[i] \in Blocks
                                    /\ Nesting[Inner(b[k])[i]] < Nesting[b]
  <2>1. \A i \in DOMAIN Inner(b[k]) : Inner(b[k])[i] \in Range(Inner(b[k]))
    BY DEF Range
  <2> QED BY <1>1, <2>1, GraphAssumption
<1>4. Inner(b[k]) \in Seq(Blocks)
  <2>1. CASE b[k].do \in {"repeat", "until"}
    <3>1. Inner(b[k]) = <<b[k].steps>>
      BY <2>1 DEF Inner
    <3> QED BY <1>3, <3>1
  <2>2. CASE b[k].do \notin {"repeat", "until"} /\ b[k].do = "if"
    <3>1. Inner(b[k]) = <<b[k].then, b[k].else>>
      BY <2>2 DEF Inner
    <3> QED BY <1>3, <3>1
  <2>3. CASE b[k].do \notin {"repeat", "until"} /\ b[k].do # "if"
    <3>1. Inner(b[k]) = <<>>
      BY <2>3 DEF Inner
    <3> QED BY <3>1
  <2> QED BY <2>1, <2>2, <2>3
<1> QED BY <1>1, <1>2, <1>3, <1>4

\* The body of CallsIn.
PartCalls(f, b, k) ==
  IF b[k].do = "call" THEN <<b[k]>>
  ELSE FlattenSeq([i \in DOMAIN Inner(b[k]) |-> f[Inner(b[k])[i]]])

LEMMA PartCallsFacts ==
  ASSUME NEW f \in [Blocks -> Seq(Steps)], NEW b \in Blocks
  PROVE  /\ [k \in DOMAIN b |-> PartCalls(f, b, k)] \in Lists(Steps)
         /\ \A k \in DOMAIN b :
              Range(PartCalls(f, b, k)) =
                IF b[k].do = "call" THEN {b[k]} ELSE UNION {Range(f[i]) : i \in Range(Inner(b[k]))}
<1>1. ASSUME NEW k \in DOMAIN b
      PROVE  /\ PartCalls(f, b, k) \in Seq(Steps)
             /\ Range(PartCalls(f, b, k)) =
                  IF b[k].do = "call" THEN {b[k]} ELSE UNION {Range(f[i]) : i \in Range(Inner(b[k]))}
  <2>1. CASE b[k].do = "call"
    <3>1. PartCalls(f, b, k) = <<b[k]>> /\ b[k] \in Steps
      BY <2>1, StepFacts DEF PartCalls
    <3>2. <<b[k]>> \in Seq(Steps) /\ Range(<<b[k]>>) = {b[k]}
      BY <3>1 DEF Range
    <3> QED BY <2>1, <3>1, <3>2
  <2>2. CASE b[k].do # "call"
    <3> DEFINE ss == [i \in DOMAIN Inner(b[k]) |-> f[Inner(b[k])[i]]]
    <3>1. Inner(b[k]) \in Seq(Blocks)
      BY StepFacts
    <3>2. ss \in Lists(Steps)
      <4> DEFINE e == Inner(b[k])
      <4>1. e \in Seq(Blocks) /\ Len(e) \in Nat /\ DOMAIN e = 1..Len(e)
        BY <3>1
      <4>2. \A i \in 1..Len(e) : f[e[i]] \in Seq(Steps)
        <5> HIDE DEF e
        <5> QED BY <4>1
      <4>3. [i \in 1..Len(e) |-> f[e[i]]] \in [1..Len(e) -> Seq(Steps)]
        <5> HIDE DEF e
        <5> QED BY <4>2
      <4>4. [i \in 1..Len(e) |-> f[e[i]]] \in Seq(Seq(Steps))
        <5> HIDE DEF e
        <5> QED BY <4>1, <4>3, SeqDef
      <4> QED BY <4>1, <4>4 DEF Lists
    <3>3. FlattenSeq(ss) \in Seq(Steps)
          /\ Range(FlattenSeq(ss)) = UNION {Range(ss[i]) : i \in DOMAIN ss}
      <4> HIDE DEF ss
      <4> QED BY <3>2, Flatten
    <3>4. UNION {Range(ss[i]) : i \in DOMAIN ss} = UNION {Range(f[i]) : i \in Range(Inner(b[k]))}
      <4>1. \A i \in DOMAIN Inner(b[k]) : ss[i] = f[Inner(b[k])[i]]
        OBVIOUS
      <4>2. DOMAIN ss = DOMAIN Inner(b[k])
        OBVIOUS
      <4>3. \A i \in Range(Inner(b[k])) : \E j \in DOMAIN Inner(b[k]) : i = Inner(b[k])[j]
        BY DEF Range
      <4>4. \A j \in DOMAIN Inner(b[k]) : Inner(b[k])[j] \in Range(Inner(b[k]))
        BY DEF Range
      <4> HIDE DEF ss
      <4> QED BY <4>1, <4>2, <4>3, <4>4
    <3>5. PartCalls(f, b, k) = FlattenSeq(ss)
      BY <2>2 DEF PartCalls
    <3> HIDE DEF ss
    <3> QED BY <2>2, <3>3, <3>4, <3>5
  <2> QED BY <2>1, <2>2
<1>2. Len(b) \in Nat /\ DOMAIN b = 1..Len(b)
  <2>1. b \in Seq(Steps)
    BY GraphAssumption
  <2> QED BY <2>1
<1>3. [k \in DOMAIN b |-> PartCalls(f, b, k)] \in [1..Len(b) -> Seq(Steps)]
  BY <1>1, <1>2
<1>4. [k \in DOMAIN b |-> PartCalls(f, b, k)] \in Lists(Steps)
  BY <1>2, <1>3, SeqDef DEF Lists
<1> QED BY <1>1, <1>4

\* CallsIn has the value of its definition: the calls of a sequence's steps, and of what they contain.
LEMMA CallsInEquation ==
  /\ CallsIn \in [Blocks -> Seq(Steps)]
  /\ \A b \in Blocks : CallsIn[b] = FlattenSeq([k \in DOMAIN b |-> PartCalls(CallsIn, b, k)])
<1> DEFINE S == Seq(Steps)
           Body(f) == [b \in Blocks |-> FlattenSeq([k \in DOMAIN b |-> PartCalls(f, b, k)])]
           F == [f \in [Blocks -> S] |-> Body(f)]
           z == [b \in Blocks |-> 0]
<1>1. ASSUME NEW f \in [Blocks -> S] PROVE Body(f) \in [Blocks -> S]
  <2>1. \A b \in Blocks : FlattenSeq([k \in DOMAIN b |-> PartCalls(f, b, k)]) \in S
    BY PartCallsFacts, Flatten
  <2> QED BY <2>1
<1>2. ASSUME NEW f, NEW g, NEW b \in Blocks,
             \A a \in Blocks : Nesting[a] < Nesting[b] => f[a] = g[a]
      PROVE  Body(f)[b] = Body(g)[b]
  <2>1. ASSUME NEW k \in DOMAIN b PROVE PartCalls(f, b, k) = PartCalls(g, b, k)
    <3>1. \A i \in DOMAIN Inner(b[k]) : f[Inner(b[k])[i]] = g[Inner(b[k])[i]]
      BY <1>2, StepFacts
    <3>2. [i \in DOMAIN Inner(b[k]) |-> f[Inner(b[k])[i]]]
            = [i \in DOMAIN Inner(b[k]) |-> g[Inner(b[k])[i]]]
      BY <3>1
    <3> QED BY <3>2 DEF PartCalls
  <2>2. [k \in DOMAIN b |-> PartCalls(f, b, k)] = [k \in DOMAIN b |-> PartCalls(g, b, k)]
    BY <2>1
  <2> QED BY <2>2
<1>3. Contracts(F, Blocks, S, Nesting, z, z)
  <2>1. F \in [[Blocks -> S] -> [Blocks -> S]]
    <3> HIDE DEF Body
    <3> QED BY <1>1
  <2>2. Nesting \in [Blocks -> Nat] /\ z \in [Blocks -> Nat] /\ S # {}
    BY GraphAssumption
  <2>3. ASSUME NEW f \in [Blocks -> S], NEW g \in [Blocks -> S], NEW b \in Blocks,
               \A a \in Blocks : Lower(Nesting, z, z, a, b) => f[a] = g[a]
        PROVE  F[f][b] = F[g][b]
    <3>1. \A a \in Blocks : Nesting[a] < Nesting[b] => f[a] = g[a]
      BY <2>3 DEF Lower
    <3>2. Body(f)[b] = Body(g)[b]
      <4> HIDE DEF Body, S
      <4> QED BY <1>2, <3>1
    <3> HIDE DEF Body, S
    <3> QED BY <3>2
  <2> HIDE DEF F, z, S
  <2> QED BY <2>1, <2>2, <2>3 DEF Contracts
<1>4. PICK f \in [Blocks -> S] : f = Body(f)
  <2>1. PICK f \in [Blocks -> S] : f = F[f]
    <3> HIDE DEF F, z, S
    <3> QED BY <1>3, MeasuredRecursion
  <2> HIDE DEF Body, S
  <2> QED BY <2>1
<1>5. CallsIn = CHOOSE g : g = Body(g)
  BY DEF CallsIn, PartCalls
<1>6. CallsIn = Body(CallsIn)
  <2> HIDE DEF Body
  <2> QED BY <1>4, <1>5
<1>7. \A b \in Blocks : CallsIn[b] = f[b]
  <2>1. ASSUME NEW b \in Blocks, \A a \in Blocks : Lower(Nesting, z, z, a, b) => CallsIn[a] = f[a]
        PROVE  CallsIn[b] = f[b]
    <3>1. \A a \in Blocks : Nesting[a] < Nesting[b] => CallsIn[a] = f[a]
      BY <2>1 DEF Lower
    <3>2. Body(CallsIn)[b] = Body(f)[b]
      <4> HIDE DEF Body, S
      <4> QED BY <1>2, <3>1
    <3> HIDE DEF Body
    <3> QED BY <1>4, <1>6, <3>2
  <2>2. Follows(CallsIn, f, Blocks, Nesting, z, z)
    <3>1. Nesting \in [Blocks -> Nat] /\ z \in [Blocks -> Nat]
      BY GraphAssumption
    <3> HIDE DEF z
    <3> QED BY <2>1, <3>1 DEF Follows
  <2> HIDE DEF z
  <2> QED BY <2>2, SameByMeasure
<1>8. CallsIn = [b \in Blocks |-> CallsIn[b]]
  <2>1. Body(CallsIn) = [b \in Blocks |-> Body(CallsIn)[b]]
    OBVIOUS
  <2> HIDE DEF Body
  <2> QED BY <1>6, <2>1
<1>9. CallsIn \in [Blocks -> Seq(Steps)]
  BY <1>7, <1>8
<1>10. \A b \in Blocks : CallsIn[b] = Body(CallsIn)[b]
  <2> HIDE DEF Body
  <2> QED BY <1>6
<1> QED BY <1>9, <1>10

\* What the proofs use of CallsIn: its order only matters to what is computed.
LEMMA CallsInFacts ==
  ASSUME NEW b \in Blocks
  PROVE  /\ CallsIn[b] \in Seq(Steps)
         /\ \A c \in Range(CallsIn[b]) : c \in Steps /\ c.do = "call" /\ c.to \in STRING
         /\ \A k \in DOMAIN b : b[k].do = "call" => b[k] \in Range(CallsIn[b])
         /\ \A k \in DOMAIN b : \A i \in DOMAIN Inner(b[k]) :
              Range(CallsIn[Inner(b[k])[i]]) \subseteq Range(CallsIn[b])
<1> DEFINE Part(a) == [k \in DOMAIN a |-> PartCalls(CallsIn, a, k)]
<1>1. ASSUME NEW a \in Blocks
      PROVE  /\ CallsIn[a] \in Seq(Steps)
             /\ Range(CallsIn[a]) = UNION {Range(PartCalls(CallsIn, a, k)) : k \in DOMAIN a}
  <2>1. Part(a) \in Lists(Steps) /\ CallsIn[a] = FlattenSeq(Part(a))
    BY CallsInEquation, PartCallsFacts
  <2>2. Range(FlattenSeq(Part(a))) = UNION {Range(Part(a)[k]) : k \in DOMAIN Part(a)}
    <3> HIDE DEF Part
    <3> QED BY <2>1, Flatten
  <2>3. CallsIn[a] \in Seq(Steps)
    BY CallsInEquation
  <2> QED BY <2>1, <2>2, <2>3
<1>2. ASSUME NEW a \in Blocks, NEW k \in DOMAIN a
      PROVE  Range(PartCalls(CallsIn, a, k)) =
               IF a[k].do = "call" THEN {a[k]}
               ELSE UNION {Range(CallsIn[i]) : i \in Range(Inner(a[k]))}
  BY CallsInEquation, PartCallsFacts
<1>3. ASSUME NEW k \in DOMAIN b, b[k].do = "call" PROVE b[k] \in Range(CallsIn[b])
  BY <1>1, <1>2, <1>3
<1>4. ASSUME NEW k \in DOMAIN b, NEW i \in DOMAIN Inner(b[k])
      PROVE  Range(CallsIn[Inner(b[k])[i]]) \subseteq Range(CallsIn[b])
  <2>1. b[k].do # "call"
    <3> SUFFICES ASSUME b[k].do = "call" PROVE FALSE
      OBVIOUS
    <3>1. Inner(b[k]) = <<>>
      BY DEF Inner
    <3> QED BY <3>1
  <2>2. Inner(b[k])[i] \in Range(Inner(b[k]))
    BY DEF Range
  <2>3. Range(PartCalls(CallsIn, b, k)) = UNION {Range(CallsIn[j]) : j \in Range(Inner(b[k]))}
    BY <1>2, <2>1
  <2>4. Range(CallsIn[Inner(b[k])[i]]) \subseteq Range(PartCalls(CallsIn, b, k))
    BY <2>2, <2>3
  <2> QED BY <1>1, <2>4
\* Only calls are gathered.
<1> DEFINE Gathers(a) == \A c \in Range(CallsIn[a]) : c \in Steps /\ c.do = "call"
           T == {a \in Blocks : ~Gathers(a)}
<1>5. T = {}
  <2> SUFFICES ASSUME T # {} PROVE FALSE
    OBVIOUS
  <2>1. PICK a \in T : \A e \in T : Nesting[a] <= Nesting[e]
    <3>1. [a \in T |-> Nesting[a]] \in [T -> Nat]
      BY GraphAssumption
    <3>2. PICK a \in T : \A e \in T : [x \in T |-> Nesting[x]][a] <= [x \in T |-> Nesting[x]][e]
      <4> HIDE DEF T
      <4> QED BY <3>1, LeastBy
    <3> QED BY <3>2
  <2>2. a \in Blocks /\ ~Gathers(a)
    OBVIOUS
  <2>3. PICK c \in Range(CallsIn[a]) : ~(c \in Steps /\ c.do = "call")
    BY <2>2
  <2>4. PICK k \in DOMAIN a : c \in Range(PartCalls(CallsIn, a, k))
    <3>1. Range(CallsIn[a]) = UNION {Range(PartCalls(CallsIn, a, k)) : k \in DOMAIN a}
      <4> HIDE DEF Gathers, T
      <4> QED BY <1>1, <2>2
    <3> QED BY <2>3, <3>1
  <2>5. CASE a[k].do = "call"
    <3>1. Range(PartCalls(CallsIn, a, k)) = {a[k]}
      <4> HIDE DEF Gathers
      <4> QED BY <1>2, <2>2, <2>5
    <3>2. a[k] \in Steps
      BY <2>2, StepFacts
    <3> QED BY <2>3, <2>4, <2>5, <3>1, <3>2
  <2>6. CASE a[k].do # "call"
    <3>1. PICK i \in Range(Inner(a[k])) : c \in Range(CallsIn[i])
      BY <1>2, <2>2, <2>4, <2>6
    <3>2. PICK j \in DOMAIN Inner(a[k]) : i = Inner(a[k])[j]
      BY DEF Range
    <3>3. i \in Blocks /\ Nesting[i] < Nesting[a]
      BY <2>2, <3>2, StepFacts
    <3>4. i \in T
      BY <2>3, <3>1, <3>3
    <3>5. Nesting[i] \in Nat /\ Nesting[a] \in Nat
      BY <2>2, <3>3, GraphAssumption
    <3> HIDE DEF T
    <3> QED BY <2>1, <3>3, <3>4, <3>5
  <2> QED BY <2>5, <2>6
<1>6. \A c \in Range(CallsIn[b]) : c \in Steps /\ c.do = "call"
  BY <1>5
<1>7. \A c \in Range(CallsIn[b]) : c.to \in STRING
  BY <1>6, GraphAssumption
<1> HIDE DEF Part, Gathers, T
<1> QED BY <1>1, <1>3, <1>4, <1>6, <1>7

\* The calls of a script are those of its steps, and Callees are their ids in order.
LEMMA CalleesFacts ==
  ASSUME NEW s \in Scripts \cup {NoScript}
  PROVE  /\ s.steps \in Blocks
         /\ Callees(s) \in Seq(STRING) /\ Called(s) \subseteq STRING
         /\ Called(s) = {c.to : c \in Range(Calls(s))}
         /\ Calls(s) \in Seq(Steps)
         /\ \A c \in Range(Calls(s)) : c \in Steps /\ c.do = "call"
<1>1. s.steps \in Blocks
  <2>1. NoScript.steps = <<>>
    BY DEF NoScript
  <2> QED BY <2>1, GraphAssumption
<1>2. /\ Calls(s) \in Seq(Steps)
      /\ \A c \in Range(Calls(s)) : c \in Steps /\ c.do = "call" /\ c.to \in STRING
  BY <1>1, CallsInFacts DEF Calls
<1>3. \A k \in DOMAIN Calls(s) : Calls(s)[k] \in Range(Calls(s))
  BY DEF Range
<1>4. DOMAIN Calls(s) = 1..Len(Calls(s)) /\ Len(Calls(s)) \in Nat
  BY <1>2
<1>5. Callees(s) \in Seq(STRING)
  <2>1. Callees(s) \in [1..Len(Calls(s)) -> STRING]
    BY <1>2, <1>3, <1>4 DEF Callees
  <2> QED BY <1>4, <2>1, SeqDef
<1>6. Called(s) = {c.to : c \in Range(Calls(s))}
  BY DEF Called, Callees, Range
<1> QED BY <1>1, <1>2, <1>5, <1>6

LEMMA NoScriptCallsNothing == Calls(NoScript) = <<>> /\ Called(NoScript) = {}
<1>1. NoScript.steps = <<>> /\ <<>> \in Blocks
  BY GraphAssumption DEF NoScript
<1>2. CallsIn[<<>>] = FlattenSeq([k \in DOMAIN <<>> |-> PartCalls(CallsIn, <<>>, k)])
  BY <1>1, CallsInEquation
<1>3. [k \in DOMAIN <<>> |-> PartCalls(CallsIn, <<>>, k)] = <<>>
  OBVIOUS
<1>4. FlattenSeq(<<>>) = <<>>
  BY DEF FlattenSeq
<1>5. Calls(NoScript) = <<>>
  BY <1>1, <1>2, <1>3, <1>4 DEF Calls
<1> QED BY <1>5 DEF Called, Callees, Range

\* An id of a library has one script, which has that id.
LEMMA LibraryFacts ==
  ASSUME NEW lib, IsLibrary(lib)
  PROVE  /\ \A k \in DOMAIN lib : lib[k] \in Scripts \cup {NoScript}
         /\ \A s \in Held(lib) : s \in Scripts /\ s.id \in Ids(lib) /\ Script(lib, s.id) = s
         /\ \A id \in Ids(lib) : Script(lib, id) \in Held(lib) /\ Script(lib, id).id = id
         /\ Ids(lib) \subseteq STRING /\ IsFiniteSet(Ids(lib))
<1>1. /\ lib \in Seq(Scripts \cup {NoScript})
      /\ \A j, k \in DOMAIN lib : lib[j].id = lib[k].id => j = k \/ lib[j] = NoScript
  BY DEF IsLibrary, Libraries
<1>2. \A k \in DOMAIN lib : lib[k] \in Scripts \cup {NoScript}
  BY <1>1
<1>3. NoScript.id = "" /\ \A s \in Scripts : s.id \in STRING /\ s.id # ""
  BY GraphAssumption DEF NoScript
<1>4. ASSUME NEW s \in Held(lib)
      PROVE  s \in Scripts /\ s.id \in Ids(lib) /\ Script(lib, s.id) = s
  <2>1. PICK k \in DOMAIN lib : lib[k] = s
    BY DEF Held, Range
  <2>2. s \in Scripts /\ s # NoScript
    BY <1>2, <2>1 DEF Held
  <2>3. s.id \in Ids(lib)
    BY <1>3, <2>1, <2>2 DEF Ids
  <2>4. \A j \in DOMAIN lib : lib[j].id = s.id => lib[j] = s
    BY <1>1, <2>1, <2>2
  <2>5. Script(lib, s.id) = s
    BY <2>1, <2>4 DEF Script
  <2> QED BY <2>2, <2>3, <2>5
<1>5. ASSUME NEW id \in Ids(lib) PROVE Script(lib, id) \in Held(lib) /\ Script(lib, id).id = id
  <2>1. PICK k \in DOMAIN lib : lib[k].id = id
    BY DEF Ids
  <2>2. id # ""
    BY <1>3 DEF Ids
  <2>3. lib[k] # NoScript
    BY <1>3, <2>1, <2>2
  <2>4. lib[k] \in Held(lib)
    BY <2>3 DEF Held, Range
  <2> QED BY <1>4, <2>1, <2>4
<1>6. Ids(lib) \subseteq STRING
  BY <1>2, <1>3 DEF Ids
<1>7. IsFiniteSet(Ids(lib))
  <2>1. DOMAIN lib = 1..Len(lib) /\ Len(lib) \in Nat
    BY <1>1
  <2>2. IsFiniteSet(1..Len(lib))
    BY <2>1, FS_Interval
  <2> DEFINE f == [k \in 1..Len(lib) |-> lib[k].id]
  <2>3. f \in Surjection(1..Len(lib), Range(f))
    BY DEF Range, Surjection
  <2>4. Ids(lib) \subseteq Range(f)
    BY <2>1 DEF Ids, Range
  <2> HIDE DEF f
  <2>5. IsFiniteSet(Range(f))
    BY <2>2, <2>3, FS_Surjection
  <2> QED BY <2>4, <2>5, FS_Subset
<1> QED BY <1>2, <1>4, <1>5, <1>6, <1>7

LEMMA LibraryIds ==
  ASSUME NEW lib, IsLibrary(lib)
  PROVE  Ids(lib) \subseteq STRING \ {""}
<1>1. "" \notin Ids(lib)
  BY DEF Ids, NoScript
<1> QED BY <1>1, LibraryFacts

Leads(lib, i, j) == i \in Ids(lib) /\ j \in Called(Script(lib, i))

\* Reachable is the least set that holds what a script calls and what its members call.
LEMMA ReachableFacts ==
  ASSUME NEW lib, IsLibrary(lib), NEW id \in STRING \ {""}
  PROVE  /\ \A j : Leads(lib, id, j) => j \in Reachable(lib, id)
         /\ \A i \in Reachable(lib, id) : \A j : Leads(lib, i, j) => j \in Reachable(lib, id)
         /\ \A T : /\ \A j : Leads(lib, id, j) => j \in T
                   /\ \A i \in T : \A j : Leads(lib, i, j) => j \in T
                   => Reachable(lib, id) \subseteq T
         /\ Reachable(lib, id) \subseteq STRING
<1> DEFINE graph == CallGraph(lib)
           all == {e[2] : e \in graph}
           closed == {T \in SUBSET all : \A e \in graph : e[1] \in T \cup {id} => e[2] \in T}
<1> DEFINE From(k) == {<<lib[k].id, i>> : i \in Called(lib[k])}
<1>0. graph = UNION {From(k) : k \in DOMAIN lib}
  BY DEF CallGraph
<1>1. \A i, j : <<i, j>> \in graph <=> Leads(lib, i, j)
  <2>1. ASSUME NEW i, NEW j, <<i, j>> \in graph PROVE Leads(lib, i, j)
    <3>1. PICK k \in DOMAIN lib : <<i, j>> \in From(k)
      <4> HIDE DEF From
      <4> QED BY <1>0, <2>1
    <3>2. i = lib[k].id /\ j \in Called(lib[k])
      BY <3>1
    <3>3. lib[k] # NoScript
      BY <3>2, NoScriptCallsNothing
    <3>4. lib[k] \in Held(lib)
      BY <3>3 DEF Held, Range
    <3> QED BY <3>2, <3>4, LibraryFacts DEF Leads
  <2>2. ASSUME NEW i, NEW j, Leads(lib, i, j) PROVE <<i, j>> \in graph
    <3>1. Script(lib, i) \in Held(lib) /\ Script(lib, i).id = i /\ j \in Called(Script(lib, i))
      BY <2>2, LibraryFacts DEF Leads
    <3>2. PICK k \in DOMAIN lib : lib[k] = Script(lib, i)
      BY <3>1 DEF Held, Range
    <3>3. <<i, j>> \in From(k)
      BY <3>1, <3>2
    <3> HIDE DEF From
    <3> QED BY <1>0, <3>3
  <2> QED BY <2>1, <2>2
<1>2. \A e \in graph : e = <<e[1], e[2]>>
  <2> SUFFICES ASSUME NEW e \in graph PROVE e = <<e[1], e[2]>>
    OBVIOUS
  <2>1. PICK k \in DOMAIN lib : e \in From(k)
    <3> HIDE DEF From
    <3> QED BY <1>0
  <2>2. PICK i \in Called(lib[k]) : e = <<lib[k].id, i>>
    BY <2>1
  <2>3. <<lib[k].id, i>>[1] = lib[k].id /\ <<lib[k].id, i>>[2] = i
    OBVIOUS
  <2>4. e[1] = lib[k].id /\ e[2] = i
    BY <2>2, <2>3, Zenon
  <2> QED BY <2>2, <2>4, Zenon
<1>3. Reachable(lib, id) = {i \in all : \A T \in closed : i \in T}
  BY DEF Reachable
<1> HIDE DEF graph
<1>4. \A i, j : Leads(lib, i, j) => j \in all /\ \A T \in closed : i \in T \cup {id} => j \in T
  <2> SUFFICES ASSUME NEW i, NEW j, Leads(lib, i, j)
               PROVE  j \in all /\ \A T \in closed : i \in T \cup {id} => j \in T
    OBVIOUS
  <2>1. <<i, j>> \in graph /\ <<i, j>>[1] = i /\ <<i, j>>[2] = j
    BY <1>1
  <2> QED BY <2>1
<1>5. ASSUME NEW T, \A j : Leads(lib, id, j) => j \in T,
             \A i \in T : \A j : Leads(lib, i, j) => j \in T
      PROVE  Reachable(lib, id) \subseteq T
  <2>1. ASSUME NEW e \in graph, e[1] \in T \cup {id} PROVE e[2] \in T /\ e[2] \in all
    <3>1. Leads(lib, e[1], e[2])
      <4>1. <<e[1], e[2]>> \in graph
        <5>1. e = <<e[1], e[2]>>
          BY <1>2
        <5> QED BY <5>1, Zenon
      <4> HIDE DEF all, closed
      <4> QED BY <1>1, <4>1
    <3> QED BY <1>5, <2>1, <3>1
  <2>2. T \cap all \in closed
    BY <2>1
  <2> HIDE DEF all, closed
  <2> QED BY <1>3, <2>2
<1>6. \A j : Leads(lib, id, j) => j \in Reachable(lib, id)
  <2> HIDE DEF all, closed
  <2> QED BY <1>3, <1>4
<1>7. \A i \in Reachable(lib, id) : \A j : Leads(lib, i, j) => j \in Reachable(lib, id)
  <2> HIDE DEF all, closed
  <2> QED BY <1>3, <1>4
<1>8. Reachable(lib, id) \subseteq STRING
  <2>1. \A i, j : Leads(lib, i, j) => j \in STRING
    <3> SUFFICES ASSUME NEW i, NEW j, Leads(lib, i, j) PROVE j \in STRING
      OBVIOUS
    <3>1. Script(lib, i) \in Scripts
      BY LibraryFacts DEF Leads
    <3> QED BY <3>1, CalleesFacts DEF Leads
  <2> QED BY <1>5, <2>1
<1> QED BY <1>5, <1>6, <1>7, <1>8

\* What is reachable from what is reachable is reachable.
LEMMA ReachableIsTransitive ==
  ASSUME NEW lib, IsLibrary(lib), NEW id \in Ids(lib), NEW j \in Reachable(lib, id), j # ""
  PROVE  Reachable(lib, j) \subseteq Reachable(lib, id)
<1>1. id \in STRING \ {""} /\ j \in STRING \ {""}
  BY LibraryIds, ReachableFacts
<1>2. \A i \in Reachable(lib, id) : \A e : Leads(lib, i, e) => e \in Reachable(lib, id)
  BY <1>1, ReachableFacts
<1> QED BY <1>1, <1>2, ReachableFacts

\* Where every script of a set calls one of the set, one can be called again.
LEMMA EndlessCallsReturn ==
  ASSUME NEW lib, IsLibrary(lib), NEW Z \in SUBSET Ids(lib), Z # {},
         \A i \in Z : \E j \in Z : Leads(lib, i, j)
  PROVE  \E i \in Z : i \in Reachable(lib, i)
<1> SUFFICES ASSUME \A i \in Z : i \notin Reachable(lib, i) PROVE FALSE
  OBVIOUS
<1> DEFINE R(i) == Reachable(lib, i) \cap Ids(lib)
           m == [i \in Z |-> Cardinality(R(i))]
<1>1. \A i \in Z : i \in STRING \ {""}
  BY LibraryIds
<1>2. \A i \in Z : IsFiniteSet(R(i)) /\ Cardinality(R(i)) \in Nat
  BY LibraryFacts, FS_Subset, FS_CardinalityType
<1>3. PICK i \in Z : \A j \in Z : m[i] <= m[j]
  <2>1. m \in [Z -> Nat]
    BY <1>2
  <2> HIDE DEF m
  <2> QED BY <2>1, LeastBy
<1>4. PICK j \in Z : Leads(lib, i, j)
  OBVIOUS
<1>5. j \in R(i) /\ j \notin R(j) /\ R(j) \subseteq R(i)
  <2>1. j \in Reachable(lib, i)
    BY <1>1, <1>4, ReachableFacts
  <2>2. Reachable(lib, j) \subseteq Reachable(lib, i)
    BY <1>1, <2>1, ReachableIsTransitive
  <2> QED BY <2>1, <2>2
<1>6. Cardinality(R(j)) < Cardinality(R(i))
  <2>1. R(j) \in SUBSET R(i) /\ R(j) # R(i)
    BY <1>5
  <2> HIDE DEF R
  <2>2. Cardinality(R(j)) <= Cardinality(R(i)) /\ Cardinality(R(i)) # Cardinality(R(j))
    BY <1>2, <2>1, FS_Subset
  <2> QED BY <1>2, <2>2
<1>7. Cardinality(R(i)) <= Cardinality(R(j))
  BY <1>3
<1> HIDE DEF R
<1> QED BY <1>2, <1>6, <1>7

----------------------------------------------------------------------------
(***************************************************************************)
(* _find_cyclic_scripts: what its depth-first search finds returns to      *)
(* itself, and whatever calls a script for ever leads to one that it       *)
(* finds.                                                                  *)
(***************************************************************************)

\* P holds where it holds at everything lower.
Inductive(P, D, m, n, o) ==
  /\ m \in [D -> Nat] /\ n \in [D -> Nat] /\ o \in [D -> Nat]
  /\ \A x \in D : (\A y \in D : Lower(m, n, o, y, x) => y \in P) => x \in P

\* What is inherited from all that is lower holds everywhere.
LEMMA ByMeasure ==
  ASSUME NEW P, NEW D, NEW m, NEW n, NEW o, Inductive(P, D, m, n, o)
  PROVE  D \subseteq P
<1> DEFINE T == D \ P
<1> SUFFICES ASSUME T # {} PROVE FALSE
  OBVIOUS
<1>1. PICK x \in T : \A y \in T : ~Lower(m, n, o, y, x)
  <2>1. T \in SUBSET D /\ m \in [D -> Nat] /\ n \in [D -> Nat] /\ o \in [D -> Nat]
    BY DEF Inductive
  <2> HIDE DEF T
  <2> QED BY <2>1, LeastByThree
<1> QED BY <1>1 DEF Inductive

----------------------------------------------------------------------------
OnStack(x) == {k \in DOMAIN x.stack : x.stack[k] = Head(x.ids)}
Into(lib, x) == [ids |-> Callees(Script(lib, Head(x.ids))), stack |-> Append(x.stack, Head(x.ids)),
                 found |-> [x.found EXCEPT !.visited = @ \cup {Head(x.ids)}]]
Cycle(x) == {x.stack[k] : k \in {j \in DOMAIN x.stack : \E i \in OnStack(x) : i <= j}}
LooksAt(lib, f, x) ==
  IF Head(x.ids) \notin Ids(lib) THEN x.found
  ELSE IF OnStack(x) # {} THEN [x.found EXCEPT !.cyclic = @ \cup Cycle(x)]
  ELSE IF Head(x.ids) \in x.found.visited THEN x.found
  ELSE f[Into(lib, x)]
After(lib, f, x) == [x EXCEPT !.ids = Tail(@), !.found = LooksAt(lib, f, x)]
Visits(lib, f, x) == IF x.ids = <<>> THEN x.found ELSE f[After(lib, f, x)]

Depths(lib) == [x \in Searches |-> Cardinality(Ids(lib) \ Range(x.stack))]
Lengths == [x \in Searches |-> Len(x.ids)]
Zeros == [x \in Searches |-> 0]

LEMMA SearchMeasures ==
  ASSUME NEW lib, IsLibrary(lib)
  PROVE  /\ Depths(lib) \in [Searches -> Nat] /\ Lengths \in [Searches -> Nat]
         /\ Zeros \in [Searches -> Nat]
<1>1. \A x \in Searches : Cardinality(Ids(lib) \ Range(x.stack)) \in Nat
  <2> SUFFICES ASSUME NEW x \in Searches PROVE Cardinality(Ids(lib) \ Range(x.stack)) \in Nat
    OBVIOUS
  <2>1. Ids(lib) \ Range(x.stack) \subseteq Ids(lib)
    OBVIOUS
  <2> QED BY <2>1, LibraryFacts, FS_Subset, FS_CardinalityType
<1>2. \A x \in Searches : Len(x.ids) \in Nat
  BY DEF Searches
<1> QED BY <1>1, <1>2 DEF Depths, Lengths, Zeros

\* A search that goes into a script has more of them on its stack, and otherwise fewer ids.
LEMMA SearchesGoDown ==
  ASSUME NEW lib, IsLibrary(lib), NEW x \in Searches, x.ids # <<>>
  PROVE  /\ Head(x.ids) \in STRING
         /\ Cycle(x) \subseteq STRING
         /\ Head(x.ids) \in Ids(lib) /\ OnStack(x) = {}
              => /\ Into(lib, x) \in Searches
                 /\ Lower(Depths(lib), Lengths, Zeros, Into(lib, x), x)
         /\ \A f : LooksAt(lib, f, x) \in Found
              => /\ After(lib, f, x) \in Searches
                 /\ Lower(Depths(lib), Lengths, Zeros, After(lib, f, x), x)
<1> DEFINE id == Head(x.ids)
<1>1. /\ x.ids \in Seq(STRING) /\ x.stack \in Seq(STRING) /\ x.found \in Found
      /\ id \in STRING /\ Tail(x.ids) \in Seq(STRING) /\ Len(Tail(x.ids)) < Len(x.ids)
  BY DEF Searches
<1>2. Cycle(x) \subseteq STRING
  <2>1. \A k \in DOMAIN x.stack : x.stack[k] \in STRING
    BY <1>1
  <2> QED BY <2>1 DEF Cycle
<1>3. ASSUME id \in Ids(lib), OnStack(x) = {}
      PROVE  /\ Into(lib, x) \in Searches
             /\ Lower(Depths(lib), Lengths, Zeros, Into(lib, x), x)
  <2>1. Script(lib, id) \in Scripts
    BY <1>3, LibraryFacts
  <2>2. Callees(Script(lib, id)) \in Seq(STRING)
    BY <2>1, CalleesFacts
  <2>3. Append(x.stack, id) \in Seq(STRING)
    BY <1>1
  <2>4. [x.found EXCEPT !.visited = @ \cup {id}] \in Found
    BY <1>1 DEF Found
  <2>5. Into(lib, x) \in Searches
    BY <2>2, <2>3, <2>4 DEF Into, Searches
  <2>6. Range(Append(x.stack, id)) = Range(x.stack) \cup {id}
    <3>1. /\ Len(Append(x.stack, id)) = Len(x.stack) + 1 /\ Len(x.stack) \in Nat
          /\ \A k \in 1..Len(x.stack) : Append(x.stack, id)[k] = x.stack[k]
          /\ Append(x.stack, id)[Len(x.stack) + 1] = id
          /\ DOMAIN x.stack = 1..Len(x.stack)
          /\ DOMAIN Append(x.stack, id) = 1..Len(x.stack) + 1
      BY <1>1
    <3>2. 1..Len(x.stack) + 1 = 1..Len(x.stack) \cup {Len(x.stack) + 1}
      BY <3>1
    <3> QED BY <3>1, <3>2 DEF Range
  <2>7. id \notin Range(x.stack)
    BY <1>3 DEF OnStack, Range
  <2> DEFINE A == Ids(lib) \ Range(x.stack)
             B == Ids(lib) \ Range(Append(x.stack, id))
  <2>8. IsFiniteSet(A) /\ id \in A /\ B = A \ {id}
    <3>1. IsFiniteSet(A)
      BY LibraryFacts, FS_Subset
    <3> QED BY <1>3, <2>6, <2>7, <3>1
  <2>9. Cardinality(B) < Cardinality(A)
    <3> HIDE DEF A, B
    <3>1. Cardinality(A) \in Nat /\ Cardinality(B) = Cardinality(A) - 1
      BY <2>8, FS_CardinalityType, FS_RemoveElement
    <3> QED BY <3>1
  <2>10. Depths(lib)[Into(lib, x)] < Depths(lib)[x]
    <3>1. Into(lib, x).stack = Append(x.stack, id)
      BY DEF Into
    <3> QED BY <2>5, <2>9, <3>1 DEF Depths
  <2> QED BY <2>5, <2>10 DEF Lower
<1>4. ASSUME NEW f, LooksAt(lib, f, x) \in Found
      PROVE  /\ After(lib, f, x) \in Searches
             /\ Lower(Depths(lib), Lengths, Zeros, After(lib, f, x), x)
  <2>1. /\ After(lib, f, x) \in Searches
        /\ After(lib, f, x).stack = x.stack /\ After(lib, f, x).ids = Tail(x.ids)
    BY <1>1, <1>4 DEF After, Searches
  <2>2. Depths(lib)[After(lib, f, x)] = Depths(lib)[x] /\ Lengths[After(lib, f, x)] < Lengths[x]
    BY <1>1, <2>1 DEF Depths, Lengths
  <2> QED BY <2>1, <2>2 DEF Lower
<1> QED BY <1>1, <1>2, <1>3, <1>4

\* Visit has the value of its definition.
LEMMA VisitEquation ==
  ASSUME NEW lib, IsLibrary(lib)
  PROVE  \A x \in Searches : Visit(lib)[x] \in Found /\ Visit(lib)[x] = Visits(lib, Visit(lib), x)
<1> DEFINE Body(f) == [x \in Searches |-> Visits(lib, f, x)]
           F == [f \in [Searches -> Found] |-> Body(f)]
<1>1. ASSUME NEW f \in [Searches -> Found], NEW x \in Searches
      PROVE  Visits(lib, f, x) \in Found /\ (x.ids # <<>> => LooksAt(lib, f, x) \in Found)
  <2>1. x.found \in Found
    BY DEF Searches
  <2>2. ASSUME x.ids # <<>> PROVE LooksAt(lib, f, x) \in Found
    <3>1. CASE Head(x.ids) \in Ids(lib) /\ OnStack(x) # {}
      <4>1. Cycle(x) \subseteq STRING
        BY <2>2, SearchesGoDown
      <4>2. [x.found EXCEPT !.cyclic = @ \cup Cycle(x)] \in Found
        BY <2>1, <4>1 DEF Found
      <4> QED BY <3>1, <4>2 DEF LooksAt
    <3>2. CASE Head(x.ids) \in Ids(lib) /\ OnStack(x) = {}
      <4>1. Into(lib, x) \in Searches
        BY <2>2, <3>2, SearchesGoDown
      <4> QED BY <2>1, <3>2, <4>1 DEF LooksAt
    <3>3. CASE Head(x.ids) \notin Ids(lib)
      BY <2>1, <3>3 DEF LooksAt
    <3> QED BY <3>1, <3>2, <3>3
  <2>3. CASE x.ids # <<>>
    <3>1. LooksAt(lib, f, x) \in Found
      BY <2>2, <2>3
    <3>2. After(lib, f, x) \in Searches
      BY <2>3, <3>1, SearchesGoDown
    <3> QED BY <2>3, <3>1, <3>2 DEF Visits
  <2>4. CASE x.ids = <<>>
    BY <2>1, <2>4 DEF Visits
  <2> QED BY <2>2, <2>3, <2>4
<1> DEFINE Agree(f, g, x) == \A y \in Searches : Lower(Depths(lib), Lengths, Zeros, y, x) => f[y] = g[y]
<1>2. ASSUME NEW f \in [Searches -> Found], NEW g, NEW x \in Searches, Agree(f, g, x)
      PROVE  Visits(lib, f, x) = Visits(lib, g, x)
  <2>1. CASE x.ids = <<>>
    BY <2>1 DEF Visits
  <2>2. CASE x.ids # <<>>
    <3>1. LooksAt(lib, f, x) = LooksAt(lib, g, x)
      <4>1. CASE Head(x.ids) \in Ids(lib) /\ OnStack(x) = {}
        <5>1. f[Into(lib, x)] = g[Into(lib, x)]
          BY <1>2, <2>2, <4>1, SearchesGoDown
        <5> QED BY <4>1, <5>1 DEF LooksAt
      <4>2. CASE ~(Head(x.ids) \in Ids(lib) /\ OnStack(x) = {})
        BY <4>2 DEF LooksAt
      <4> QED BY <4>1, <4>2
    <3>2. After(lib, f, x) = After(lib, g, x)
      BY <3>1 DEF After
    <3>3. LooksAt(lib, f, x) \in Found
      BY <1>1, <2>2
    <3>4. f[After(lib, f, x)] = g[After(lib, f, x)]
      BY <1>2, <2>2, <3>3, SearchesGoDown
    <3> QED BY <2>2, <3>2, <3>4 DEF Visits
  <2> QED BY <2>1, <2>2
<1>3. Contracts(F, Searches, Found, Depths(lib), Lengths, Zeros)
  <2>1. Found # {}
    <3>1. [visited |-> {}, cyclic |-> {}] \in Found
      BY DEF Found
    <3> QED BY <3>1
  <2>2. F \in [[Searches -> Found] -> [Searches -> Found]]
    BY <1>1
  <2>3. ASSUME NEW f \in [Searches -> Found], NEW g \in [Searches -> Found], NEW x \in Searches,
               \A y \in Searches : Lower(Depths(lib), Lengths, Zeros, y, x) => f[y] = g[y]
        PROVE  F[f][x] = F[g][x]
    <3>1. Visits(lib, f, x) = Visits(lib, g, x)
      BY <1>2, <2>3
    <3> QED BY <3>1
  <2> HIDE DEF F
  <2> QED BY <2>1, <2>2, <2>3, SearchMeasures DEF Contracts
<1>4. PICK h \in [Searches -> Found] : h = Body(h)
  <2>1. PICK h \in [Searches -> Found] : h = F[h]
    <3> HIDE DEF F
    <3> QED BY <1>3, MeasuredRecursion
  <2> HIDE DEF Body
  <2> QED BY <2>1
<1>5. Visit(lib) = CHOOSE f : f = Body(f)
  BY DEF Visit, Visits, After, LooksAt, Into, OnStack, Cycle
<1>6. Visit(lib) = Body(Visit(lib))
  <2> HIDE DEF Body
  <2> QED BY <1>4, <1>5
<1>7. \A x \in Searches : h[x] = Visits(lib, h, x) /\ Visit(lib)[x] = Visits(lib, Visit(lib), x)
  <2>1. \A x \in Searches : h[x] = Body(h)[x] /\ Visit(lib)[x] = Body(Visit(lib))[x]
    <3> HIDE DEF Body
    <3> QED BY <1>4, <1>6
  <2> QED BY <2>1
<1> HIDE DEF Body, F
<1>8. Follows(h, Visit(lib), Searches, Depths(lib), Lengths, Zeros)
  <2>1. ASSUME NEW x \in Searches, Agree(h, Visit(lib), x)
        PROVE  h[x] = Visit(lib)[x]
    <3>1. Visits(lib, h, x) = Visits(lib, Visit(lib), x)
      <4> HIDE DEF Agree
      <4> QED BY <1>2, <2>1
    <3> QED BY <1>7, <3>1
  <2> QED BY <2>1, SearchMeasures DEF Follows
<1>9. \A x \in Searches : h[x] = Visit(lib)[x]
  BY <1>8, SameByMeasure
<1> QED BY <1>7, <1>9

\* What a search does with its first id: f is Visit(lib).
LEMMA VisitFacts ==
  ASSUME NEW lib, IsLibrary(lib), NEW x \in Searches
  PROVE  LET v == Visit(lib)
         IN /\ v[x] \in Found
            /\ x.ids = <<>> => v[x] = x.found
            /\ x.ids # <<>> =>
                 /\ v[x] = v[After(lib, v, x)] /\ After(lib, v, x) \in Searches
                 /\ Lower(Depths(lib), Lengths, Zeros, After(lib, v, x), x)
                 /\ LooksAt(lib, v, x) \in Found
<1> DEFINE v == Visit(lib)
<1> HIDE DEF v
<1>1. \A y \in Searches : v[y] \in Found /\ v[y] = Visits(lib, v, y)
  BY VisitEquation DEF v
<1>2. ASSUME x.ids # <<>> PROVE LooksAt(lib, v, x) \in Found
  <2>1. x.found \in Found
    BY DEF Searches
  <2>2. CASE Head(x.ids) \in Ids(lib) /\ OnStack(x) # {}
    <3>1. Cycle(x) \subseteq STRING
      BY <1>2, SearchesGoDown
    <3>2. [x.found EXCEPT !.cyclic = @ \cup Cycle(x)] \in Found
      BY <2>1, <3>1 DEF Found
    <3> QED BY <2>2, <3>2 DEF LooksAt
  <2>3. CASE Head(x.ids) \in Ids(lib) /\ OnStack(x) = {}
    BY <1>1, <1>2, <2>1, <2>3, SearchesGoDown DEF LooksAt
  <2>4. CASE Head(x.ids) \notin Ids(lib)
    BY <2>1, <2>4 DEF LooksAt
  <2> QED BY <2>2, <2>3, <2>4
<1>3. /\ x.ids = <<>> => v[x] = x.found
      /\ x.ids # <<>> => v[x] = v[After(lib, v, x)]
  BY <1>1 DEF Visits
<1>4. x.ids # <<>> => /\ After(lib, v, x) \in Searches
                      /\ Lower(Depths(lib), Lengths, Zeros, After(lib, v, x), x)
  BY <1>2, SearchesGoDown
<1> QED BY <1>1, <1>2, <1>3, <1>4 DEF v

Grows(found, later) == found.visited \subseteq later.visited /\ found.cyclic \subseteq later.cyclic

\* A search keeps what was found, and what it visits stays visited.
LEMMA SearchGrows ==
  ASSUME NEW lib, IsLibrary(lib), NEW x \in Searches
  PROVE  /\ Grows(x.found, Visit(lib)[x])
         /\ x.ids # <<>> => Grows(x.found, LooksAt(lib, Visit(lib), x))
<1> DEFINE v == Visit(lib)
           P == {y \in Searches : Grows(y.found, v[y])}
<1>1. ASSUME NEW y \in Searches, y.ids # <<>>,
             \A z \in Searches : Lower(Depths(lib), Lengths, Zeros, z, y) => Grows(z.found, v[z])
      PROVE  Grows(y.found, LooksAt(lib, v, y))
  <2>1. CASE Head(y.ids) \in Ids(lib) /\ OnStack(y) # {}
    <3>1. LooksAt(lib, v, y) = [y.found EXCEPT !.cyclic = @ \cup Cycle(y)]
      BY <2>1 DEF LooksAt
    <3>2. y.found \in Found
      BY DEF Searches
    <3> HIDE DEF v
    <3> QED BY <3>1, <3>2 DEF Grows, Found
  <2>2. CASE Head(y.ids) \in Ids(lib) /\ OnStack(y) = {} /\ Head(y.ids) \notin y.found.visited
    <3>1. LooksAt(lib, v, y) = v[Into(lib, y)]
      BY <2>2 DEF LooksAt
    <3>2. Grows(Into(lib, y).found, v[Into(lib, y)])
      BY <1>1, <2>2, SearchesGoDown
    <3>3. /\ Into(lib, y).found.visited = y.found.visited \cup {Head(y.ids)}
          /\ Into(lib, y).found.cyclic = y.found.cyclic
      <4>1. y.found \in Found
        BY DEF Searches
      <4> QED BY <4>1 DEF Into, Found
    <3> HIDE DEF v
    <3> QED BY <3>1, <3>2, <3>3 DEF Grows
  <2>3. CASE Head(y.ids) \notin Ids(lib) \/ (OnStack(y) = {} /\ Head(y.ids) \in y.found.visited)
    BY <2>3 DEF LooksAt, Grows
  <2> QED BY <2>1, <2>2, <2>3
<1>2. ASSUME NEW y \in Searches,
             \A z \in Searches : Lower(Depths(lib), Lengths, Zeros, z, y) => z \in P
      PROVE  y \in P
  <2>1. CASE y.ids = <<>>
    BY <2>1, VisitFacts DEF Grows
  <2>2. CASE y.ids # <<>>
    <3>1. /\ v[y] = v[After(lib, v, y)] /\ After(lib, v, y) \in Searches
          /\ Lower(Depths(lib), Lengths, Zeros, After(lib, v, y), y)
      BY <2>2, VisitFacts
    <3>2. After(lib, v, y).found = LooksAt(lib, v, y)
      BY DEF After, Searches
    <3>3. Grows(y.found, LooksAt(lib, v, y))
      BY <1>1, <1>2, <2>2
    <3>4. Grows(LooksAt(lib, v, y), v[y])
      BY <1>2, <3>1, <3>2
    <3> HIDE DEF v
    <3> QED BY <3>3, <3>4 DEF Grows
  <2> QED BY <2>1, <2>2
<1>3. Searches \subseteq P
  <2>1. Inductive(P, Searches, Depths(lib), Lengths, Zeros)
    <3> HIDE DEF P
    <3> QED BY <1>2, SearchMeasures DEF Inductive
  <2> HIDE DEF P
  <2> QED BY <2>1, ByMeasure
<1> QED BY <1>1, <1>3

----------------------------------------------------------------------------
Endless(lib, Z) == Z \subseteq Ids(lib) /\ \A i \in Z : \E j \in Z : Leads(lib, i, j)

IsPath(lib, x) ==
  /\ \A k \in DOMAIN x.stack : x.stack[k] \in Ids(lib)
  /\ \A k \in DOMAIN x.stack : k + 1 \in DOMAIN x.stack => Leads(lib, x.stack[k], x.stack[k + 1])
  /\ Len(x.stack) > 0 => \A i \in Range(x.ids) : Leads(lib, x.stack[Len(x.stack)], i)

\* The stack of a search is a path of calls, so what closes it is a cycle.
LEMMA PathsGoOn ==
  ASSUME NEW lib, IsLibrary(lib), NEW x \in Searches, x.ids # <<>>, IsPath(lib, x)
  PROVE  /\ \A f : IsPath(lib, After(lib, f, x))
         /\ Head(x.ids) \in Ids(lib) => IsPath(lib, Into(lib, x))
         /\ Head(x.ids) \in Ids(lib) => Endless(lib, Cycle(x))
<1> DEFINE id == Head(x.ids)
           n == Len(x.stack)
<1>1. /\ x.ids \in Seq(STRING) /\ x.stack \in Seq(STRING) /\ n \in Nat
      /\ DOMAIN x.stack = 1..n
  BY DEF Searches
<1>2. Range(Tail(x.ids)) \subseteq Range(x.ids) /\ id \in Range(x.ids)
  <2>1. /\ DOMAIN x.ids = 1..Len(x.ids) /\ DOMAIN Tail(x.ids) = 1..Len(x.ids) - 1
        /\ Len(x.ids) \in Nat /\ 1 \in DOMAIN x.ids /\ id = x.ids[1]
        /\ \A k \in 1..Len(x.ids) - 1 : Tail(x.ids)[k] = x.ids[k + 1]
    BY <1>1
  <2>2. \A k \in 1..Len(x.ids) - 1 : k + 1 \in 1..Len(x.ids)
    BY <2>1
  <2> QED BY <2>1, <2>2 DEF Range
<1>3. ASSUME NEW f PROVE IsPath(lib, After(lib, f, x))
  <2>1. After(lib, f, x).stack = x.stack /\ After(lib, f, x).ids = Tail(x.ids)
    BY DEF After, Searches
  <2> QED BY <1>2, <2>1 DEF IsPath
<1>4. ASSUME id \in Ids(lib) PROVE IsPath(lib, Into(lib, x))
  <2> DEFINE s == Append(x.stack, id)
  <2>1. /\ DOMAIN s = 1..n + 1 /\ Len(s) = n + 1 /\ s[n + 1] = id
        /\ \A k \in 1..n : s[k] = x.stack[k]
    BY <1>1
  <2>2. \A i \in Range(Callees(Script(lib, id))) : Leads(lib, id, i)
    BY <1>4 DEF Leads, Called
  <2>3. \A k \in 1..n : k + 1 \in 1..n => Leads(lib, x.stack[k], x.stack[k + 1])
    BY <1>1 DEF IsPath
  <2>4. n > 0 => Leads(lib, x.stack[n], id)
    BY <1>2 DEF IsPath
  <2>5. \A k \in 1..n : x.stack[k] \in Ids(lib)
    BY <1>1 DEF IsPath
  <2>6. Into(lib, x).stack = s /\ Into(lib, x).ids = Callees(Script(lib, id))
    BY DEF Into
  <2> HIDE DEF s, n
  <2>7. ASSUME NEW k \in 1..n + 1
        PROVE  s[k] \in Ids(lib) /\ (k + 1 \in 1..n + 1 => Leads(lib, s[k], s[k + 1]))
    <3>1. CASE k = n + 1
      BY <1>1, <1>4, <2>1, <3>1
    <3>2. CASE k = n
      BY <1>1, <2>1, <2>4, <2>5, <3>2
    <3>3. CASE k < n
      <4>1. k \in 1..n /\ k + 1 \in 1..n
        BY <1>1, <3>3
      <4> QED BY <2>1, <2>3, <2>5, <4>1
    <3> QED BY <1>1, <3>1, <3>2, <3>3
  <2> QED BY <1>1, <2>1, <2>2, <2>6, <2>7 DEF IsPath
<1>5. ASSUME id \in Ids(lib), NEW e \in Cycle(x)
      PROVE  e \in Ids(lib) /\ \E j \in Cycle(x) : Leads(lib, e, j)
  <2>1. PICK k \in 1..n, i \in OnStack(x) : e = x.stack[k] /\ i <= k
    BY <1>1 DEF Cycle
  <2>2. i \in 1..n /\ x.stack[i] = id
    BY <1>1, <2>1 DEF OnStack
  <2>3. CASE k = n
    <3>1. Leads(lib, x.stack[n], id)
      BY <1>1, <1>2, <2>1, <2>3 DEF IsPath
    <3>2. id \in Cycle(x)
      <4>1. i \in DOMAIN x.stack /\ i <= i
        BY <1>1, <2>2
      <4> QED BY <2>1, <2>2, <4>1 DEF Cycle
    <3> QED BY <1>1, <2>1, <2>3, <3>1, <3>2 DEF Leads
  <2>4. CASE k # n
    <3>1. k + 1 \in 1..n /\ i <= k + 1
      BY <1>1, <2>1, <2>2, <2>4
    <3>2. x.stack[k + 1] \in Cycle(x)
      BY <1>1, <2>1, <3>1 DEF Cycle
    <3>3. Leads(lib, x.stack[k], x.stack[k + 1])
      BY <1>1, <3>1 DEF IsPath
    <3> QED BY <2>1, <3>2, <3>3 DEF Leads
  <2> QED BY <2>3, <2>4
<1> QED BY <1>3, <1>4, <1>5 DEF Endless

\* Every script that a search reports calls one that it reports.
LEMMA SearchIsSound ==
  ASSUME NEW lib, IsLibrary(lib)
  PROVE  \A x \in Searches : IsPath(lib, x) /\ Endless(lib, x.found.cyclic)
                               => Endless(lib, Visit(lib)[x].cyclic)
<1> DEFINE v == Visit(lib)
           Good(x) == IsPath(lib, x) /\ Endless(lib, x.found.cyclic) => Endless(lib, v[x].cyclic)
           P == {y \in Searches : Good(y)}
<1>1. ASSUME NEW y \in Searches, IsPath(lib, y), Endless(lib, y.found.cyclic),
             \A z \in Searches : Lower(Depths(lib), Lengths, Zeros, z, y) => Good(z)
      PROVE  Endless(lib, v[y].cyclic)
  <2>1. CASE y.ids = <<>>
    BY <1>1, <2>1, VisitFacts
  <2>2. CASE y.ids # <<>>
    <3>1. /\ v[y] = v[After(lib, v, y)] /\ After(lib, v, y) \in Searches
          /\ Lower(Depths(lib), Lengths, Zeros, After(lib, v, y), y)
      BY <2>2, VisitFacts
    <3>2. After(lib, v, y).found = LooksAt(lib, v, y) /\ IsPath(lib, After(lib, v, y))
      BY <1>1, <2>2, PathsGoOn DEF After, Searches
    <3>3. y.found \in Found
      BY DEF Searches
    <3>4. Endless(lib, LooksAt(lib, v, y).cyclic)
      <4>1. CASE Head(y.ids) \in Ids(lib) /\ OnStack(y) # {}
        <5>1. LooksAt(lib, v, y).cyclic = y.found.cyclic \cup Cycle(y)
          BY <3>3, <4>1 DEF LooksAt, Found
        <5>2. Endless(lib, Cycle(y))
          BY <1>1, <2>2, <4>1, PathsGoOn
        <5> HIDE DEF v
        <5> QED BY <1>1, <5>1, <5>2 DEF Endless
      <4>2. CASE Head(y.ids) \in Ids(lib) /\ OnStack(y) = {} /\ Head(y.ids) \notin y.found.visited
        <5>1. LooksAt(lib, v, y) = v[Into(lib, y)]
          BY <4>2 DEF LooksAt
        <5>2. Into(lib, y).found.cyclic = y.found.cyclic
          BY <3>3 DEF Into, Found
        <5>3. IsPath(lib, Into(lib, y)) /\ Into(lib, y) \in Searches
              /\ Lower(Depths(lib), Lengths, Zeros, Into(lib, y), y)
          BY <1>1, <2>2, <4>2, PathsGoOn, SearchesGoDown
        <5> QED BY <1>1, <5>1, <5>2, <5>3
      <4>3. CASE Head(y.ids) \notin Ids(lib) \/ (OnStack(y) = {} /\ Head(y.ids) \in y.found.visited)
        BY <1>1, <4>3 DEF LooksAt
      <4> QED BY <4>1, <4>2, <4>3
    <3> QED BY <1>1, <3>1, <3>2, <3>4
  <2> QED BY <2>1, <2>2
<1>2. Searches \subseteq P
  <2>1. ASSUME NEW y \in Searches,
               \A z \in Searches : Lower(Depths(lib), Lengths, Zeros, z, y) => z \in P
        PROVE  y \in P
    BY <1>1, <2>1
  <2>2. Inductive(P, Searches, Depths(lib), Lengths, Zeros)
    <3> HIDE DEF P
    <3> QED BY <2>1, SearchMeasures DEF Inductive
  <2> HIDE DEF P
  <2> QED BY <2>2, ByMeasure
<1> QED BY <1>2

LEMMA RangeOfTail ==
  ASSUME NEW S, NEW s \in Seq(S), s # <<>>
  PROVE  Range(s) = {Head(s)} \cup Range(Tail(s))
<1> DEFINE t == Tail(s)
           h == Head(s)
<1>1. /\ Len(s) \in Nat /\ Len(s) > 0 /\ DOMAIN s = 1..Len(s) /\ h = s[1]
      /\ DOMAIN t = 1..Len(s) - 1 /\ \A k \in 1..Len(s) - 1 : t[k] = s[k + 1]
  OBVIOUS
<1> HIDE DEF t, h
<1>2. \A k \in 1..Len(s) : k = 1 \/ (k - 1 \in 1..Len(s) - 1 /\ s[k] = t[k - 1])
  BY <1>1
<1>3. \A k \in 1..Len(s) - 1 : k + 1 \in 1..Len(s)
  BY <1>1
<1>4. 1 \in 1..Len(s)
  BY <1>1
<1>5. Range(s) \subseteq {h} \cup Range(t)
  BY <1>1, <1>2 DEF Range
<1>6. h \in Range(s)
  BY <1>1, <1>4 DEF Range
<1>7. Range(t) \subseteq Range(s)
  BY <1>1, <1>3 DEF Range
<1> QED BY <1>5, <1>6, <1>7 DEF h, t

LEMMA RangeOfAppend ==
  ASSUME NEW S, NEW s \in Seq(S), NEW e \in S
  PROVE  Range(Append(s, e)) = Range(s) \cup {e}
<1>1. /\ Len(Append(s, e)) = Len(s) + 1 /\ Len(s) \in Nat
      /\ \A k \in 1..Len(s) : Append(s, e)[k] = s[k]
      /\ Append(s, e)[Len(s) + 1] = e
      /\ DOMAIN s = 1..Len(s)
      /\ DOMAIN Append(s, e) = 1..Len(s) + 1
  OBVIOUS
<1>2. 1..Len(s) + 1 = 1..Len(s) \cup {Len(s) + 1}
  BY <1>1
<1> QED BY <1>1, <1>2 DEF Range

\* No call leads out of B, other than to where there is nothing, and none back.
Closed(lib, B) == \A i \in B : /\ i \notin Reachable(lib, i)
                               /\ \A j \in Ids(lib) : Leads(lib, i, j) => j \in B

\* What the search is done with.
Done(x) == x.found.visited \ Range(x.stack)

Searched(lib, x) ==
  /\ x.found.visited \subseteq Ids(lib) /\ Range(x.stack) \subseteq x.found.visited
  /\ Closed(lib, Done(x))

SearchedTo(lib, x, found) ==
  /\ found.visited \subseteq Ids(lib)
  /\ Closed(lib, found.visited \ Range(x.stack))
  /\ Range(x.ids) \cap Ids(lib) \subseteq found.visited \ Range(x.stack)

\* With what is called by it, a script is done with.
LEMMA ClosedWith ==
  ASSUME NEW lib, IsLibrary(lib), NEW B \in SUBSET Ids(lib), Closed(lib, B), NEW id \in Ids(lib) \ B,
         Called(Script(lib, id)) \cap Ids(lib) \subseteq B
  PROVE  Closed(lib, B \cup {id})
<1>1. id \notin Reachable(lib, id)
  <2> DEFINE T == B \cup (STRING \ Ids(lib))
  <2>1. \A i, j : Leads(lib, i, j) => i \in Ids(lib) /\ j \in STRING
    <3> SUFFICES ASSUME NEW i, NEW j, Leads(lib, i, j) PROVE i \in Ids(lib) /\ j \in STRING
      OBVIOUS
    <3>1. i \in Ids(lib) /\ j \in Called(Script(lib, i))
      BY DEF Leads
    <3>2. Script(lib, i) \in Scripts
      BY <3>1, LibraryFacts
    <3> QED BY <3>1, <3>2, CalleesFacts
  <2>2. \A j : Leads(lib, id, j) => j \in T
    BY <2>1 DEF Leads
  <2>3. \A i \in T : \A j : Leads(lib, i, j) => j \in T
    BY <2>1 DEF Closed
  <2>4. id \in STRING \ {""} /\ id \notin T
    BY LibraryIds
  <2> HIDE DEF T
  <2> QED BY <2>2, <2>3, <2>4, ReachableFacts
<1>2. \A j \in Ids(lib) : Leads(lib, id, j) => j \in B
  BY DEF Leads
<1> QED BY <1>1, <1>2 DEF Closed

\* If it reports nothing, there is nothing to report.
LEMMA SearchIsComplete ==
  ASSUME NEW lib, IsLibrary(lib)
  PROVE  \A x \in Searches : Visit(lib)[x].cyclic = {} /\ Searched(lib, x)
                               => SearchedTo(lib, x, Visit(lib)[x])
<1> DEFINE v == Visit(lib)
           Good(x) == v[x].cyclic = {} /\ Searched(lib, x) => SearchedTo(lib, x, v[x])
           P == {y \in Searches : Good(y)}
<1>1. ASSUME NEW y \in Searches, v[y].cyclic = {}, Searched(lib, y),
             \A z \in Searches : Lower(Depths(lib), Lengths, Zeros, z, y) => Good(z)
      PROVE  SearchedTo(lib, y, v[y])
  <2>0. y.found \in Found /\ y.ids \in Seq(STRING) /\ y.stack \in Seq(STRING)
    BY DEF Searches
  <2>1. CASE y.ids = <<>>
    <3>1. v[y] = y.found /\ Range(y.ids) = {}
      BY <2>1, VisitFacts DEF Range
    <3> HIDE DEF v
    <3> QED BY <1>1, <3>1 DEF Searched, SearchedTo, Done
  <2>2. CASE y.ids # <<>>
    <3> DEFINE id == Head(y.ids)
               found == LooksAt(lib, v, y)
               next == After(lib, v, y)
    <3>1. /\ v[y] = v[next] /\ next \in Searches
          /\ Lower(Depths(lib), Lengths, Zeros, next, y)
          /\ found \in Found
      BY <2>2, VisitFacts
    <3>2. next.found = found /\ next.stack = y.stack /\ next.ids = Tail(y.ids)
      BY DEF After, Searches
    <3>3. found.cyclic = {} /\ y.found.cyclic = {} /\ y.found.visited \subseteq found.visited
          /\ found.visited \subseteq v[y].visited
      <4>1. Grows(y.found, found) /\ Grows(found, v[next])
        BY <2>2, <3>1, <3>2, SearchGrows
      <4> HIDE DEF v, found, next
      <4> QED BY <1>1, <3>1, <4>1 DEF Grows
    <3>4. /\ Searched(lib, next)
          /\ id \in Ids(lib) => id \in found.visited \ Range(y.stack)
      <4>1. CASE id \notin Ids(lib)
        <5>1. found = y.found
          BY <4>1 DEF LooksAt
        <5> HIDE DEF v, found, next
        <5> QED BY <1>1, <3>2, <4>1, <5>1 DEF Searched, Done
      <4>2. CASE id \in Ids(lib) /\ OnStack(y) # {}
        <5>1. found.cyclic = y.found.cyclic \cup Cycle(y)
          BY <2>0, <4>2 DEF LooksAt, Found
        <5>2. PICK k \in OnStack(y) : TRUE
          BY <4>2
        <5>3. k \in DOMAIN y.stack /\ k <= k
          BY <2>0, <5>2 DEF OnStack
        <5>4. y.stack[k] \in Cycle(y)
          BY <5>2, <5>3 DEF Cycle
        <5> HIDE DEF v, found, next
        <5> QED BY <3>3, <5>1, <5>4
      <4>3. CASE id \in Ids(lib) /\ OnStack(y) = {} /\ id \in y.found.visited
        <5>1. found = y.found
          BY <4>3 DEF LooksAt
        <5>2. id \notin Range(y.stack)
          BY <4>3 DEF OnStack, Range
        <5> HIDE DEF v, found, next
        <5> QED BY <1>1, <3>2, <4>3, <5>1, <5>2 DEF Searched, Done
      <4>4. CASE id \in Ids(lib) /\ OnStack(y) = {} /\ id \notin y.found.visited
        <5> DEFINE in == Into(lib, y)
        <5>1. found = v[in]
          BY <4>4 DEF LooksAt
        <5>2. in \in Searches /\ Lower(Depths(lib), Lengths, Zeros, in, y)
          BY <2>2, <4>4, SearchesGoDown
        <5>3. /\ in.found.visited = y.found.visited \cup {id}
              /\ in.ids = Callees(Script(lib, id)) /\ in.stack = Append(y.stack, id)
          <6>1. in.found = [y.found EXCEPT !.visited = @ \cup {id}]
            BY DEF Into
          <6>2. in.ids = Callees(Script(lib, id)) /\ in.stack = Append(y.stack, id)
            BY DEF Into
          <6> HIDE DEF in, id
          <6> QED BY <2>0, <6>1, <6>2 DEF Found
        <5>4. Range(in.stack) = Range(y.stack) \cup {id}
          <6>1. id \in STRING
            BY <2>0, <2>2
          <6> HIDE DEF in, id
          <6> QED BY <2>0, <5>3, <6>1, RangeOfAppend
        <5>5. Done(in) = Done(y) /\ Searched(lib, in)
          <6> HIDE DEF in
          <6>1. Done(in) = Done(y)
            BY <1>1, <4>4, <5>3, <5>4 DEF Done, Searched
          <6> QED BY <1>1, <4>4, <5>3, <5>4, <6>1 DEF Searched
        <5>6. SearchedTo(lib, in, v[in])
          BY <1>1, <3>3, <5>1, <5>2, <5>5
        <5>7. id \in found.visited /\ id \notin Range(y.stack)
          <6>1. in.found.visited \subseteq v[in].visited
            BY <5>2, SearchGrows DEF Grows
          <6>2. id \notin Range(y.stack)
            BY <4>4 DEF OnStack, Range
          <6> HIDE DEF in, v, found
          <6> QED BY <5>1, <5>3, <6>1, <6>2
        <5> DEFINE B == found.visited \ Range(in.stack)
        <5>8. found.visited \ Range(y.stack) = B \cup {id} /\ id \notin B
          <6> HIDE DEF in, v, found, next
          <6> QED BY <5>4, <5>7
        <5>9. B \subseteq Ids(lib) /\ Closed(lib, B) /\ Called(Script(lib, id)) \cap Ids(lib) \subseteq B
          <6> HIDE DEF in, v, found, next
          <6> QED BY <5>1, <5>3, <5>6 DEF SearchedTo, Called
        <5>10. Closed(lib, B \cup {id})
          <6> HIDE DEF B, in, v, found, next
          <6> QED BY <4>4, <5>8, <5>9, ClosedWith
        <5>11. found.visited \subseteq Ids(lib) /\ Range(y.stack) \subseteq found.visited
          <6> HIDE DEF in, v, found, next
          <6> QED BY <1>1, <3>3, <5>1, <5>6 DEF SearchedTo, Searched
        <5> HIDE DEF in, B, v, found, next
        <5> QED BY <3>2, <5>7, <5>8, <5>10, <5>11 DEF Searched, Done
      <4> HIDE DEF v, found, next
      <4> QED BY <4>1, <4>2, <4>3, <4>4
    <3>5. SearchedTo(lib, next, v[next])
      BY <1>1, <3>1, <3>4
    <3>6. Range(y.ids) = {id} \cup Range(Tail(y.ids))
      BY <2>0, <2>2, RangeOfTail
    <3> HIDE DEF v, found, next, id
    <3> QED BY <3>1, <3>2, <3>3, <3>4, <3>5, <3>6 DEF SearchedTo
  <2> QED BY <2>1, <2>2
<1>2. Searches \subseteq P
  <2>1. ASSUME NEW y \in Searches,
               \A z \in Searches : Lower(Depths(lib), Lengths, Zeros, z, y) => z \in P
        PROVE  y \in P
    BY <1>1, <2>1
  <2>2. Inductive(P, Searches, Depths(lib), Lengths, Zeros)
    <3> HIDE DEF P
    <3> QED BY <2>1, SearchMeasures DEF Inductive
  <2> HIDE DEF P
  <2> QED BY <2>2, ByMeasure
<1> QED BY <1>2

\* What FindCyclicScripts reports: scripts that call each other for ever, and
\* something if anything does.
LEMMA CyclesFound ==
  ASSUME NEW lib, IsLibrary(lib)
  PROVE  /\ Endless(lib, FindCyclicScripts(lib))
         /\ FindCyclicScripts(lib) = {} => IsAcyclic(lib)
<1> DEFINE x == [ids |-> [k \in DOMAIN lib |-> lib[k].id], stack |-> <<>>,
                 found |-> [visited |-> {}, cyclic |-> {}]]
<1>1. x \in Searches
  <2>1. lib \in Seq(Scripts \cup {NoScript}) /\ DOMAIN lib = 1..Len(lib) /\ Len(lib) \in Nat
    BY DEF IsLibrary, Libraries
  <2>2. ASSUME NEW k \in DOMAIN lib PROVE lib[k].id \in STRING
    <3>1. lib[k] \in Scripts \cup {NoScript}
      BY <2>1
    <3>2. NoScript.id \in STRING /\ \A s \in Scripts : s.id \in STRING
      BY GraphAssumption
    <3> QED BY <3>1, <3>2, Zenon
  <2>3. x.ids \in [1..Len(lib) -> STRING]
    BY <2>1, <2>2
  <2>4. x.ids \in Seq(STRING)
    BY <2>1, <2>3, SeqDef
  <2>5. x.found \in Found
    BY DEF Found
  <2> QED BY <2>4, <2>5 DEF Searches
<1>2. FindCyclicScripts(lib) = Visit(lib)[x].cyclic
  BY DEF FindCyclicScripts
<1>3. IsPath(lib, x) /\ Endless(lib, x.found.cyclic) /\ Searched(lib, x) /\ Range(x.stack) = {}
  BY DEF IsPath, Endless, Searched, Done, Closed, Range
<1>4. Ids(lib) \subseteq Range(x.ids)
  BY DEF Ids, Range
<1> HIDE DEF x
<1>5. Endless(lib, FindCyclicScripts(lib))
  BY <1>1, <1>2, <1>3, SearchIsSound
<1>6. ASSUME FindCyclicScripts(lib) = {} PROVE IsAcyclic(lib)
  <2>1. SearchedTo(lib, x, Visit(lib)[x])
    BY <1>1, <1>2, <1>3, <1>6, SearchIsComplete
  <2> QED BY <1>3, <1>4, <2>1 DEF SearchedTo, Closed, IsAcyclic
<1> QED BY <1>5, <1>6

----------------------------------------------------------------------------
(***************************************************************************)
(* _drop_invalid_calls, and what is left when it drops nothing more: the   *)
(* scripts from which no call leads to a missing script, a wrong argument  *)
(* or a cycle.                                                             *)
(***************************************************************************)

Within(l, lib) == IsLibrary(l) /\ IsLibrary(lib) /\ Held(l) \subseteq Held(lib)

\* In a part of a library an id has the script it has in the library.
LEMMA WithinFacts ==
  ASSUME NEW lib, NEW l, Within(l, lib)
  PROVE  /\ Ids(l) \subseteq Ids(lib)
         /\ \A i \in Ids(l) : Script(l, i) = Script(lib, i)
         /\ \A i, j : Leads(l, i, j) => Leads(lib, i, j)
         /\ \A i \in Ids(l) : \A j : Leads(lib, i, j) => Leads(l, i, j)
<1>1. IsLibrary(l) /\ IsLibrary(lib) /\ Held(l) \subseteq Held(lib)
  BY DEF Within
<1>2. ASSUME NEW i \in Ids(l) PROVE i \in Ids(lib) /\ Script(l, i) = Script(lib, i)
  <2>1. Script(l, i) \in Held(lib) /\ Script(l, i).id = i
    BY <1>1, LibraryFacts
  <2> QED BY <1>1, <2>1, LibraryFacts
<1> QED BY <1>2 DEF Leads

\* A set of scripts that call only each other, as they should.
Safe(lib, W) ==
  /\ W \subseteq Ids(lib)
  /\ \A i \in W : /\ CallsFit(Script(lib, i), lib) /\ Called(Script(lib, i)) \subseteq W
                  /\ i \notin Reachable(lib, i)

AllUsable(lib) == {i \in Ids(lib) : Usable(lib, i)}

LEMMA FittingCallsAreInside ==
  ASSUME NEW lib, NEW s \in Scripts \cup {NoScript}, CallsFit(s, lib)
  PROVE  Called(s) \subseteq Ids(lib)
BY CalleesFacts DEF CallsFit

\* A set of scripts that call only each other, rightly and without a cycle, is usable.
LEMMA SafeIsUsable ==
  ASSUME NEW lib, IsLibrary(lib), NEW W, Safe(lib, W)
  PROVE  W \subseteq AllUsable(lib)
<1> SUFFICES ASSUME NEW i \in W PROVE i \in AllUsable(lib)
  OBVIOUS
<1>1. i \in Ids(lib) /\ i \in STRING \ {""}
  BY LibraryIds DEF Safe
<1>2. \A j \in W : \A k : Leads(lib, j, k) => k \in W
  BY DEF Safe, Leads
<1>3. Reachable(lib, i) \subseteq W
  BY <1>1, <1>2, ReachableFacts
<1>4. \A j \in Reachable(lib, i) \cup {i} :
        j \in Ids(lib) /\ j \notin Reachable(lib, j) /\ CallsFit(Script(lib, j), lib)
  BY <1>3 DEF Safe
<1> QED BY <1>1, <1>4 DEF AllUsable, Usable

\* The usable scripts are the largest such set.
LEMMA UsableIsSafe ==
  ASSUME NEW lib, IsLibrary(lib)
  PROVE  Safe(lib, AllUsable(lib))
<1> SUFFICES ASSUME NEW i \in AllUsable(lib)
             PROVE  /\ CallsFit(Script(lib, i), lib) /\ i \notin Reachable(lib, i)
                    /\ Called(Script(lib, i)) \subseteq AllUsable(lib)
  BY DEF Safe, AllUsable
<1>1. i \in Ids(lib) /\ i \in STRING \ {""} /\ Usable(lib, i)
  BY LibraryIds DEF AllUsable
<1>2. CallsFit(Script(lib, i), lib) /\ i \notin Reachable(lib, i)
  BY <1>1 DEF Usable
<1>3. ASSUME NEW j \in Called(Script(lib, i)) PROVE j \in AllUsable(lib)
  <2>1. Leads(lib, i, j)
    BY <1>1 DEF Leads
  <2>2. j \in Reachable(lib, i)
    BY <1>1, <2>1, ReachableFacts
  <2>3. j \in Ids(lib) /\ j \in STRING \ {""}
    BY <1>1, <2>2, LibraryIds DEF Usable
  <2>4. Reachable(lib, j) \subseteq Reachable(lib, i)
    BY <1>1, <2>2, <2>3, ReachableIsTransitive
  <2>5. Usable(lib, j)
    BY <1>1, <2>2, <2>4 DEF Usable
  <2> QED BY <2>3, <2>5 DEF AllUsable
<1> QED BY <1>2, <1>3

\* Whether a set is safe depends on its scripts only.
LEMMA SafeWithin ==
  ASSUME NEW lib, NEW l, Within(l, lib), NEW W \in SUBSET Ids(l)
  PROVE  Safe(l, W) <=> Safe(lib, W)
<1>1. IsLibrary(l) /\ IsLibrary(lib) /\ W \subseteq Ids(l) /\ W \subseteq Ids(lib)
  BY WithinFacts DEF Within
<1> SUFFICES ASSUME NEW i \in W, Called(Script(lib, i)) \subseteq W,
                    \A j \in W : \A k : Leads(lib, j, k) => k \in W
             PROVE  /\ CallsFit(Script(lib, i), lib) <=> CallsFit(Script(lib, i), l)
                    /\ i \in Reachable(lib, i) <=> i \in Reachable(l, i)
  <2>1. \A i \in W : Script(l, i) = Script(lib, i)
    BY WithinFacts
  <2>2. ASSUME \A i \in W : Called(Script(lib, i)) \subseteq W
        PROVE  \A j \in W : \A k : Leads(lib, j, k) => k \in W
    BY <2>2 DEF Leads
  <2> QED BY <1>1, <2>1, <2>2 DEF Safe
<1>2. i \in STRING \ {""} /\ Script(lib, i) \in Scripts
  BY <1>1, LibraryIds, LibraryFacts
<1>3. CallsFit(Script(lib, i), lib) <=> CallsFit(Script(lib, i), l)
  <2>1. \A c \in Range(Calls(Script(lib, i))) : c.to \in W
    BY <1>2, CalleesFacts
  <2>2. \A c \in Range(Calls(Script(lib, i))) :
          c.to \in Ids(l) /\ c.to \in Ids(lib) /\ Script(l, c.to) = Script(lib, c.to)
    BY <1>1, <2>1, WithinFacts
  <2> QED BY <2>2 DEF CallsFit
<1>4. Reachable(l, i) \subseteq Reachable(lib, i)
  <2>1. /\ \A j : Leads(l, i, j) => j \in Reachable(lib, i)
        /\ \A e \in Reachable(lib, i) : \A j : Leads(l, e, j) => j \in Reachable(lib, i)
    BY <1>1, <1>2, WithinFacts, ReachableFacts
  <2> QED BY <1>1, <1>2, <2>1, ReachableFacts
<1>5. Reachable(lib, i) \subseteq Reachable(l, i)
  <2> DEFINE T == W \cap Reachable(l, i)
  <2>1. \A j : Leads(lib, i, j) => j \in T
    BY <1>1, <1>2, WithinFacts, ReachableFacts
  <2>2. \A e \in T : \A j : Leads(lib, e, j) => j \in T
    BY <1>1, <1>2, WithinFacts, ReachableFacts
  <2>3. Reachable(lib, i) \subseteq T
    <3> HIDE DEF T
    <3> QED BY <1>1, <1>2, <2>1, <2>2, ReachableFacts
  <2> QED BY <2>3
<1> QED BY <1>3, <1>4, <1>5

\* When every call fits and none comes back, everything is usable.
LEMMA FittingAndAcyclic ==
  ASSUME NEW lib, IsLibrary(lib), \A s \in Held(lib) : CallsFit(s, lib), IsAcyclic(lib)
  PROVE  AllUsable(lib) = Ids(lib) /\ Safe(lib, Ids(lib))
<1>1. ASSUME NEW i \in Ids(lib)
      PROVE  CallsFit(Script(lib, i), lib) /\ Called(Script(lib, i)) \subseteq Ids(lib)
  <2>1. Script(lib, i) \in Held(lib) /\ Script(lib, i) \in Scripts
    BY LibraryFacts
  <2>2. CallsFit(Script(lib, i), lib)
    BY <2>1
  <2> QED BY <2>1, <2>2, FittingCallsAreInside
<1>2. Safe(lib, Ids(lib))
  BY <1>1 DEF Safe, IsAcyclic
<1>3. Ids(lib) \subseteq AllUsable(lib)
  BY <1>2, SafeIsUsable
<1> QED BY <1>2, <1>3 DEF AllUsable

\* l is lib, or what is left of it.
Reduced(l, lib) ==
  /\ l \in Libraries /\ lib \in Libraries /\ DOMAIN l = DOMAIN lib
  /\ \A k \in DOMAIN lib : l[k] = lib[k] \/ l[k] = NoScript

LEMMA LibrariesFacts ==
  ASSUME NEW lib \in Libraries
  PROVE  /\ Len(lib) \in Nat /\ DOMAIN lib = 1..Len(lib)
         /\ \A k \in DOMAIN lib : lib[k] \in Scripts \cup {NoScript}
         /\ lib = [k \in 1..Len(lib) |-> lib[k]]
BY DEF Libraries

LEMMA WithoutFacts ==
  ASSUME NEW lib \in Libraries, NEW ids
  PROVE  /\ Reduced(Without(lib, ids), lib)
         /\ \A k \in DOMAIN lib :
              Without(lib, ids)[k] = IF lib[k].id \in ids THEN NoScript ELSE lib[k]
<1> DEFINE w == [k \in DOMAIN lib |-> IF lib[k].id \in ids THEN NoScript ELSE lib[k]]
<1>1. w \in [1..Len(lib) -> Scripts \cup {NoScript}] /\ Len(lib) \in Nat
  BY LibrariesFacts
<1>2. w \in Libraries
  <2> HIDE DEF w
  <2> QED BY <1>1, SeqDef DEF Libraries
<1>3. w \o <<>> = w
  <2> HIDE DEF w
  <2> QED BY <1>2 DEF Libraries
<1>4. Without(lib, ids) = w
  BY <1>3 DEF Without
<1> QED BY <1>2, <1>4 DEF Reduced

\* A library with some scripts taken out is a part of it.
LEMMA ReducedFacts ==
  ASSUME NEW l, NEW lib, Reduced(l, lib)
  PROVE  /\ Reduced(lib, lib)
         /\ \A m : Reduced(m, l) => Reduced(m, lib)
         /\ Reduced(lib, l) => l = lib
         /\ IsLibrary(lib) => Within(l, lib)
<1>1. Reduced(lib, lib)
  BY DEF Reduced
<1>2. \A m : Reduced(m, l) => Reduced(m, lib)
  BY DEF Reduced
<1>3. ASSUME Reduced(lib, l) PROVE l = lib
  <2>1. \A k \in DOMAIN lib : l[k] = lib[k]
    BY <1>3 DEF Reduced
  <2>2. /\ DOMAIN l = DOMAIN lib /\ lib = [k \in DOMAIN lib |-> lib[k]]
        /\ l = [k \in DOMAIN l |-> l[k]]
    BY LibrariesFacts DEF Reduced
  <2> QED BY <2>1, <2>2
<1>4. ASSUME IsLibrary(lib) PROVE Within(l, lib)
  <2>1. /\ l \in Libraries
        /\ \A j, k \in DOMAIN lib : lib[j].id = lib[k].id => j = k \/ lib[j] = NoScript
        /\ \A j \in DOMAIN l : j \in DOMAIN lib /\ (l[j] = lib[j] \/ l[j] = NoScript)
    BY <1>4 DEF IsLibrary, Reduced
  <2>2. ASSUME NEW j \in DOMAIN l, NEW k \in DOMAIN l, l[j].id = l[k].id, l[j] # NoScript
        PROVE  j = k
    <3>1. l[j] = lib[j] /\ lib[j] \in Scripts
      BY <1>4, <2>1, <2>2, LibraryFacts
    <3>2. l[k] # NoScript
      BY <2>2, <3>1, GraphAssumption
    <3> QED BY <2>1, <2>2, <3>1, <3>2
  <2>3. IsLibrary(l)
    BY <2>1, <2>2 DEF IsLibrary
  <2>4. Held(l) \subseteq Held(lib)
    BY <2>1 DEF Held, Range
  <2> QED BY <1>4, <2>3, <2>4 DEF Within
<1> QED BY <1>1, <1>2, <1>3, <1>4

\* A script that is taken out, of a safe set or not.
LEMMA SafeRemains ==
  ASSUME NEW lib, NEW l, IsLibrary(lib), Reduced(l, lib), NEW W \in SUBSET Ids(l), NEW ids,
         ids \cap W = {}
  PROVE  W \subseteq Ids(Without(l, ids))
<1> SUFFICES ASSUME NEW i \in W PROVE i \in Ids(Without(l, ids))
  OBVIOUS
<1>1. PICK k \in DOMAIN l : l[k].id = i /\ i # NoScript.id
  BY DEF Ids
<1>2. l \in Libraries /\ k \in DOMAIN l
  BY DEF Reduced
<1>3. Without(l, ids)[k] = l[k] /\ DOMAIN Without(l, ids) = DOMAIN l
  BY <1>1, <1>2, WithoutFacts DEF Reduced
<1> QED BY <1>1, <1>3 DEF Ids

NextFitting(lib, l, k) == IF CallsFit(lib[k], l) THEN l ELSE Without(l, {lib[k].id})

\* Fitting has the value of its definition: what is left of the first k scripts' checks.
LEMMA FittingEquation ==
  ASSUME NEW lib \in Libraries
  PROVE  /\ Fitting(lib)[0] = lib
         /\ \A k \in 1..Len(lib) : Fitting(lib)[k] = NextFitting(lib, Fitting(lib)[k - 1], k)
         /\ \A k \in 0..Len(lib) : Fitting(lib)[k] \in Libraries
<1> DEFINE n == Len(lib)
           step == [k \in 1..n |-> [l \in Libraries |-> NextFitting(lib, l, k)]]
           Body(f) == [k \in 0..Len(lib) |-> IF k = 0 THEN lib ELSE NextFitting(lib, f[k - 1], k)]
<1>1. n \in Nat
  BY LibrariesFacts
<1>2. \A k \in 1..n : \A l \in Libraries : NextFitting(lib, l, k) \in Libraries
  BY WithoutFacts DEF NextFitting, Reduced
<1>3. PICK h : Iterated(h, Libraries, lib, step, 0, n)
  <2>1. StaysIn(Libraries, lib, step, 0, n)
    <3>1. \A k \in (0 + 1)..n : \A l \in Libraries : step[k][l] \in Libraries
      <4> HIDE DEF n
      <4> QED BY <1>1, <1>2
    <3> HIDE DEF step, n
    <3> QED BY <1>1, <3>1 DEF StaysIn
  <2> HIDE DEF step, n
  <2> QED BY <2>1, Iterates
<1>4. h \in [0..n -> Libraries]
      /\ \A k \in 0..n : h[k] = IF k = 0 THEN lib ELSE NextFitting(lib, h[k - 1], k)
  <2>1. h \in [0..n -> Libraries] /\ \A k \in 0..n : h[k] = IF k = 0 THEN lib ELSE step[k][h[k - 1]]
    <3> HIDE DEF step, n
    <3> QED BY <1>3 DEF Iterated
  <2>2. \A k \in 1..n : h[k - 1] \in Libraries
    <3>1. \A k \in 1..n : k - 1 \in 0..n
      BY <1>1
    <3> HIDE DEF step, n
    <3> QED BY <2>1, <3>1
  <2>3. \A k \in 1..n : step[k][h[k - 1]] = NextFitting(lib, h[k - 1], k)
    <3> HIDE DEF n
    <3> QED BY <2>2
  <2>4. \A k \in 0..n : k = 0 \/ k \in 1..n
    BY <1>1
  <2> HIDE DEF step, n
  <2> QED BY <2>1, <2>3, <2>4
<1>5. h = Body(h)
  <2> DEFINE b == Body(h)
  <2>1. \A k \in 0..n : h[k] = b[k]
    BY <1>4
  <2>2. b = [k \in 0..n |-> b[k]] /\ h = [k \in 0..n |-> h[k]]
    BY <1>4
  <2> HIDE DEF b, n
  <2>3. h = b
    BY <2>1, <2>2
  <2> QED BY <2>3 DEF b
<1>6. Fitting(lib) = CHOOSE f : f = Body(f)
  BY DEF Fitting, NextFitting
<1>7. Fitting(lib) = Body(Fitting(lib))
  <2> HIDE DEF Body
  <2> QED BY <1>5, <1>6
<1> DEFINE f == Fitting(lib)
<1>8. \A k \in 0..n : f[k] = IF k = 0 THEN lib ELSE NextFitting(lib, f[k - 1], k)
  <2>1. \A k \in 0..n : f[k] = Body(f)[k]
    <3> HIDE DEF Body
    <3> QED BY <1>7
  <2> HIDE DEF f
  <2> QED BY <2>1
<1>9. \A k \in Nat : k \in {j \in Nat : j <= n => f[j] \in Libraries}
  <2> DEFINE N == {j \in Nat : j <= n => f[j] \in Libraries}
  <2> HIDE DEF f
  <2>1. 0 \in N
    BY <1>1, <1>8
  <2>2. ASSUME NEW k \in Nat, k \in N PROVE k + 1 \in N
    <3> SUFFICES ASSUME k + 1 <= n PROVE f[k + 1] \in Libraries
      OBVIOUS
    <3>1. k + 1 \in 1..n /\ k + 1 \in 0..n /\ f[k] \in Libraries /\ k + 1 # 0 /\ (k + 1) - 1 = k
      BY <1>1, <2>2
    <3>2. f[k + 1] = NextFitting(lib, f[k], k + 1)
      <4> HIDE DEF n, N
      <4> QED BY <1>8, <3>1
    <3> HIDE DEF n, N
    <3> QED BY <1>2, <3>1, <3>2
  <2>3. Nat \subseteq N
    <3> HIDE DEF N
    <3> QED BY <2>1, <2>2, Natural
  <2> QED BY <2>3
<1>10. \A k \in 1..n : k \in 0..n /\ k # 0
  BY <1>1
<1>11. 0 \in 0..n /\ \A k \in 0..n : k \in Nat /\ k <= n
  BY <1>1
<1> HIDE DEF n, f
<1> QED BY <1>8, <1>9, <1>10, <1>11 DEF n, f

\* What a step of the checks may do to a library.
Keeps(lib, l) == Reduced(l, lib) /\ AllUsable(lib) \subseteq Ids(l)

\* Taking out scripts that are not usable leaves the same ones usable.
LEMMA KeptIsUsable ==
  ASSUME NEW lib, IsLibrary(lib), NEW l, Keeps(lib, l)
  PROVE  Within(l, lib) /\ IsLibrary(l) /\ AllUsable(l) = AllUsable(lib)
<1>1. Within(l, lib) /\ IsLibrary(l) /\ Ids(l) \subseteq Ids(lib)
  BY ReducedFacts, WithinFacts DEF Keeps, Within
<1>2. AllUsable(lib) \in SUBSET Ids(l) /\ AllUsable(l) \in SUBSET Ids(l)
  BY DEF Keeps, AllUsable
<1>3. Safe(l, AllUsable(lib)) /\ Safe(lib, AllUsable(l))
  BY <1>1, <1>2, UsableIsSafe, SafeWithin
<1> QED BY <1>1, <1>3, SafeIsUsable

\* _drop_invalid_calls takes out no usable script, and when it takes out none every call fits.
LEMMA DropUnfittingFacts ==
  ASSUME NEW lib, IsLibrary(lib)
  PROVE  /\ Keeps(lib, DropUnfitting(lib))
         /\ DropUnfitting(lib) = lib => \A s \in Held(lib) : CallsFit(s, lib)
<1> DEFINE f == Fitting(lib)
           n == Len(lib)
           Good(k) == /\ Keeps(lib, f[k])
                      /\ f[k] = lib => \A j \in 1..k : CallsFit(lib[j], lib)
           N == {k \in Nat : k <= n => Good(k)}
<1>1. /\ lib \in Libraries /\ n \in Nat /\ DOMAIN lib = 1..n
      /\ f[0] = lib /\ \A k \in 1..n : f[k] = NextFitting(lib, f[k - 1], k)
  BY LibrariesFacts, FittingEquation DEF IsLibrary
<1> HIDE DEF f, n
<1>2. Good(0)
  <2>1. Reduced(lib, lib)
    BY <1>1 DEF Reduced
  <2> QED BY <1>1, <2>1 DEF Keeps, AllUsable
<1>3. ASSUME NEW k \in Nat, k + 1 <= n, Good(k) PROVE Good(k + 1)
  <2> DEFINE l == f[k]
             s == lib[k + 1]
  <2>1. k + 1 \in 1..n /\ (k + 1) - 1 = k
    BY <1>1, <1>3
  <2>2. f[k + 1] = NextFitting(lib, l, k + 1)
    BY <1>1, <2>1
  <2>3. s \in Scripts \cup {NoScript}
    BY <1>1, <2>1, LibraryFacts
  <2>4. CASE CallsFit(s, l)
    <3>1. f[k + 1] = l
      BY <2>2, <2>4 DEF NextFitting
    <3>2. ASSUME l = lib PROVE \A j \in 1..k + 1 : CallsFit(lib[j], lib)
      <4>1. \A j \in 1..k + 1 : j \in 1..k \/ j = k + 1
        OBVIOUS
      <4> QED BY <1>3, <2>4, <3>2, <4>1
    <3> HIDE DEF l, s
    <3> QED BY <1>3, <3>1, <3>2 DEF l
  <2>5. CASE ~CallsFit(s, l)
    <3> DEFINE w == Without(l, {s.id})
    <3>1. f[k + 1] = w
      BY <2>2, <2>5 DEF NextFitting
    <3>2. Reduced(l, lib) /\ l \in Libraries /\ AllUsable(lib) \subseteq Ids(l)
      BY <1>3 DEF Keeps, Reduced
    <3>3. Reduced(w, l)
      BY <3>2, WithoutFacts
    <3>4. s.id \notin AllUsable(lib)
      <4> SUFFICES ASSUME s.id \in AllUsable(lib) PROVE FALSE
        OBVIOUS
      <4>1. s \in Held(lib)
        <5>1. s # NoScript
          BY DEF AllUsable, Ids
        <5> QED BY <1>1, <2>1, <5>1 DEF Held, Range
      <4>2. Within(l, lib)
        BY <3>2, ReducedFacts
      <4>3. Safe(l, AllUsable(lib))
        BY <3>2, <4>2, SafeWithin, UsableIsSafe
      <4>4. CallsFit(Script(l, s.id), l)
        BY <4>3 DEF Safe
      <4>5. Script(l, s.id) = s
        BY <3>2, <4>1, <4>2, WithinFacts, LibraryFacts
      <4> QED BY <2>5, <4>4, <4>5
    <3>5. Keeps(lib, w)
      <4>1. {s.id} \cap AllUsable(lib) = {}
        BY <3>4
      <4>2. AllUsable(lib) \subseteq Ids(w)
        <5> HIDE DEF l, s
        <5> QED BY <3>2, <4>1, SafeRemains
      <4>3. Reduced(w, lib)
        <5> HIDE DEF l, s, w
        <5> QED BY <3>2, <3>3, ReducedFacts
      <4> QED BY <4>2, <4>3 DEF Keeps
    <3>6. ASSUME w = lib PROVE \A j \in 1..k + 1 : CallsFit(lib[j], lib)
      <4>1. l = lib
        BY <3>2, <3>3, <3>6, ReducedFacts
      <4>2. s = NoScript
        <5>1. w[k + 1] = NoScript
          BY <1>1, <2>1, <3>2, <4>1, WithoutFacts
        <5> HIDE DEF w
        <5> QED BY <3>6, <5>1
      <4>3. CallsFit(NoScript, lib)
        BY NoScriptCallsNothing DEF CallsFit, Range
      <4> QED BY <2>5, <4>1, <4>2, <4>3
    <3> HIDE DEF l, s, w
    <3> QED BY <3>1, <3>5, <3>6
  <2> QED BY <2>4, <2>5
<1>4. Nat \subseteq N
  <2>1. \A k \in Nat : k \in N => k + 1 \in N
    <3>1. \A k \in Nat : k + 1 <= n => k <= n
      BY <1>1
    <3> HIDE DEF Good
    <3> QED BY <1>3, <3>1
  <2>2. 0 \in N
    BY <1>2
  <2> HIDE DEF N
  <2> QED BY <2>1, <2>2, Natural
<1>5. Good(n)
  <2> HIDE DEF Good
  <2> QED BY <1>1, <1>4
<1>6. DropUnfitting(lib) = f[n]
  BY DEF DropUnfitting, f, n
<1>7. ASSUME f[n] = lib, NEW s \in Held(lib) PROVE CallsFit(s, lib)
  <2>1. PICK k \in 1..n : s = lib[k]
    BY <1>1 DEF Held, Range
  <2> QED BY <1>5, <1>7, <2>1
<1> QED BY <1>5, <1>6, <1>7

\* A pass takes out no usable script, and when it takes out none everything is usable.
LEMMA DropPassFacts ==
  ASSUME NEW lib, IsLibrary(lib)
  PROVE  /\ Keeps(lib, DropPass(lib))
         /\ DropPass(lib) = lib => AllUsable(lib) = Ids(lib)
<1> DEFINE fit == DropUnfitting(lib)
           cyclic == FindCyclicScripts(fit)
           U == AllUsable(lib)
<1>1. Keeps(lib, fit) /\ Within(fit, lib) /\ IsLibrary(fit) /\ AllUsable(fit) = U
  BY DropUnfittingFacts, KeptIsUsable
<1>2. DropPass(lib) = Without(fit, cyclic)
  BY DEF DropPass
<1>3. Endless(fit, cyclic) /\ (cyclic = {} => IsAcyclic(fit))
  BY <1>1, CyclesFound
<1>4. fit \in Libraries /\ Reduced(fit, lib) /\ U \subseteq Ids(fit)
  BY <1>1 DEF Keeps, Reduced
<1> HIDE DEF fit, cyclic
<1>5. cyclic \cap U = {}
  <2> SUFFICES ASSUME cyclic \cap U # {} PROVE FALSE
    OBVIOUS
  <2>1. Safe(fit, U)
    BY <1>1, UsableIsSafe
  <2>2. cyclic \cap U \in SUBSET Ids(fit)
    BY <1>4
  <2>3. \A i \in cyclic \cap U : \E j \in cyclic \cap U : Leads(fit, i, j)
    BY <1>3, <2>1 DEF Endless, Safe, Leads
  <2>4. \E i \in cyclic \cap U : i \in Reachable(fit, i)
    <3> HIDE DEF U
    <3> QED BY <1>1, <2>2, <2>3, EndlessCallsReturn
  <2> QED BY <2>1, <2>4 DEF Safe
<1>6. Reduced(Without(fit, cyclic), fit)
  BY <1>4, WithoutFacts
<1>7. Keeps(lib, DropPass(lib))
  <2>1. U \subseteq Ids(Without(fit, cyclic))
    <3> HIDE DEF U
    <3> QED BY <1>4, <1>5, SafeRemains
  <2>2. Reduced(Without(fit, cyclic), lib)
    BY <1>4, <1>6, ReducedFacts
  <2> QED BY <1>2, <2>1, <2>2 DEF Keeps
<1>8. ASSUME DropPass(lib) = lib PROVE U = Ids(lib)
  <2>1. fit = lib
    BY <1>2, <1>4, <1>6, <1>8, ReducedFacts
  <2>2. \A s \in Held(lib) : CallsFit(s, lib)
    BY <2>1, DropUnfittingFacts DEF fit
  <2>3. cyclic = {}
    <3> SUFFICES ASSUME NEW i \in cyclic PROVE FALSE
      OBVIOUS
    <3>1. i \in Ids(fit)
      BY <1>3 DEF Endless
    <3>2. PICK k \in DOMAIN fit : fit[k].id = i /\ i # NoScript.id
      BY <3>1 DEF Ids
    <3>3. Without(fit, cyclic)[k] = NoScript
      BY <1>4, <3>2, WithoutFacts
    <3>4. fit[k] = NoScript
      BY <1>2, <1>8, <2>1, <3>3
    <3> QED BY <3>2, <3>4
  <2> QED BY <1>3, <2>1, <2>2, <2>3, FittingAndAcyclic
<1> QED BY <1>7, <1>8

Places(lib) == {k \in 1..Len(lib) : lib[k] # NoScript}
Fullness == [lib \in Libraries |-> Cardinality(Places(lib))]
Empties == [lib \in Libraries |-> 0]

\* A pass that changes the library makes it smaller, so the passes come to an end.
LEMMA DropPassReduces ==
  ASSUME NEW lib \in Libraries
  PROVE  /\ Reduced(DropPass(lib), lib)
         /\ DropPass(lib) # lib => Fullness[DropPass(lib)] < Fullness[lib]
<1> DEFINE d == DropPass(lib)
           f == Fitting(lib)
           n == Len(lib)
           N == {k \in Nat : k <= n => Reduced(f[k], lib)}
<1>1. n \in Nat /\ f[0] = lib /\ \A k \in 1..n : f[k] = NextFitting(lib, f[k - 1], k)
  BY LibrariesFacts, FittingEquation
<1>2. Reduced(lib, lib)
  BY DEF Reduced
<1>3. Nat \subseteq N
  <2> HIDE DEF f, n
  <2>1. 0 \in N
    BY <1>1, <1>2
  <2>2. ASSUME NEW k \in Nat, k \in N PROVE k + 1 \in N
    <3> SUFFICES ASSUME k + 1 <= n PROVE Reduced(f[k + 1], lib)
      OBVIOUS
    <3>1. k + 1 \in 1..n /\ (k + 1) - 1 = k /\ Reduced(f[k], lib)
      BY <1>1, <2>2
    <3>2. f[k + 1] = NextFitting(lib, f[k], k + 1)
      <4> HIDE DEF N
      <4> QED BY <1>1, <3>1
    <3>3. \A ids : Reduced(Without(f[k], ids), f[k])
      BY <3>1, WithoutFacts DEF Reduced
    <3> HIDE DEF N
    <3> QED BY <3>1, <3>2, <3>3, ReducedFacts DEF NextFitting
  <2> HIDE DEF N
  <2> QED BY <2>1, <2>2, Natural
<1>4. Reduced(DropUnfitting(lib), lib)
  <2> HIDE DEF f, n
  <2>1. Reduced(f[n], lib)
    BY <1>1, <1>3
  <2> QED BY <2>1 DEF DropUnfitting, f, n
<1> HIDE DEF f, n, N
<1>5. Reduced(d, lib)
  <2>1. DropUnfitting(lib) \in Libraries
    BY <1>4 DEF Reduced
  <2>2. Reduced(d, DropUnfitting(lib))
    BY <2>1, WithoutFacts DEF DropPass
  <2> HIDE DEF d
  <2> QED BY <1>4, <2>2, ReducedFacts
<1>6. ASSUME d # lib PROVE Fullness[d] < Fullness[lib]
  <2> HIDE DEF d
  <2>1. /\ d \in Libraries /\ DOMAIN d = 1..Len(lib) /\ DOMAIN lib = 1..Len(lib)
        /\ Len(d) = Len(lib) /\ Len(lib) \in Nat
        /\ \A k \in 1..Len(lib) : d[k] = lib[k] \/ d[k] = NoScript
    BY <1>5, LibrariesFacts DEF Reduced
  <2>2. PICK k \in 1..Len(lib) : d[k] # lib[k]
    <3>1. lib = [k \in 1..Len(lib) |-> lib[k]] /\ d = [k \in 1..Len(lib) |-> d[k]]
      BY <2>1, LibrariesFacts
    <3> QED BY <1>6, <3>1
  <2>3. Places(d) \subseteq Places(lib) /\ k \in Places(lib) \ Places(d)
    BY <2>1, <2>2 DEF Places
  <2>4. IsFiniteSet(Places(lib)) /\ Cardinality(Places(lib)) \in Nat
    <3>1. IsFiniteSet(1..Len(lib)) /\ Places(lib) \subseteq 1..Len(lib)
      BY <2>1, FS_Interval DEF Places
    <3> QED BY <3>1, FS_Subset, FS_CardinalityType
  <2>5. Cardinality(Places(d)) <= Cardinality(Places(lib)) /\ Cardinality(Places(d)) \in Nat
        /\ Cardinality(Places(d)) # Cardinality(Places(lib))
    BY <2>3, <2>4, FS_Subset, FS_CardinalityType
  <2> QED BY <2>1, <2>4, <2>5 DEF Fullness
<1> QED BY <1>5, <1>6

----------------------------------------------------------------------------
(***************************************************************************)
(* load_scripts drops until nothing is left to drop, and                   *)
(* _check_library_accepts promises what the next load then serves.         *)
(***************************************************************************)

LEMMA FullnessType == Fullness \in [Libraries -> Nat] /\ Empties \in [Libraries -> Nat]
<1>1. ASSUME NEW lib \in Libraries PROVE Cardinality(Places(lib)) \in Nat
  <2>1. IsFiniteSet(1..Len(lib))
    BY LibrariesFacts, FS_Interval
  <2>2. Places(lib) \subseteq 1..Len(lib)
    BY DEF Places
  <2> QED BY <2>1, <2>2, FS_Subset, FS_CardinalityType
<1> QED BY <1>1 DEF Fullness, Empties

NextDrop(f, lib) == IF DropPass(lib) = lib THEN lib ELSE f[DropPass(lib)]

\* DropUntilStable has the value of its definition.
LEMMA DropUntilStableEquation ==
  \A lib \in Libraries : DropUntilStable[lib] = NextDrop(DropUntilStable, lib)
<1> DEFINE Body(f) == [lib \in Libraries |-> NextDrop(f, lib)]
           F == [f \in [Libraries -> Libraries] |-> Body(f)]
<1>1. ASSUME NEW f \in [Libraries -> Libraries], NEW lib \in Libraries
      PROVE  NextDrop(f, lib) \in Libraries
  BY DropPassReduces DEF NextDrop, Reduced
<1>2. ASSUME NEW f, NEW g, NEW lib \in Libraries,
             \A l \in Libraries : Lower(Fullness, Empties, Empties, l, lib) => f[l] = g[l]
      PROVE  NextDrop(f, lib) = NextDrop(g, lib)
  <2>1. ASSUME DropPass(lib) # lib PROVE f[DropPass(lib)] = g[DropPass(lib)]
    <3>1. DropPass(lib) \in Libraries /\ Fullness[DropPass(lib)] < Fullness[lib]
      BY <2>1, DropPassReduces DEF Reduced
    <3> QED BY <1>2, <3>1 DEF Lower
  <2> QED BY <2>1 DEF NextDrop
<1>3. Contracts(F, Libraries, Libraries, Fullness, Empties, Empties)
  <2>1. Libraries # {}
    <3>1. <<>> \in Libraries
      BY DEF Libraries
    <3> QED BY <3>1
  <2>2. F \in [[Libraries -> Libraries] -> [Libraries -> Libraries]]
    BY <1>1
  <2>3. ASSUME NEW f \in [Libraries -> Libraries], NEW g \in [Libraries -> Libraries],
               NEW lib \in Libraries,
               \A l \in Libraries : Lower(Fullness, Empties, Empties, l, lib) => f[l] = g[l]
        PROVE  F[f][lib] = F[g][lib]
    <3>1. NextDrop(f, lib) = NextDrop(g, lib)
      BY <1>2, <2>3
    <3> QED BY <3>1
  <2> HIDE DEF F
  <2> QED BY <2>1, <2>2, <2>3, FullnessType DEF Contracts
<1>4. PICK h \in [Libraries -> Libraries] : h = Body(h)
  <2>1. PICK h \in [Libraries -> Libraries] : h = F[h]
    <3> HIDE DEF F
    <3> QED BY <1>3, MeasuredRecursion
  <2> HIDE DEF Body
  <2> QED BY <2>1
<1>5. DropUntilStable = CHOOSE f : f = Body(f)
  BY DEF DropUntilStable, NextDrop
<1>6. DropUntilStable = Body(DropUntilStable)
  <2> HIDE DEF Body
  <2> QED BY <1>4, <1>5
<1>7. \A lib \in Libraries : DropUntilStable[lib] = Body(DropUntilStable)[lib]
  <2> HIDE DEF Body
  <2> QED BY <1>6
<1> QED BY <1>7

(***************************************************************************)
(* What load_scripts leaves: the scripts that can be used.                 *)
(***************************************************************************)
LEMMA DropFailingFacts ==
  ASSUME NEW lib, IsLibrary(lib)
  PROVE  /\ Within(DropFailing(lib), lib)
         /\ Ids(DropFailing(lib)) = AllUsable(lib)
         /\ AllUsable(DropFailing(lib)) = Ids(DropFailing(lib))
<1> DEFINE d(l) == DropUntilStable[l]
           Good(l) == IsLibrary(l) => Keeps(l, d(l)) /\ Ids(d(l)) = AllUsable(d(l))
           P == {l \in Libraries : Good(l)}
<1>1. ASSUME NEW l \in Libraries, IsLibrary(l),
             \A m \in Libraries : Lower(Fullness, Empties, Empties, m, l) => Good(m)
      PROVE  Keeps(l, d(l)) /\ Ids(d(l)) = AllUsable(d(l))
  <2>1. CASE DropPass(l) = l
    <3>1. d(l) = l /\ AllUsable(l) = Ids(l)
      BY <1>1, <2>1, DropPassFacts, DropUntilStableEquation DEF NextDrop
    <3>2. Keeps(l, l)
      BY <1>1, <2>1, DropPassFacts
    <3> HIDE DEF d
    <3> QED BY <3>1, <3>2
  <2>2. CASE DropPass(l) # l
    <3> DEFINE m == DropPass(l)
    <3>1. d(l) = d(m)
      BY <2>2, DropUntilStableEquation DEF NextDrop
    <3>2. Keeps(l, m) /\ IsLibrary(m) /\ AllUsable(m) = AllUsable(l)
      BY <1>1, DropPassFacts, KeptIsUsable
    <3>3. m \in Libraries /\ Lower(Fullness, Empties, Empties, m, l)
      BY <2>2, DropPassReduces DEF Reduced, Lower
    <3>4. Keeps(m, d(m)) /\ Ids(d(m)) = AllUsable(d(m))
      BY <1>1, <3>2, <3>3
    <3> HIDE DEF m, d
    <3>5. Keeps(l, d(m))
      BY <3>2, <3>4, ReducedFacts DEF Keeps
    <3> QED BY <3>1, <3>4, <3>5
  <2> QED BY <2>1, <2>2
<1>2. Libraries \subseteq P
  <2>1. ASSUME NEW l \in Libraries,
               \A m \in Libraries : Lower(Fullness, Empties, Empties, m, l) => m \in P
        PROVE  l \in P
    BY <1>1, <2>1
  <2>2. Inductive(P, Libraries, Fullness, Empties, Empties)
    <3> HIDE DEF P
    <3> QED BY <2>1, FullnessType DEF Inductive
  <2> HIDE DEF P
  <2> QED BY <2>2, ByMeasure
<1>3. Keeps(lib, DropFailing(lib)) /\ Ids(DropFailing(lib)) = AllUsable(DropFailing(lib))
  BY <1>2 DEF DropFailing, IsLibrary
<1> QED BY <1>3, KeptIsUsable

(***************************************************************************)
(* What a save is checked against: the library with the saved script.      *)
(***************************************************************************)
With(old, script) == Append(Without(old, {script.id}), script)

\* What _check_library_accepts accepts leaves a library in which everything is usable.
LEMMA AcceptedFacts ==
  ASSUME NEW old, IsLibrary(old), AllUsable(old) = Ids(old), NEW script \in Scripts,
         Accepts(script, With(old, script))
  PROVE  /\ IsLibrary(With(old, script)) /\ AllUsable(With(old, script)) = Ids(With(old, script))
         /\ \A s : s \in Held(With(old, script)) <=>
                     s = script \/ (s \in Held(old) /\ s.id # script.id)
<1> DEFINE lib == With(old, script)
<1>0. lib = Append(Without(old, {script.id}), script) /\ Accepts(script, lib)
  BY DEF With
<1> HIDE DEF lib
<1> DEFINE rest == Without(old, {script.id})
           n == Len(old)
<1>1. /\ old \in Libraries /\ rest \in Libraries /\ DOMAIN rest = 1..n /\ DOMAIN old = 1..n
      /\ n \in Nat /\ Len(rest) = n /\ Within(rest, old)
      /\ \A k \in 1..n : rest[k] = IF old[k].id = script.id THEN NoScript ELSE old[k]
  <2>1. old \in Libraries /\ DOMAIN old = 1..n /\ n \in Nat
    BY LibrariesFacts DEF IsLibrary
  <2>2. Reduced(rest, old) /\ \A k \in 1..n : rest[k] = IF old[k].id = script.id THEN NoScript ELSE old[k]
    BY <2>1, WithoutFacts
  <2> HIDE DEF rest, n
  <2>3. Within(rest, old)
    BY <2>2, ReducedFacts
  <2>4. rest \in Libraries /\ DOMAIN rest = 1..n
    BY <2>1, <2>2 DEF Reduced
  <2>5. Len(rest) = n
    BY <2>1, <2>4, LibrariesFacts
  <2> QED BY <2>1, <2>2, <2>3, <2>4, <2>5
<1>2. lib = Append(rest, script)
  BY <1>0
<1> HIDE DEF rest, n
<1>3. /\ lib \in Libraries /\ DOMAIN lib = 1..n + 1 /\ lib[n + 1] = script
      /\ \A k \in 1..n : lib[k] = rest[k]
  <2> DEFINE S == Scripts \cup {NoScript}
  <2>1. rest \in Seq(S) /\ script \in S
    BY <1>1 DEF Libraries
  <2> HIDE DEF S
  <2>2. /\ lib \in Seq(S) /\ DOMAIN lib = 1..n + 1 /\ lib[n + 1] = script
        /\ \A k \in 1..n : lib[k] = rest[k]
    <3>1. Len(rest) = n /\ n \in Nat
      BY <1>1
    <3> DEFINE l == Append(rest, script)
    <3>0. l \in Seq(S) /\ Len(l) = Len(rest) + 1 /\ l[Len(rest) + 1] = script
          /\ \A k \in 1..Len(rest) : l[k] = rest[k]
      BY <2>1, AppendProperties
    <3>00. lib = l
      BY <1>2
    <3> HIDE DEF l
    <3>2. lib \in Seq(S) /\ Len(lib) = Len(rest) + 1 /\ lib[Len(rest) + 1] = script
          /\ \A k \in 1..Len(rest) : lib[k] = rest[k]
      BY <3>0, <3>00
    <3>3. DOMAIN lib = 1..Len(lib)
      BY <3>2
    <3> QED BY <3>1, <3>2, <3>3
  <2> QED BY <2>2 DEF Libraries, S
<1>4. \A k \in 1..n + 1 : k = n + 1 \/ k \in 1..n
  BY <1>1
<1>5. script # NoScript /\ script.id # NoScript.id /\ \A s \in Scripts : s.id # NoScript.id
  BY GraphAssumption
<1>6. \A k \in 1..n : rest[k].id # script.id
  BY <1>1, <1>5
<1>7. IsLibrary(rest)
  BY <1>1 DEF Within
<1>8. IsLibrary(lib)
  <2> SUFFICES ASSUME NEW j \in 1..n + 1, NEW k \in 1..n + 1, lib[j].id = lib[k].id, j # k
               PROVE  lib[j] = NoScript
    BY <1>3 DEF IsLibrary
  <2>1. j \in 1..n /\ k \in 1..n
    BY <1>3, <1>4, <1>6
  <2> QED BY <1>1, <1>3, <1>7, <2>1 DEF IsLibrary
<1>9. ASSUME NEW s PROVE s \in Held(lib) <=> s = script \/ s \in Held(rest)
  <2>1. ASSUME s \in Held(lib) PROVE s = script \/ s \in Held(rest)
    <3>1. PICK k \in 1..n + 1 : lib[k] = s /\ s # NoScript
      BY <1>3, <2>1 DEF Held, Range
    <3> QED BY <1>1, <1>3, <1>4, <3>1 DEF Held, Range
  <2>2. ASSUME s = script PROVE s \in Held(lib)
    <3>1. n + 1 \in 1..n + 1
      BY <1>1
    <3> QED BY <1>3, <1>5, <2>2, <3>1 DEF Held, Range
  <2>3. ASSUME s \in Held(rest) PROVE s \in Held(lib)
    <3>1. PICK k \in 1..n : rest[k] = s /\ s # NoScript
      BY <1>1, <2>3 DEF Held, Range
    <3>2. k \in 1..n + 1
      BY <1>1
    <3> QED BY <1>3, <3>1, <3>2 DEF Held, Range
  <2> QED BY <2>1, <2>2, <2>3
<1>10. ASSUME NEW s PROVE s \in Held(rest) <=> s \in Held(old) /\ s.id # script.id
  <2>1. ASSUME s \in Held(rest) PROVE s \in Held(old) /\ s.id # script.id
    BY <1>1, <1>6, <2>1 DEF Held, Range, Within
  <2>2. ASSUME s \in Held(old), s.id # script.id PROVE s \in Held(rest)
    <3>1. PICK k \in 1..n : old[k] = s /\ s # NoScript
      BY <1>1, <2>2 DEF Held, Range
    <3> QED BY <1>1, <2>2, <3>1 DEF Held, Range
  <2> QED BY <2>1, <2>2
<1>11. \A s \in Held(rest) : s \in Scripts /\ s.id \in Ids(rest) /\ Script(rest, s.id) = s
  BY <1>7, LibraryFacts
<1>12. Within(rest, lib)
  BY <1>7, <1>8, <1>9 DEF Within
<1>13. Script(lib, script.id) = script /\ script.id \in Ids(lib)
  BY <1>8, <1>9, LibraryFacts
<1>14. ASSUME NEW s \in Held(rest) PROVE CallsFit(s, lib)
  <2>1. CASE script.id \in Called(s)
    <3>0. s \in Held(lib)
      BY <1>9
    <3>1. PICK k \in 1..n + 1 : lib[k] = s
      BY <1>3, <3>0 DEF Held, Range
    <3> QED BY <1>0, <1>3, <2>1, <3>1 DEF Accepts, Called
  <2>2. CASE script.id \notin Called(s)
    <3>1. s \in Scripts /\ s.id \in AllUsable(old) /\ Script(old, s.id) = s
      BY <1>10, LibraryFacts
    <3>2. CallsFit(s, old)
      BY <3>1, UsableIsSafe DEF Safe
    <3>3. ASSUME NEW c \in Range(Calls(s))
          PROVE  c.to \in Ids(lib) /\ ArgumentsFit(c, Script(lib, c.to))
      <4>1. c.to \in Ids(old) /\ ArgumentsFit(c, Script(old, c.to)) /\ c.to # script.id
        BY <2>2, <3>1, <3>2, CalleesFacts DEF CallsFit
      <4>2. Script(old, c.to) \in Held(old) /\ Script(old, c.to).id = c.to
        BY <4>1, LibraryFacts
      <4>3. Script(old, c.to) \in Held(lib)
        BY <1>9, <1>10, <4>1, <4>2
      <4>4. c.to \in Ids(lib) /\ Script(lib, c.to) = Script(old, c.to)
        BY <1>8, <4>2, <4>3, LibraryFacts
      <4> QED BY <4>1, <4>4
    <3> QED BY <3>3 DEF CallsFit
  <2> QED BY <2>1, <2>2
<1>15. \A s \in Held(lib) : CallsFit(s, lib)
  BY <1>0, <1>9, <1>14 DEF Accepts
\* A cycle would go through the saved script, or have been there before.
<1>16. IsAcyclic(lib)
  <2> DEFINE Z == FindCyclicScripts(lib)
  <2>1. Endless(lib, Z) /\ (Z = {} => IsAcyclic(lib)) /\ script.id \notin Z
    BY <1>0, <1>8, CyclesFound DEF Accepts
  <2> HIDE DEF Z
  <2>2. Z \subseteq Ids(rest)
    <3> SUFFICES ASSUME NEW i \in Z PROVE i \in Ids(rest)
      OBVIOUS
    <3>1. Script(lib, i) \in Held(lib) /\ Script(lib, i).id = i /\ i # script.id
      BY <1>8, <2>1, LibraryFacts DEF Endless
    <3>2. Script(lib, i) \in Held(rest)
      BY <1>9, <3>1
    <3> QED BY <1>11, <3>1, <3>2
  <2>3. \A i \in Z : \E j \in Z : Leads(rest, i, j)
    <3>1. \A i \in Ids(rest) : \A j : Leads(lib, i, j) => Leads(rest, i, j)
      BY <1>12, WithinFacts
    <3> QED BY <2>1, <2>2, <3>1 DEF Endless
  <2>4. \A i \in Z : \E j \in Z : Leads(old, i, j)
    BY <1>1, <2>3, WithinFacts
  <2>5. Z \in SUBSET Ids(old)
    BY <1>1, <2>2, WithinFacts
  <2>6. Z = {}
    <3> SUFFICES ASSUME Z # {} PROVE FALSE
      OBVIOUS
    <3>1. PICK i \in Z : i \in Reachable(old, i)
      BY <2>4, <2>5, EndlessCallsReturn
    <3> QED BY <2>5, <3>1, UsableIsSafe DEF Safe
  <2> QED BY <2>1, <2>6
<1> QED BY <1>8, <1>9, <1>10, <1>15, <1>16, FittingAndAcyclic DEF lib

----------------------------------------------------------------------------
(***************************************************************************)
(* The user directory: one file of each name, and what a save leaves of    *)
(* it.                                                                     *)
(***************************************************************************)

IsDir(dir) == \A n \in DOMAIN dir : dir[n] \in Scripts \cup {NoScript}
Named(dir) == \A n \in DOMAIN dir : dir[n] = NoScript \/ dir[n].id = n
Put(dir, name, content) ==
  [n \in DOMAIN dir \cup {name} |-> IF n = name THEN content ELSE dir[n]]

FoundIn(dir) == Builtin \o Parse(dir)
FoundBefore(dir, k) == \E j \in 1..k - 1 : FoundIn(dir)[j].id = FoundIn(dir)[k].id

FileAt(dir, n) == IF n \in DOMAIN dir THEN dir[n] ELSE NoScript

\* What is found are the built-in scripts and then the files, in the order of their names.
LEMMA FoundFacts ==
  ASSUME NEW dir, IsDir(dir)
  PROVE  /\ FoundIn(dir) \in Libraries
         /\ Len(Builtin) \in Nat /\ Len(Names) \in Nat
         /\ Len(FoundIn(dir)) = Len(Builtin) + Len(Names)
         /\ DOMAIN FoundIn(dir) = 1..Len(Builtin) + Len(Names)
         /\ \A k \in 1..Len(Builtin) : FoundIn(dir)[k] = Builtin[k] /\ Builtin[k] \in Scripts
         /\ \A k \in 1..Len(Names) : FoundIn(dir)[Len(Builtin) + k] = FileAt(dir, Names[k])
<1> DEFINE S == Scripts \cup {NoScript}
           p == Parse(dir)
<1>1. Names \in Seq(STRING) /\ Builtin \in Seq(Scripts)
  BY LibraryAssumption
<1>2. Len(Names) \in Nat /\ DOMAIN Names = 1..Len(Names) /\ Len(Builtin) \in Nat
      /\ \A k \in 1..Len(Builtin) : Builtin[k] \in Scripts
  BY <1>1
<1>3. \A k \in 1..Len(Names) : p[k] = FileAt(dir, Names[k]) /\ FileAt(dir, Names[k]) \in S
  BY <1>2 DEF Parse, IsDir, FileAt
<1>4. p = [k \in 1..Len(Names) |-> p[k]]
  BY <1>2 DEF Parse
<1> HIDE DEF p, S
<1>5. p \in [1..Len(Names) -> S]
  BY <1>3, <1>4
<1>6. p \in Seq(S) /\ Len(p) = Len(Names)
  <2>1. p \in Seq(S)
    BY <1>2, <1>5, SeqDef
  <2>2. DOMAIN p = 1..Len(p) /\ Len(p) \in Nat
    BY <2>1
  <2>3. DOMAIN p = 1..Len(Names)
    BY <1>5
  <2>4. Len(p) = Len(Names)
    <3>1. ASSUME NEW i \in Nat, NEW j \in Nat, 1..i = 1..j PROVE i = j
      <4>1. i \in 1..i \/ i = 0
        OBVIOUS
      <4>2. j \in 1..j \/ j = 0
        OBVIOUS
      <4> QED BY <3>1, <4>1, <4>2
    <3> QED BY <1>2, <2>2, <2>3, <3>1
  <2> QED BY <2>1, <2>4
<1>7. Builtin \in Seq(S)
  <2>0. Scripts \subseteq S
    BY DEF S
  <2>1. Builtin \in [1..Len(Builtin) -> Scripts] /\ Scripts \subseteq S
    BY <1>1, <2>0
  <2>2. Builtin \in [1..Len(Builtin) -> S]
    BY <2>1
  <2> QED BY <1>2, <2>2, SeqDef
<1>8. /\ Builtin \o p \in Seq(S) /\ Len(Builtin \o p) = Len(Builtin) + Len(Names)
      /\ \A k \in 1..Len(Builtin) + Len(Names) :
           (Builtin \o p)[k] = IF k <= Len(Builtin) THEN Builtin[k] ELSE p[k - Len(Builtin)]
  <2>1. /\ Builtin \o p \in Seq(S) /\ Len(Builtin \o p) = Len(Builtin) + Len(p)
        /\ \A k \in 1..Len(Builtin) + Len(p) :
             (Builtin \o p)[k] = IF k <= Len(Builtin) THEN Builtin[k] ELSE p[k - Len(Builtin)]
    <3>1. ASSUME NEW b \in Seq(S), NEW q \in Seq(S)
          PROVE  /\ b \o q \in Seq(S) /\ Len(b \o q) = Len(b) + Len(q)
                 /\ \A k \in 1..Len(b) + Len(q) :
                      (b \o q)[k] = IF k <= Len(b) THEN b[k] ELSE q[k - Len(b)]
      BY ConcatProperties
    <3> QED BY <1>6, <1>7, <3>1
  <2> QED BY <1>6, <2>1, Zenon
<1>9. FoundIn(dir) = Builtin \o p
  BY DEF FoundIn, p
<1> DEFINE f == FoundIn(dir)
<1> HIDE DEF f
<1>10. f \in Seq(S) /\ Len(f) = Len(Builtin) + Len(Names) /\ DOMAIN f = 1..Len(f)
  <2>1. f = Builtin \o p
    BY <1>9 DEF f
  <2> HIDE DEF f
  <2>2. f \in Seq(S) /\ Len(f) = Len(Builtin) + Len(Names)
    BY <1>8, <2>1, Zenon
  <2> QED BY <2>2
<1>11. ASSUME NEW k \in 1..Len(Builtin) PROVE f[k] = Builtin[k]
  <2>1. k \in 1..Len(Builtin) + Len(Names) /\ k <= Len(Builtin)
    BY <1>2
  <2> QED BY <1>8, <1>9, <2>1 DEF f
<1>12. ASSUME NEW k \in 1..Len(Names) PROVE f[Len(Builtin) + k] = p[k]
  <2>1. /\ Len(Builtin) + k \in 1..Len(Builtin) + Len(Names) /\ ~(Len(Builtin) + k <= Len(Builtin))
        /\ (Len(Builtin) + k) - Len(Builtin) = k
    BY <1>2
  <2> QED BY <1>8, <1>9, <2>1 DEF f
<1> QED BY <1>2, <1>3, <1>10, <1>11, <1>12 DEF f, S, Libraries

\* AllScripts is a library: no two of its scripts have one id.
LEMMA AllScriptsFacts ==
  ASSUME NEW dir, IsDir(dir)
  PROVE  /\ IsLibrary(AllScripts(dir))
         /\ DOMAIN AllScripts(dir) = DOMAIN FoundIn(dir)
         /\ \A k \in DOMAIN FoundIn(dir) :
              AllScripts(dir)[k] = IF FoundBefore(dir, k) THEN NoScript ELSE FoundIn(dir)[k]
<1> DEFINE f == FoundIn(dir)
           n == Len(Builtin) + Len(Names)
           S == Scripts \cup {NoScript}
           a == [k \in DOMAIN f |-> IF FoundBefore(dir, k) THEN NoScript ELSE f[k]]
<1>1. f \in Libraries /\ DOMAIN f = 1..n /\ n \in Nat
  BY FoundFacts
<1>2. \A k \in 1..n : f[k] \in S
  BY <1>1, LibrariesFacts
<1>3. a \in [1..n -> S]
  <2> HIDE DEF f, n
  <2> QED BY <1>1, <1>2
<1>4. a \in Seq(S)
  <2> HIDE DEF f, n, a
  <2> QED BY <1>1, <1>3, SeqDef
<1>5. AllScripts(dir) = a
  <2>1. AllScripts(dir) = a \o <<>>
    BY DEF AllScripts, FoundBefore, FoundIn
  <2> HIDE DEF a
  <2> QED BY <1>4, <2>1
<1>6. ASSUME NEW j \in 1..n, NEW k \in 1..n, a[j].id = a[k].id, j # k PROVE a[j] = NoScript
  <2> SUFFICES ASSUME a[j] # NoScript PROVE FALSE
    OBVIOUS
  <2>1. a[j] = f[j] /\ ~FoundBefore(dir, j)
    BY <1>1
  <2>2. f[j] \in Scripts /\ f[j].id # NoScript.id
    BY <1>2, <2>1, GraphAssumption
  <2>3. a[k] # NoScript
    <3> HIDE DEF a, f
    <3> QED BY <1>6, <2>1, <2>2
  <2>4. a[k] = f[k] /\ ~FoundBefore(dir, k)
    BY <1>1, <2>3
  <2>5. j \in 1..k - 1 \/ k \in 1..j - 1
    BY <1>1, <1>6
  <2>6. f[j].id = f[k].id
    <3> HIDE DEF a, f
    <3> QED BY <1>6, <2>1, <2>4
  <2> QED BY <2>1, <2>4, <2>5, <2>6 DEF FoundBefore
<1>7. IsLibrary(a)
  <2>1. DOMAIN a = 1..n
    BY <1>1
  <2> HIDE DEF a, f, n
  <2> QED BY <1>4, <1>6, <2>1 DEF IsLibrary, Libraries, S
<1> HIDE DEF S, n
<1> QED BY <1>5, <1>7

\* The script that is found first with its id.
LEMMA FirstFound ==
  ASSUME NEW dir, IsDir(dir), NEW k \in DOMAIN FoundIn(dir), FoundIn(dir)[k] # NoScript
  PROVE  \E j \in DOMAIN FoundIn(dir) : /\ FoundIn(dir)[j].id = FoundIn(dir)[k].id /\ j <= k
                                        /\ ~FoundBefore(dir, j)
                                        /\ FoundIn(dir)[j] \in Held(AllScripts(dir))
<1> DEFINE f == FoundIn(dir)
           n == Len(Builtin) + Len(Names)
           T == {j \in 1..n : f[j].id = f[k].id}
<1>1. f \in Libraries /\ DOMAIN f = 1..n /\ n \in Nat
  BY FoundFacts
<1>2. T \in SUBSET Nat /\ k \in T
  BY <1>1
<1>3. PICK j \in T : \A i \in T : j <= i
  <2> HIDE DEF T
  <2> QED BY <1>2, Least
<1>4. j \in 1..n /\ f[j].id = f[k].id /\ j <= k
  BY <1>2, <1>3
<1>5. ~FoundBefore(dir, j)
  <2> SUFFICES ASSUME NEW i \in 1..j - 1, f[i].id = f[j].id PROVE FALSE
    BY DEF FoundBefore
  <2>1. i \in T /\ i < j
    BY <1>1, <1>4
  <2>2. j <= i
    BY <1>3, <2>1
  <2> QED BY <1>1, <1>4, <2>1, <2>2
<1>6. f[j] \in Held(AllScripts(dir))
  <2>1. AllScripts(dir)[j] = f[j] /\ j \in DOMAIN AllScripts(dir)
    BY <1>1, <1>4, <1>5, AllScriptsFacts
  <2>2. f[j] # NoScript
    <3>1. f[k].id # NoScript.id
      <4>1. f[k] \in Scripts
        BY <1>1, LibrariesFacts
      <4> QED BY <4>1, GraphAssumption
    <3> HIDE DEF f, T
    <3> QED BY <1>4, <3>1
  <2> QED BY <2>1, <2>2 DEF Held, Range
<1> QED BY <1>1, <1>4, <1>5, <1>6

LEMMA PutFacts ==
  ASSUME NEW dir, IsDir(dir), NEW name, NEW content \in Scripts \cup {NoScript}
  PROVE  /\ IsDir(Put(dir, name, content))
         /\ name \in DOMAIN Put(dir, name, content) /\ Put(dir, name, content)[name] = content
         /\ \A n : FileAt(Put(dir, name, content), n) = IF n = name THEN content ELSE FileAt(dir, n)
         /\ Named(dir) /\ (content = NoScript \/ content.id = name) => Named(Put(dir, name, content))
BY DEF IsDir, Put, FileAt, Named

\* A built-in script, or the file that is named by the id.
LEMMA FoundByName ==
  ASSUME NEW dir, IsDir(dir), Named(dir), NEW k \in DOMAIN FoundIn(dir), FoundIn(dir)[k] # NoScript
  PROVE  \/ k \in 1..Len(Builtin) /\ FoundIn(dir)[k] = Builtin[k]
         \/ /\ ~(k \in 1..Len(Builtin)) /\ k - Len(Builtin) \in 1..Len(Names)
            /\ Names[k - Len(Builtin)] = FoundIn(dir)[k].id
            /\ FoundIn(dir)[k] = FileAt(dir, FoundIn(dir)[k].id)
<1> DEFINE b == Len(Builtin)
           f == FoundIn(dir)
<1>1. /\ b \in Nat /\ Len(Names) \in Nat /\ k \in 1..b + Len(Names)
      /\ \A j \in 1..b : f[j] = Builtin[j]
      /\ \A j \in 1..Len(Names) : f[b + j] = FileAt(dir, Names[j])
  BY FoundFacts
<1> HIDE DEF f, b
<1>2. ASSUME k \notin 1..b
      PROVE  /\ k - b \in 1..Len(Names) /\ Names[k - b] = f[k].id
             /\ f[k] = FileAt(dir, f[k].id)
  <2>1. k - b \in 1..Len(Names) /\ b + (k - b) = k
    BY <1>1, <1>2
  <2>2. f[k] = FileAt(dir, Names[k - b])
    BY <1>1, <2>1
  <2>3. f[k] # NoScript
    BY DEF f
  <2>4. Names[k - b] \in DOMAIN dir /\ f[k] = dir[Names[k - b]]
    BY <2>2, <2>3 DEF FileAt
  <2>5. f[k].id = Names[k - b]
    BY <2>3, <2>4 DEF Named
  <2> QED BY <2>1, <2>2, <2>5
<1> QED BY <1>1, <1>2 DEF f, b

\* The other files count as before.
LEMMA PutKeepsOthers ==
  ASSUME NEW dir, IsDir(dir), Named(dir), NEW name, NEW content \in Scripts \cup {NoScript},
         content = NoScript \/ content.id = name,
         NEW s \in Held(AllScripts(dir)), s.id # name
  PROVE  s \in Held(AllScripts(Put(dir, name, content)))
<1> DEFINE new == Put(dir, name, content)
           f == FoundIn(dir)
           g == FoundIn(new)
           b == Len(Builtin)
<1>1. /\ IsDir(new) /\ Named(new)
      /\ \A n : FileAt(new, n) = IF n = name THEN content ELSE FileAt(dir, n)
  BY PutFacts
<1>2. DOMAIN f = DOMAIN g /\ b \in Nat
  BY <1>1, FoundFacts
<1>3. PICK k \in DOMAIN f : s = f[k] /\ f[k] # NoScript /\ ~FoundBefore(dir, k)
  <2>1. PICK k \in DOMAIN AllScripts(dir) : s = AllScripts(dir)[k] /\ s # NoScript
    BY DEF Held, Range
  <2>2. k \in DOMAIN f /\ AllScripts(dir)[k] = IF FoundBefore(dir, k) THEN NoScript ELSE f[k]
    BY <2>1, AllScriptsFacts
  <2> HIDE DEF f
  <2> QED BY <2>1, <2>2
<1>4. \A j \in 1..b : f[j] = Builtin[j] /\ g[j] = Builtin[j]
  BY <1>1, FoundFacts
<1>5. g[k] = f[k]
  <2>1. CASE k \in 1..b
    BY <1>4, <2>1
  <2>2. CASE k \notin 1..b
    <3>1. /\ k - b \in 1..Len(Names) /\ Names[k - b] = s.id
          /\ f[k] = FileAt(dir, s.id)
      BY <1>3, <2>2, FoundByName
    <3>2. b + (k - b) = k
      BY <1>2, <1>3, FoundFacts
    <3>3. g[b + (k - b)] = FileAt(new, Names[k - b])
      <4> HIDE DEF new, b, f
      <4> QED BY <1>1, <3>1, FoundFacts DEF b
    <3>4. FileAt(new, s.id) = FileAt(dir, s.id)
      BY <1>1
    <3> HIDE DEF new, b, f, g
    <3> QED BY <3>1, <3>2, <3>3, <3>4
  <2> QED BY <2>1, <2>2
<1>6. PICK j \in DOMAIN g : g[j].id = s.id /\ j <= k /\ g[j] \in Held(AllScripts(new))
  <2>1. k \in DOMAIN g /\ g[k] # NoScript
    BY <1>2, <1>3, <1>5
  <2>2. \E j \in DOMAIN g : /\ g[j].id = g[k].id /\ j <= k /\ ~FoundBefore(new, j)
                            /\ g[j] \in Held(AllScripts(new))
    <3> HIDE DEF new
    <3> QED BY <1>1, <2>1, FirstFound
  <2> HIDE DEF new, f, g
  <2> QED BY <1>3, <1>5, <2>2
<1>7. g[j] = s
  <2>0. g[j] # NoScript
    BY <1>6 DEF Held
  <2>1. CASE j \in 1..b
    <3>1. f[j].id = f[k].id
      <4> HIDE DEF new, f, g
      <4> QED BY <1>3, <1>4, <1>6, <2>1
    <3>2. j = k
      <4>1. j \notin 1..k - 1
        BY <1>3, <3>1 DEF FoundBefore
      <4>2. k \in Nat /\ j \in Nat /\ j >= 1
        BY <1>2, <1>3, <2>1, FoundFacts
      <4> QED BY <1>6, <4>1, <4>2
    <3> QED BY <1>3, <1>5, <3>2
  <2>2. CASE j \notin 1..b
    <3>1. g[j] = FileAt(new, s.id) /\ j - b \in 1..Len(Names)
      <4> HIDE DEF new
      <4> QED BY <1>1, <1>6, <2>0, <2>2, FoundByName
    <3>2. k \notin 1..b
      BY <1>2, <1>3, <1>6, <2>2, FoundFacts
    <3>3. f[k] = FileAt(dir, s.id)
      BY <1>3, <3>2, FoundByName
    <3>4. FileAt(new, s.id) = FileAt(dir, s.id)
      BY <1>1
    <3> HIDE DEF new, f, g
    <3> QED BY <1>3, <3>1, <3>3, <3>4
  <2> QED BY <2>1, <2>2
<1> QED BY <1>6, <1>7

\* A file that is named by its id counts, unless a built-in script has it.
LEMMA PutCounts ==
  ASSUME NEW dir, IsDir(dir), Named(dir), NEW s \in Scripts,
         s.id \in Range(Names), s.id \notin Ids(Builtin)
  PROVE  s \in Held(AllScripts(Put(dir, s.id, s)))
<1> DEFINE new == Put(dir, s.id, s)
           g == FoundIn(new)
           b == Len(Builtin)
<1>1. IsDir(new) /\ Named(new) /\ FileAt(new, s.id) = s
  BY PutFacts
<1> HIDE DEF new
<1>2. PICK i \in DOMAIN Names : Names[i] = s.id
  BY DEF Range
<1>3. i \in 1..Len(Names)
  BY LibraryAssumption
<1>4. b + i \in DOMAIN g /\ g[b + i] = s
  BY <1>1, <1>2, <1>3, FoundFacts
<1>5. s # NoScript /\ s.id # NoScript.id
  BY GraphAssumption
<1>6. PICK j \in DOMAIN g : g[j].id = s.id /\ g[j] \in Held(AllScripts(new))
  <2>1. g[b + i] # NoScript
    BY <1>4, <1>5
  <2> DEFINE k == b + i
  <2> HIDE DEF k
  <2>2. k \in DOMAIN g /\ g[k] # NoScript /\ g[k] = s
    BY <1>4, <2>1 DEF k
  <2>3. \E j \in DOMAIN g : /\ g[j].id = g[k].id /\ j <= k /\ ~FoundBefore(new, j)
                            /\ g[j] \in Held(AllScripts(new))
    BY <1>1, <2>2, FirstFound
  <2> HIDE DEF g
  <2> QED BY <2>2, <2>3
<1>7. g[j] # NoScript
  BY <1>6 DEF Held
<1>8. ~(j \in 1..b /\ g[j] = Builtin[j])
  <2> SUFFICES ASSUME j \in 1..b, g[j] = Builtin[j] PROVE FALSE
    OBVIOUS
  <2>1. j \in DOMAIN Builtin /\ Builtin[j].id = s.id
    BY <1>6, LibraryAssumption
  <2> QED BY <1>5, <2>1 DEF Ids
<1>9. g[j] = FileAt(new, g[j].id)
  BY <1>1, <1>7, <1>8, FoundByName
<1>10. g[j] = s
  <2> HIDE DEF g
  <2> QED BY <1>1, <1>6, <1>9
<1> QED BY <1>6, <1>10 DEF new

----------------------------------------------------------------------------
(***************************************************************************)
(* The store: what is served is sound, and a save adds its script and      *)
(* takes no other away.                                                    *)
(***************************************************************************)

Phases == {"idle", "wait new", "wait over", "new", "over", "open", "load"}
Holding == {"new", "over", "open", "load"}

StoreType ==
  /\ IsDir(files)
  /\ pc \in [Clients -> Phases] /\ request \in [Clients -> Scripts \cup {NoScript}]
  /\ \A c \in Clients : pc[c] # "idle" => request[c] \in Uploads
  /\ failed \in BOOLEAN
  /\ budget \in [saves : Nat, runs : Nat, restarts : Nat]

OneHolds == \A c, d \in Clients : pc[c] \in Holding /\ pc[d] \in Holding => c = d

Served == IsLibrary(library) /\ AllUsable(library) = Ids(library)

\* Unless a save is under way or has failed, nothing was changed since the files were read.
Fresh == (\A c \in Clients : pc[c] \notin {"open", "load"}) /\ ~failed
           => library = LoadScripts(files)

SavedWith(script) == With(library, script)

\* What was checked still holds when the save ends.
AcceptedStays ==
  \A c \in Clients : pc[c] \in Holding /\ agreed =>
    /\ request[c].id \notin Ids(Builtin) /\ Accepts(request[c], SavedWith(request[c]))
    /\ Named(files)
    /\ \A s \in Held(library) : s.id # request[c].id => s \in Held(AllScripts(files))
    /\ pc[c] = "load" => request[c] \in Held(AllScripts(files))

StoreInv == StoreType /\ OneHolds /\ Served /\ Fresh /\ AcceptedStays

\* load_scripts leaves the usable scripts of what it finds, and no others.
LEMMA LoadFacts ==
  ASSUME NEW dir, IsDir(dir)
  PROVE  /\ IsLibrary(LoadScripts(dir)) /\ AllUsable(LoadScripts(dir)) = Ids(LoadScripts(dir))
         /\ Ids(LoadScripts(dir)) = AllUsable(AllScripts(dir))
         /\ Within(LoadScripts(dir), AllScripts(dir))
BY AllScriptsFacts, DropFailingFacts DEF LoadScripts, Within

\* The steps of a run change nothing that is saved or served.
LEMMA RunKeepsStore ==
  ASSUME (\E id \in Ids(library) : RunStarts(id)) \/ Run \/ UNCHANGED vars,
         budget \in [saves : Nat, runs : Nat, restarts : Nat]
  PROVE  UNCHANGED store /\ budget' \in [saves : Nat, runs : Nat, restarts : Nat]
<1>1. CASE UNCHANGED vars
  BY <1>1 DEF vars
<1>2. CASE \E id \in Ids(library) : RunStarts(id)
  <2>1. budget.runs > 0 /\ budget' = [budget EXCEPT !.runs = @ - 1] /\ UNCHANGED store
    BY <1>2 DEF RunStarts
  <2> QED BY <2>1
<1>3. CASE Run
  <2>1. UNCHANGED <<store, budget>>
    BY <1>3 DEF Run, RunReads, RunPrepares, RunForgotten, Interpret, DispatchesLeaf, DispatchesCall,
             DispatchesRepeat, DispatchesUntil, DispatchesIf, Dispatches, Repeats, ConditionHolds,
             RunCompletes
  <2> QED BY <2>1
<1> QED BY <1>1, <1>2, <1>3

LEMMA StoreInit == Init => StoreInv
<1> SUFFICES ASSUME Init PROVE StoreInv
  OBVIOUS
<1>1. /\ IsDir(files) /\ library = LoadScripts(files) /\ failed = FALSE
      /\ pc = [c \in Clients |-> "idle"] /\ request = [c \in Clients |-> NoScript]
      /\ budget \in [saves : Nat, runs : Nat, restarts : Nat]
  <2>1. PICK w \in Worlds : files = w.files /\ budget = w.budget
    BY DEF Init
  <2>2. IsDir(w.files) /\ w.budget \in [saves : Nat, runs : Nat, restarts : Nat]
    BY LibraryAssumption DEF IsDir
  <2> QED BY <2>1, <2>2 DEF Init
<1>2. Served
  BY <1>1, LoadFacts DEF Served
<1> QED BY <1>1, <1>2 DEF StoreInv, StoreType, Phases, Holding, OneHolds, Fresh, AcceptedStays

LEMMA UploadFacts ==
  \A s \in Uploads : s \in Scripts /\ s.id \in Range(Names) /\ s # NoScript
BY LibraryAssumption, GraphAssumption

\* Every step keeps the invariant of the store.
LEMMA StoreNext == StoreInv /\ [Next]_vars => StoreInv'
<1> SUFFICES ASSUME StoreInv, [Next]_vars PROVE StoreInv'
  OBVIOUS
<1> USE DEF StoreInv
<1>1. ASSUME NEW c \in Clients, NEW s \in Uploads, NEW o \in BOOLEAN, SaveCalled(c, s, o)
      PROVE  StoreInv'
  <2>1. /\ pc[c] = "idle" /\ UNCHANGED <<files, library, agreed, failed>>
        /\ \A d \in Clients : d # c => pc'[d] = pc[d] /\ request'[d] = request[d]
        /\ pc'[c] \in {"wait new", "wait over"} /\ request'[c] = s
        /\ pc' \in [Clients -> Phases] /\ request' \in [Clients -> Scripts \cup {NoScript}]
        /\ budget' \in [saves : Nat, runs : Nat, restarts : Nat]
    <3>1. pc' \in [Clients -> Phases] /\ request' \in [Clients -> Scripts \cup {NoScript}]
      BY <1>1, UploadFacts DEF SaveCalled, StoreType, Phases
    <3>2. budget' \in [saves : Nat, runs : Nat, restarts : Nat]
      <4>1. budget.saves > 0 /\ budget' = [budget EXCEPT !.saves = @ - 1]
        BY <1>1 DEF SaveCalled
      <4> QED BY <4>1 DEF StoreType
    <3> QED BY <1>1, <3>1, <3>2 DEF SaveCalled, StoreType
  <2>2. \A d \in Clients : pc'[d] \in Holding <=> pc[d] \in Holding
    BY <2>1 DEF Holding
  <2>3. StoreType'
    BY <2>1 DEF StoreType
  <2>4. OneHolds'
    BY <2>2 DEF OneHolds
  <2>5. Served' /\ Fresh'
    BY <2>1 DEF Served, Fresh
  <2>6. \A d \in Clients : pc'[d] \in Holding => request'[d] = request[d] /\ pc'[d] = pc[d]
    BY <2>1 DEF Holding
  <2>7. AcceptedStays'
    BY <2>1, <2>2, <2>6 DEF AcceptedStays, SavedWith
  <2> QED BY <2>3, <2>4, <2>5, <2>7
<1>2. ASSUME NEW c \in Clients, SaveChecks(c) PROVE StoreInv'
  <2>1. /\ UNCHANGED <<files, library, failed, budget>> /\ pc[c] \in {"wait new", "wait over"}
        /\ \A d \in Clients : pc[d] \notin Holding
        /\ \A d \in Clients : d # c => pc'[d] = pc[d] /\ request'[d] = request[d]
        /\ pc' \in [Clients -> Phases] /\ request' \in [Clients -> Scripts \cup {NoScript}]
    BY <1>2 DEF SaveChecks, Ends, StoreType, Phases, Locked, Holding
  <2>2. CASE Acceptable(request[c])
    <3>1. /\ pc'[c] \in {"new", "over"} /\ request' = request
          /\ agreed' = (LoadScripts(files) = library /\ NamedByIds)
      BY <1>2, <2>2 DEF SaveChecks, StoreType
    <3>2. StoreType' /\ OneHolds' /\ Served' /\ Fresh'
      BY <2>1, <3>1 DEF StoreType, OneHolds, Served, Fresh
    <3>3. ASSUME agreed'
          PROVE  /\ request[c].id \notin Ids(Builtin) /\ Accepts(request[c], SavedWith(request[c]))
                 /\ Named(files) /\ Held(library) \subseteq Held(AllScripts(files))
      <4>1. LoadScripts(files) = library /\ Named(files)
        BY <3>1, <3>3 DEF NamedByIds, Named
      <4>2. request[c].id \notin Ids(Builtin) /\ Accepts(request[c], SavedWith(request[c]))
        BY <2>2, <4>1 DEF Acceptable, SavedWith, With
      <4>3. Within(library, AllScripts(files))
        BY <4>1, LoadFacts DEF StoreType
      <4> QED BY <4>1, <4>2, <4>3 DEF Within
    <3>4. AcceptedStays'
      <4> SUFFICES ASSUME NEW d \in Clients, pc'[d] \in Holding, agreed'
                   PROVE  /\ request'[d].id \notin Ids(Builtin)
                          /\ Accepts(request'[d], SavedWith(request[d])')
                          /\ Named(files')
                          /\ \A s \in Held(library') : s \in Held(AllScripts(files'))
                          /\ pc'[d] # "load"
        BY DEF AcceptedStays
      <4>1. d = c
        BY <2>1
      <4>2. SavedWith(request[c])' = SavedWith(request[c])
        BY <2>1, <3>1 DEF SavedWith
      <4>3. pc'[d] # "load"
        BY <3>1, <4>1
      <4> QED BY <2>1, <3>1, <3>3, <4>1, <4>2, <4>3
    <3> QED BY <3>2, <3>4
  <2>3. CASE ~Acceptable(request[c])
    <3>1. pc'[c] = "idle" /\ agreed' = agreed
      BY <1>2, <2>3 DEF SaveChecks, Ends, StoreType
    <3>2. \A d \in Clients : pc'[d] \notin Holding
      BY <2>1, <3>1 DEF Holding
    <3> QED BY <2>1, <3>1, <3>2 DEF StoreType, OneHolds, Served, Fresh,
                                    AcceptedStays, Holding
  <2> QED BY <2>2, <2>3

\* The client that holds the lock goes on, or gives up.
<1>3. ASSUME NEW c \in Clients, pc[c] \in Holding, pc' \in [Clients -> Phases],
             \A d \in Clients : d # c => pc'[d] = pc[d] /\ request'[d] = request[d],
             pc'[c] \in Holding => request'[c] = request[c],
             request' \in [Clients -> Scripts \cup {NoScript}],
             pc'[c] \in Holding \cup {"idle"}, budget' = budget, agreed' = agreed,
             IsDir(files'), failed' \in BOOLEAN
      PROVE  /\ StoreType' /\ OneHolds'
             /\ \A d \in Clients : d # c => pc[d] \notin Holding /\ pc'[d] \notin Holding
             /\ request[c] \in Uploads
  <2>1. \A d \in Clients : d # c => pc[d] \notin Holding /\ pc'[d] \notin Holding
    BY <1>3 DEF OneHolds
  <2>2. request[c] \in Uploads
    BY <1>3 DEF StoreType, Holding
  <2> QED BY <1>3, <2>1, <2>2 DEF StoreType, OneHolds, Holding
<1>4. ASSUME NEW c \in Clients, SaveOpens(c) PROVE StoreInv'
  <2>0. /\ pc[c] \in {"new", "over"} /\ UNCHANGED <<library, agreed, failed, budget>>
        /\ request[c] \in Uploads /\ failed' \in BOOLEAN
    BY <1>4 DEF SaveOpens, StoreType
  <2>1. CASE pc[c] = "new" /\ request[c].id \in DOMAIN files
    <3>1. Ends(c) /\ files' = files
      BY <1>4, <2>1 DEF SaveOpens
    <3>2. /\ pc' \in [Clients -> Phases] /\ request' \in [Clients -> Scripts \cup {NoScript}]
          /\ pc'[c] = "idle" /\ IsDir(files')
          /\ \A d \in Clients : d # c => pc'[d] = pc[d] /\ request'[d] = request[d]
      BY <3>1 DEF Ends, StoreType, Phases
    <3>3. /\ StoreType' /\ OneHolds'
          /\ \A d \in Clients : d # c => pc[d] \notin Holding /\ pc'[d] \notin Holding
      BY <1>3, <2>0, <3>2 DEF Holding
    <3> QED BY <2>0, <3>1, <3>2, <3>3 DEF Served, Fresh, AcceptedStays, Holding
  <2>2. CASE ~(pc[c] = "new" /\ request[c].id \in DOMAIN files)
    <3> DEFINE id == request[c].id
    <3>1. files' = Put(files, id, NoScript) /\ pc' = [pc EXCEPT ![c] = "open"] /\ request' = request
      BY <1>4, <2>2 DEF SaveOpens, PutFile, Put
    <3>2. /\ pc' \in [Clients -> Phases] /\ pc'[c] = "open"
          /\ \A d \in Clients : d # c => pc'[d] = pc[d]
      BY <3>1 DEF StoreType, Phases
    <3>3. /\ IsDir(files') /\ id \in DOMAIN files' /\ files'[id] = NoScript
          /\ Named(files) => Named(files')
      BY <3>1, PutFacts DEF StoreType
    <3>4. /\ StoreType' /\ OneHolds'
          /\ \A d \in Clients : d # c => pc[d] \notin Holding /\ pc'[d] \notin Holding
      <4>1. request' \in [Clients -> Scripts \cup {NoScript}]
        BY <3>1 DEF StoreType
      <4> HIDE DEF id
      <4> QED BY <1>3, <2>0, <3>1, <3>2, <3>3, <4>1 DEF Holding
    <3>5. Served' /\ Fresh'
      BY <2>0, <3>1, <3>2, <3>3, <3>4 DEF Served, Fresh, Holding
    <3>6. AcceptedStays'
      <4> SUFFICES ASSUME agreed
                   PROVE  /\ id \notin Ids(Builtin) /\ Accepts(request[c], SavedWith(request[c]))
                          /\ Named(files')
                          /\ \A s \in Held(library) : s.id # id => s \in Held(AllScripts(files'))
        BY <2>0, <3>1, <3>2, <3>4 DEF AcceptedStays, SavedWith
      <4>1. /\ id \notin Ids(Builtin) /\ Accepts(request[c], SavedWith(request[c])) /\ Named(files)
            /\ \A s \in Held(library) : s.id # id => s \in Held(AllScripts(files))
        BY <2>0 DEF AcceptedStays, Holding
      <4>2. IsDir(files)
        BY DEF StoreType
      <4> HIDE DEF id
      <4> QED BY <3>1, <3>3, <4>1, <4>2, PutKeepsOthers
    <3> QED BY <3>4, <3>5, <3>6
  <2> QED BY <2>1, <2>2
<1>10. ASSUME NEW c \in Clients, SaveWritesPart(c) PROVE StoreInv'
  <2> DEFINE id == request[c].id
  <2>0. /\ pc[c] = "open" /\ UNCHANGED <<library, pc, agreed, failed, budget, request>>
        /\ request[c] \in Uploads
    BY <1>10 DEF SaveWritesPart, StoreType
  <2>1. PICK left \in CutTo[request[c]] \cup {NoScript} : files' = Put(files, id, left)
    BY <1>10 DEF SaveWritesPart, PutFile, Put
  <2>2. left \in Scripts \cup {NoScript} /\ (left = NoScript \/ left.id = id)
    BY <2>0, <2>1, LibraryAssumption
  <2>3. IsDir(files') /\ (Named(files) => Named(files'))
    BY <2>1, <2>2, PutFacts DEF StoreType
  <2>4. /\ StoreType' /\ OneHolds'
        /\ \A d \in Clients : d # c => pc[d] \notin Holding /\ pc'[d] \notin Holding
    <3>1. pc' \in [Clients -> Phases] /\ request' \in [Clients -> Scripts \cup {NoScript}]
          /\ failed' \in BOOLEAN
      BY <2>0 DEF StoreType
    <3> HIDE DEF id
    <3> QED BY <1>3, <2>0, <2>3, <3>1 DEF Holding
  <2>5. Served' /\ Fresh'
    BY <2>0 DEF Served, Fresh
  <2>6. AcceptedStays'
    <3> SUFFICES ASSUME agreed
                 PROVE  /\ id \notin Ids(Builtin) /\ Accepts(request[c], SavedWith(request[c]))
                        /\ Named(files')
                        /\ \A s \in Held(library) : s.id # id => s \in Held(AllScripts(files'))
      BY <2>0, <2>4 DEF AcceptedStays, SavedWith
    <3>1. /\ id \notin Ids(Builtin) /\ Accepts(request[c], SavedWith(request[c])) /\ Named(files)
          /\ \A s \in Held(library) : s.id # id => s \in Held(AllScripts(files))
      BY <2>0 DEF AcceptedStays, Holding
    <3>2. IsDir(files)
      BY DEF StoreType
    <3> HIDE DEF id
    <3> QED BY <2>1, <2>2, <2>3, <3>1, <3>2, PutKeepsOthers
  <2> QED BY <2>4, <2>5, <2>6
<1>5. ASSUME NEW c \in Clients, SaveWrites(c) PROVE StoreInv'
  <2> DEFINE id == request[c].id
  <2>0. /\ pc[c] = "open" /\ UNCHANGED <<library, agreed, failed, budget, request>>
        /\ request[c] \in Uploads /\ failed' \in BOOLEAN
    BY <1>5 DEF SaveWrites, StoreType
  <2>1. files' = Put(files, id, request[c]) /\ pc' = [pc EXCEPT ![c] = "load"]
    BY <1>5 DEF SaveWrites, PutFile, Put
  <2>2. /\ pc' \in [Clients -> Phases] /\ pc'[c] = "load"
        /\ \A d \in Clients : d # c => pc'[d] = pc[d]
    BY <2>1 DEF StoreType, Phases
  <2>3. IsDir(files') /\ (Named(files) => Named(files'))
    BY <2>0, <2>1, PutFacts, UploadFacts DEF StoreType
  <2>4. /\ StoreType' /\ OneHolds'
        /\ \A d \in Clients : d # c => pc[d] \notin Holding /\ pc'[d] \notin Holding
    <3>1. request' \in [Clients -> Scripts \cup {NoScript}]
      BY <2>0 DEF StoreType
    <3> HIDE DEF id
    <3> QED BY <1>3, <2>0, <2>1, <2>2, <2>3, <3>1 DEF Holding
  <2>5. Served' /\ Fresh'
    BY <2>0, <2>1, <2>2, <2>4 DEF Served, Fresh, Holding
  <2>6. AcceptedStays'
    <3> SUFFICES ASSUME agreed
                 PROVE  /\ id \notin Ids(Builtin) /\ Accepts(request[c], SavedWith(request[c]))
                        /\ Named(files')
                        /\ \A s \in Held(library) : s.id # id => s \in Held(AllScripts(files'))
                        /\ request[c] \in Held(AllScripts(files'))
      BY <2>0, <2>1, <2>2, <2>4 DEF AcceptedStays, SavedWith
    <3>1. /\ id \notin Ids(Builtin) /\ Accepts(request[c], SavedWith(request[c])) /\ Named(files)
          /\ \A s \in Held(library) : s.id # id => s \in Held(AllScripts(files))
      BY <2>0 DEF AcceptedStays, Holding
    <3>2. IsDir(files) /\ request[c] \in Scripts /\ id \in Range(Names)
      BY <2>0, UploadFacts DEF StoreType
    <3>3. request[c] \in Held(AllScripts(files'))
      BY <2>1, <3>1, <3>2, PutCounts
    <3>4. \A s \in Held(library) : s.id # id => s \in Held(AllScripts(files'))
      BY <2>1, <3>1, <3>2, PutKeepsOthers
    <3> QED BY <2>3, <3>1, <3>3, <3>4
  <2> QED BY <2>4, <2>5, <2>6
<1>6. ASSUME NEW c \in Clients, SaveFails(c) \/ SaveLoadFails(c) PROVE StoreInv'
  <2>0. /\ pc[c] \in Holding /\ UNCHANGED <<files, library, agreed, budget>>
        /\ Ends(c) /\ failed' \in BOOLEAN
    BY <1>6 DEF SaveFails, SaveLoadFails, StoreType, Holding
  <2>1. /\ pc' \in [Clients -> Phases] /\ request' \in [Clients -> Scripts \cup {NoScript}]
        /\ pc'[c] = "idle" /\ IsDir(files')
        /\ \A d \in Clients : d # c => pc'[d] = pc[d] /\ request'[d] = request[d]
    BY <2>0 DEF Ends, StoreType, Phases
  <2>2. /\ StoreType' /\ OneHolds'
        /\ \A d \in Clients : d # c => pc[d] \notin Holding /\ pc'[d] \notin Holding
    BY <1>3, <2>0, <2>1 DEF Holding
  <2>3. Fresh'
    <3>1. ASSUME ~failed' PROVE ~failed /\ \A d \in Clients : pc[d] \notin {"open", "load"}
      <4>1. pc[c] \in {"new", "over"} /\ ~failed
        BY <1>6, <3>1 DEF SaveFails, SaveLoadFails
      <4> QED BY <2>2, <4>1 DEF Holding
    <3> QED BY <2>0, <3>1 DEF Fresh
  <2> QED BY <2>0, <2>1, <2>2, <2>3 DEF Served, AcceptedStays, Holding
<1>7. ASSUME NEW c \in Clients, SaveLoads(c) PROVE StoreInv'
  <2>0. /\ pc[c] = "load" /\ UNCHANGED <<files, agreed, budget>> /\ library' = LoadScripts(files)
        /\ Ends(c) /\ failed' \in BOOLEAN
    BY <1>7 DEF SaveLoads
  <2>1. /\ pc' \in [Clients -> Phases] /\ request' \in [Clients -> Scripts \cup {NoScript}]
        /\ pc'[c] = "idle" /\ IsDir(files')
        /\ \A d \in Clients : d # c => pc'[d] = pc[d] /\ request'[d] = request[d]
    BY <2>0 DEF Ends, StoreType, Phases
  <2>2. /\ StoreType' /\ OneHolds'
        /\ \A d \in Clients : d # c => pc[d] \notin Holding /\ pc'[d] \notin Holding
    BY <1>3, <2>0, <2>1 DEF Holding
  <2>3. Served'
    BY <2>0, LoadFacts DEF Served, StoreType
  <2> QED BY <2>0, <2>1, <2>2, <2>3 DEF Fresh, AcceptedStays, Holding
<1>8. ASSUME Restart PROVE StoreInv'
  <2>1. /\ library' = LoadScripts(files) /\ failed' = FALSE /\ UNCHANGED <<files, agreed>>
        /\ pc' = [c \in Clients |-> "idle"] /\ request' = [c \in Clients |-> NoScript]
        /\ budget.restarts > 0 /\ budget' = [budget EXCEPT !.restarts = @ - 1]
    BY <1>8 DEF Restart
  <2>2. Served'
    BY <2>1, LoadFacts DEF Served, StoreType
  <2>3. StoreType'
    <3>1. budget' \in [saves : Nat, runs : Nat, restarts : Nat]
      BY <2>1 DEF StoreType
    <3> QED BY <2>1, <3>1 DEF StoreType, Phases
  <2> QED BY <2>1, <2>2, <2>3 DEF OneHolds, Fresh, AcceptedStays, Holding
<1>9. ASSUME (\E id \in Ids(library) : RunStarts(id)) \/ Run \/ UNCHANGED vars PROVE StoreInv'
  <2>1. UNCHANGED store /\ budget' \in [saves : Nat, runs : Nat, restarts : Nat]
    BY <1>9, RunKeepsStore DEF StoreType
  <2> QED BY <2>1 DEF store, StoreType, OneHolds, Served, Fresh, AcceptedStays,
                      SavedWith
<1> QED BY <1>1, <1>2, <1>4, <1>5, <1>6, <1>7, <1>8, <1>9, <1>10 DEF Next, Save

(***************************************************************************)
(* load_scripts serves only scripts from which no call leads to a missing  *)
(* script, a wrong argument or a cycle, whatever the files are, whichever  *)
(* save was cut short and whatever that left in its file; and once no save *)
(* is under way and none has failed since the files were last read, it     *)
(* serves all of those.                                                    *)
(***************************************************************************)
THEOREM LibraryIsAlwaysReference == Spec => []LibraryIsReference
<1>1. StoreInv => LibraryIsReference
  <2> SUFFICES ASSUME StoreInv PROVE LibraryIsReference
    OBVIOUS
  <2>1. IsLibrary(library) /\ \A id \in Ids(library) : Usable(library, id)
    BY DEF StoreInv, Served, AllUsable
  <2>2. ASSUME Settled PROVE Ids(library) = AllUsable(AllScripts(files))
    <3>1. library = LoadScripts(files)
      BY <2>2 DEF Settled, Locked, StoreInv, Fresh
    <3> QED BY <3>1, LoadFacts DEF StoreInv, StoreType
  <2> QED BY <2>1, <2>2 DEF LibraryIsReference, AllUsable
<1> QED BY <1>1, StoreInit, StoreNext, PTL DEF Spec

(***************************************************************************)
(* save_script does what its caller is told: when the save has read the    *)
(* files again, the script that _check_library_accepts accepted is served, *)
(* and no other script was pushed out, provided that at the check the      *)
(* files were what is served.                                              *)
(***************************************************************************)
THEOREM SavesOnlyAdd == Spec => SavesAddOne
<1>1. ASSUME StoreInv, [Next]_vars, NEW c \in Clients, pc[c] = "load", pc'[c] = "idle",
             budget' = budget, agreed, ~failed'
      PROVE  /\ request[c] \in Held(library')
             /\ \A s \in Held(library) : s.id # request[c].id => s \in Held(library')
  <2>1. library' = LoadScripts(files)
    <3>1. CASE Restart
      <4>1. budget' = [budget EXCEPT !.restarts = @ - 1] /\ budget.restarts \in Nat
        BY <1>1, <3>1 DEF Restart, StoreInv, StoreType
      <4>2. budget'.restarts = budget.restarts - 1
        BY <1>1, <4>1 DEF StoreInv, StoreType
      <4> QED BY <1>1, <4>1, <4>2
    <3>2. CASE (\E id \in Ids(library) : RunStarts(id)) \/ Run \/ UNCHANGED vars
      <4>1. pc' = pc
        <5>1. budget \in [saves : Nat, runs : Nat, restarts : Nat]
          BY <1>1 DEF StoreInv, StoreType
        <5> QED BY <3>2, <5>1, RunKeepsStore DEF store
      <4> QED BY <1>1, <4>1
    <3>3. ASSUME NEW d \in Clients, NEW s \in Uploads, NEW o \in BOOLEAN, SaveCalled(d, s, o)
          PROVE  library' = LoadScripts(files)
      <4>1. pc[d] = "idle" /\ pc' = [pc EXCEPT ![d] = IF o THEN "wait over" ELSE "wait new"]
        BY <3>3 DEF SaveCalled
      <4>2. pc \in [Clients -> Phases]
        BY <1>1 DEF StoreInv, StoreType
      <4>3. d # c /\ pc'[c] = pc[c]
        BY <1>1, <4>1, <4>2
      <4> QED BY <1>1, <4>3
    <3>4. ASSUME NEW d \in Clients, Save(d) PROVE library' = LoadScripts(files)
      <4>1. CASE SaveLoads(d)
        BY <4>1 DEF SaveLoads
      <4>2. CASE ~SaveLoads(d)
        <5>1. pc[d] # "load" /\ \A e \in Clients : e # d => pc'[e] = pc[e]
          BY <1>1, <3>4, <4>2 DEF Save, SaveChecks, SaveOpens, SaveWritesPart, SaveWrites, SaveFails,
                                  SaveLoadFails, Ends, StoreInv, StoreType
        <5> QED BY <1>1, <5>1
      <4> QED BY <4>1, <4>2
    <3> QED BY <1>1, <3>1, <3>2, <3>3, <3>4 DEF Next
  <2> DEFINE script == request[c]
             lib == SavedWith(script)
             all == AllScripts(files)
  <2>2. /\ script \in Scripts /\ Accepts(script, lib) /\ script \in Held(all)
        /\ \A s \in Held(library) : s.id # script.id => s \in Held(all)
    <3>1. script \in Uploads
      BY <1>1 DEF StoreInv, StoreType
    <3> QED BY <1>1, <3>1, UploadFacts DEF StoreInv, AcceptedStays, Holding
  <2>3. /\ IsLibrary(lib) /\ AllUsable(lib) = Ids(lib)
        /\ \A s : s \in Held(lib) <=> s = script \/ (s \in Held(library) /\ s.id # script.id)
    <3>1. IsLibrary(library) /\ AllUsable(library) = Ids(library)
      BY <1>1 DEF StoreInv, Served
    <3>2. Accepts(script, With(library, script)) /\ script \in Scripts
      BY <2>2 DEF SavedWith
    <3> HIDE DEF script
    <3> QED BY <3>1, <3>2, AcceptedFacts DEF SavedWith
  <2> HIDE DEF lib, script
  <2>4. /\ IsLibrary(all) /\ Within(library', all) /\ Ids(library') = AllUsable(all)
    BY <1>1, <2>1, AllScriptsFacts, LoadFacts DEF StoreInv, StoreType
  <2> HIDE DEF all
  <2>5. Within(lib, all)
    BY <2>2, <2>3, <2>4 DEF Within
  <2>6. Ids(lib) \subseteq Ids(library')
    <3>1. Safe(lib, Ids(lib))
      BY <2>3, UsableIsSafe
    <3>2. Safe(all, Ids(lib))
      BY <2>5, <3>1, SafeWithin
    <3> QED BY <2>4, <3>2, SafeIsUsable
  <2>7. ASSUME NEW s \in Held(lib) PROVE s \in Held(library')
    <3>1. s.id \in Ids(library') /\ s \in Held(all)
      BY <2>3, <2>5, <2>6, LibraryFacts DEF Within
    <3>2. Script(all, s.id) = s /\ Script(library', s.id) = Script(all, s.id)
      BY <2>4, <3>1, LibraryFacts, WithinFacts
    <3> QED BY <2>4, <3>1, <3>2, LibraryFacts DEF Within
  <2> QED BY <2>3, <2>7 DEF script
<1>2. StoreInv /\ [Next]_vars =>
        [\A c \in Clients : pc[c] = "load" /\ pc'[c] = "idle" /\ budget' = budget /\ agreed /\ ~failed'
           => /\ request[c] \in Held(library')
              /\ \A s \in Held(library) : s.id # request[c].id => s \in Held(library')]_vars
  BY <1>1
<1> QED BY <1>2, StoreInit, StoreNext, PTL DEF Spec, SavesAddOne

----------------------------------------------------------------------------
(***************************************************************************)
(* A run that reads its scripts one by one while clients save.             *)
(***************************************************************************)

NotRunning == /\ snapshot = <<>> /\ unread = <<>> /\ reloads = 0 /\ total = None
              /\ todo = <<>> /\ steps = 0 /\ plain = TRUE

IsSnapshot == /\ IsLibrary(snapshot) /\ \A k \in DOMAIN snapshot : snapshot[k] \in Scripts
              /\ unread \in Seq(STRING) /\ reloads \in Nat

\* Everything that is called was read, or is to be.
CallsRead(s) == Called(s) \subseteq Ids(snapshot) \cup Range(unread)
Closing == \A s \in Held(snapshot) : CallsRead(s)

\* At most x is another script now.
ChangedAt(x) == \A s \in Held(first) : s.id # x => s \in Held(library)

FromFirst == Held(snapshot) \subseteq Held(first) /\ Range(unread) \subseteq Ids(first)

ReadsFromOne ==
  /\ reloads = 0 => library = first /\ FromFirst
  /\ reloads = 1 => \A x : ChangedAt(x) => \/ Held(snapshot) \subseteq Held(library)
                                           \/ x \in Ids(snapshot) /\ FromFirst

ReadInv ==
  /\ stage = "none" => NotRunning
  /\ stage = "reading" =>
       /\ IsLibrary(first) /\ AllUsable(first) = Ids(first)
       /\ IsSnapshot /\ Closing /\ ReadsFromOne
       /\ unread = <<>> => snapshot # <<>>
       /\ total = None /\ plain = TRUE /\ steps = 0

LEMMA EmptyIsLibrary ==
  /\ IsLibrary(<<>>) /\ Held(<<>>) = {} /\ Ids(<<>>) = {}
BY DEF IsLibrary, Libraries, Held, Range, Ids

LEMMA ReadInit == Init => ReadInv
BY DEF Init, ReadInv, NotRunning

\* A snapshot with one more script.
LEMMA AppendsOne ==
  ASSUME NEW lib, IsLibrary(lib), NEW s \in Scripts, s.id \notin Ids(lib),
         \A k \in DOMAIN lib : lib[k] \in Scripts
  PROVE  /\ IsLibrary(Append(lib, s)) /\ Append(lib, s) # <<>>
         /\ \A k \in DOMAIN Append(lib, s) : Append(lib, s)[k] \in Scripts
         /\ Held(Append(lib, s)) = Held(lib) \cup {s} /\ Ids(Append(lib, s)) = Ids(lib) \cup {s.id}
<1> DEFINE S == Scripts \cup {NoScript}
           n == Len(lib)
           l == Append(lib, s)
<1>1. lib \in Seq(S) /\ s \in S /\ n \in Nat /\ DOMAIN lib = 1..n
  BY LibrariesFacts DEF IsLibrary, Libraries
<1>2. l \in Seq(S) /\ Len(l) = n + 1 /\ l[n + 1] = s /\ l # <<>> /\ \A k \in 1..n : l[k] = lib[k]
  <2> HIDE DEF S
  <2> QED BY <1>1, AppendProperties
<1> HIDE DEF l, n
<1>3. DOMAIN l = 1..n + 1 /\ (\A k \in 1..n + 1 : k \in 1..n \/ k = n + 1) /\ n + 1 \in 1..n + 1
      /\ \A k \in 1..n : k \in 1..n + 1
  BY <1>1, <1>2
<1>4. \A k \in 1..n : lib[k].id \in Ids(lib) /\ lib[k].id # s.id
  <2>1. \A k \in 1..n : lib[k].id # NoScript.id
    BY <1>1, GraphAssumption
  <2>2. \A k \in 1..n : lib[k].id \in Ids(lib)
    BY <1>1, <2>1 DEF Ids
  <2> QED BY <2>2
<1>5. IsLibrary(l)
  <2> SUFFICES ASSUME NEW j \in 1..n + 1, NEW k \in 1..n + 1, l[j].id = l[k].id, j # k
               PROVE  l[j] = NoScript
    BY <1>2, <1>3 DEF IsLibrary, Libraries
  <2>1. j \in 1..n /\ k \in 1..n
    BY <1>2, <1>3, <1>4
  <2> QED BY <1>1, <1>2, <2>1 DEF IsLibrary
<1>6. \A k \in 1..n + 1 : l[k] \in Scripts
  BY <1>1, <1>2, <1>3
<1>7. s # NoScript /\ s.id # NoScript.id
  BY GraphAssumption
<1>8. Held(l) = Held(lib) \cup {s}
  BY <1>1, <1>2, <1>3, <1>7 DEF Held, Range
<1>9. Ids(l) = Ids(lib) \cup {s.id}
  BY <1>1, <1>2, <1>3, <1>7 DEF Ids
<1> QED BY <1>2, <1>3, <1>5, <1>6, <1>8, <1>9 DEF l

\* The next script is read, or was before.
LEMMA ReadsNext ==
  ASSUME stage = "reading", ReadInv, Served, RunReads, stage' = "reading"
  PROVE  /\ IsSnapshot' /\ Closing' /\ ReadsFromOne' /\ (unread' = <<>> => snapshot' # <<>>)
         /\ UNCHANGED <<library, first, reloads>>
<1> DEFINE id == Head(unread)
           rest == Tail(unread)
           s == Script(library, id)
<1>1. /\ IsSnapshot /\ Closing /\ ReadsFromOne /\ unread # <<>> /\ id \in Ids(library)
      /\ UNCHANGED <<library, first, reloads>>
      /\ snapshot' = IF id \in Ids(snapshot) THEN snapshot ELSE Append(snapshot, s)
      /\ unread' = (IF id \in Ids(snapshot) THEN <<>> ELSE Callees(s)) \o rest
  BY DEF ReadInv, RunReads, store
<1>2. /\ unread \in Seq(STRING) /\ rest \in Seq(STRING) /\ id \in STRING
      /\ Range(unread) = {id} \cup Range(rest)
  BY <1>1, RangeOfTail DEF IsSnapshot
<1>3. s \in Held(library) /\ s \in Scripts /\ s.id = id
  BY <1>1, LibraryFacts DEF Served
<1>4. s \in Scripts \cup {NoScript}
  BY <1>3
<1>5. Callees(s) \in Seq(STRING) /\ Range(Callees(s)) = Called(s)
  <2>1. Callees(s) \in Seq(STRING)
    <3> HIDE DEF s
    <3> QED BY <1>4, CalleesFacts
  <2> QED BY <2>1 DEF Called
<1>6. IsLibrary(snapshot) /\ \A k \in DOMAIN snapshot : snapshot[k] \in Scripts
  BY <1>1 DEF IsSnapshot
<1>7. CASE id \in Ids(snapshot)
  <2>1. snapshot' = snapshot /\ unread' = rest
    <3>1. unread' = <<>> \o rest
      BY <1>1, <1>7
    <3> HIDE DEF rest
    <3> QED BY <1>1, <1>2, <1>7, <3>1
  <2>2. snapshot # <<>>
    BY <1>7, EmptyIsLibrary
  <2>3. IsSnapshot'
    BY <1>1, <1>2, <2>1 DEF IsSnapshot
  <2>4. Closing'
    <3> HIDE DEF id, rest
    <3> QED BY <1>1, <1>2, <1>7, <2>1 DEF Closing, CallsRead
  <2>5. ReadsFromOne'
    <3>1. FromFirst => FromFirst'
      <4> HIDE DEF id, rest
      <4> QED BY <1>1, <1>2, <2>1 DEF FromFirst
    <3> QED BY <1>1, <2>1, <3>1 DEF ReadsFromOne, ChangedAt
  <2> QED BY <1>1, <2>1, <2>2, <2>3, <2>4, <2>5
<1>8. CASE id \notin Ids(snapshot)
  <2>1. snapshot' = Append(snapshot, s) /\ unread' = Callees(s) \o rest
    BY <1>1, <1>8
  <2> HIDE DEF id, rest, s
  <2>2. /\ IsLibrary(snapshot') /\ snapshot' # <<>>
        /\ \A k \in DOMAIN snapshot' : snapshot'[k] \in Scripts
        /\ Held(snapshot') = Held(snapshot) \cup {s} /\ Ids(snapshot') = Ids(snapshot) \cup {id}
    <3>1. s.id \notin Ids(snapshot)
      BY <1>3, <1>8
    <3> QED BY <1>3, <1>6, <2>1, <3>1, AppendsOne
  <2>3. unread' \in Seq(STRING) /\ Range(unread') = Called(s) \cup Range(rest)
    BY <1>2, <1>5, <2>1, RangeConcatenation
  <2>4. IsSnapshot'
    BY <1>1, <2>2, <2>3 DEF IsSnapshot
  <2>5. Closing'
    BY <1>1, <1>2, <2>2, <2>3 DEF Closing, CallsRead
  <2>6. FromFirst /\ s \in Held(first) /\ IsLibrary(first) /\ AllUsable(first) = Ids(first)
          => FromFirst'
    <3> SUFFICES ASSUME FromFirst, s \in Held(first), IsLibrary(first), AllUsable(first) = Ids(first)
                 PROVE  FromFirst'
      OBVIOUS
    <3>1. s.id \in Ids(first) /\ Script(first, s.id) = s
      BY LibraryFacts
    <3>2. Called(s) \subseteq Ids(first)
      BY <3>1, UsableIsSafe DEF Safe
    <3> QED BY <1>1, <1>2, <2>2, <2>3, <3>2 DEF FromFirst
  <2>7. IsLibrary(first) /\ AllUsable(first) = Ids(first)
    BY DEF ReadInv
  <2>8. ReadsFromOne'
    <3>1. ASSUME reloads = 0 PROVE library = first /\ FromFirst'
      BY <1>1, <1>3, <2>6, <2>7, <3>1 DEF ReadsFromOne
    <3>2. ASSUME reloads = 1, NEW x, ChangedAt(x)
          PROVE  \/ Held(snapshot') \subseteq Held(library)
                 \/ x \in Ids(snapshot') /\ FromFirst'
      <4>1. CASE Held(snapshot) \subseteq Held(library)
        BY <1>3, <2>2, <4>1
      <4>2. CASE x \in Ids(snapshot) /\ FromFirst
        <5>1. id \in Ids(first) /\ id # x
          BY <1>2, <1>8, <4>2 DEF FromFirst
        <5>2. Script(first, id) \in Held(first) /\ Script(first, id).id = id
          BY <2>7, <5>1, LibraryFacts
        <5>3. Script(first, id) \in Held(library)
          BY <3>2, <5>1, <5>2 DEF ChangedAt
        <5>4. Script(first, id) = s
          BY <5>2, <5>3, LibraryFacts DEF Served, s
        <5> QED BY <2>2, <2>6, <2>7, <4>2, <5>2, <5>4
      <4> QED BY <1>1, <3>2, <4>1, <4>2 DEF ReadsFromOne
    <3>3. \A x : ChangedAt(x)' => ChangedAt(x)
      BY <1>1 DEF ChangedAt
    <3> QED BY <1>1, <3>1, <3>2, <3>3 DEF ReadsFromOne
  <2> QED BY <1>1, <2>2, <2>4, <2>5, <2>8
<1> QED BY <1>7, <1>8

LEMMA RunStartsReading ==
  ASSUME StoreInv, ReadInv, NEW id \in Ids(library), RunStarts(id)
  PROVE  ReadInv'
<1>1. /\ stage' = "reading" /\ unread' = <<id>> /\ first' = library
      /\ UNCHANGED <<library, snapshot, reloads, total, usage, todo, steps, plain>>
      /\ snapshot = <<>> /\ reloads = 0 /\ total = None /\ plain = TRUE /\ steps = 0
  BY DEF RunStarts, ReadInv, NotRunning, store
<1>2. IsLibrary(library) /\ AllUsable(library) = Ids(library)
  BY DEF StoreInv, Served
<1>3. id \in STRING
  BY <1>2, LibraryIds
<1>4. IsLibrary(first') /\ AllUsable(first') = Ids(first')
  BY <1>1, <1>2
<1>5. snapshot' = <<>> /\ Held(snapshot') = {} /\ Ids(snapshot') = {} /\ IsLibrary(snapshot')
  BY <1>1, EmptyIsLibrary
<1>6. unread' \in Seq(STRING) /\ Range(unread') = {id} /\ unread' # <<>>
  BY <1>1, <1>3 DEF Range
<1>7. IsSnapshot'
  BY <1>1, <1>5, <1>6 DEF IsSnapshot
<1>8. Closing'
  BY <1>5 DEF Closing
<1>9. ReadsFromOne'
  BY <1>1, <1>5, <1>6 DEF ReadsFromOne, FromFirst
<1> QED BY <1>1, <1>4, <1>6, <1>7, <1>8, <1>9 DEF ReadInv

\* While a run reads, its scripts are of the first library, or of the one that is served.
LEMMA LoadsKeepReading ==
  ASSUME StoreInv, ReadInv, NEW c \in Clients, SaveLoads(c)
  PROVE  ReadInv'
<1>1. /\ reloads' = IF stage = "reading" THEN reloads + 1 ELSE reloads
      /\ UNCHANGED <<stage, first, snapshot, unread, total, usage, todo, steps, plain>>
  BY DEF SaveLoads
<1>2. CASE stage # "reading"
  BY <1>1, <1>2 DEF ReadInv, NotRunning
<1>3. CASE stage = "reading"
  <2>1. /\ IsLibrary(first) /\ AllUsable(first) = Ids(first)
        /\ IsSnapshot /\ Closing /\ ReadsFromOne
        /\ unread = <<>> => snapshot # <<>>
        /\ total = None /\ plain = TRUE /\ steps = 0
    BY <1>3 DEF ReadInv
  <2>2. reloads \in Nat /\ reloads' = reloads + 1
    BY <1>1, <1>3, <2>1 DEF IsSnapshot
  <2>3. IsSnapshot' /\ Closing'
    BY <1>1, <2>1, <2>2 DEF IsSnapshot, Closing, CallsRead
  <2>4. ReadsFromOne'
    <3>1. reloads' # 0
      BY <2>2
    <3>2. ASSUME reloads' = 1, NEW x, ChangedAt(x)'
          PROVE  \/ Held(snapshot') \subseteq Held(library')
                 \/ x \in Ids(snapshot') /\ FromFirst'
      <4>1. reloads = 0 /\ FromFirst
        BY <2>1, <2>2, <3>2 DEF ReadsFromOne
      <4>2. FromFirst'
        BY <1>1, <4>1 DEF FromFirst
      <4>3. CASE x \notin Ids(snapshot)
        <5>1. IsLibrary(snapshot)
          BY <2>1 DEF IsSnapshot
        <5>2. \A s \in Held(snapshot) : s.id # x /\ s \in Held(first)
          BY <4>1, <4>3, <5>1, LibraryFacts DEF FromFirst
        <5>3. \A s \in Held(first) : s.id # x => s \in Held(library')
          BY <1>1, <3>2 DEF ChangedAt
        <5> QED BY <1>1, <5>2, <5>3
      <4> QED BY <1>1, <4>2, <4>3
    <3> QED BY <3>1, <3>2 DEF ReadsFromOne
  <2> QED BY <1>1, <1>3, <2>1, <2>3, <2>4 DEF ReadInv
<1> QED BY <1>2, <1>3

\* Every step keeps what holds while a run reads.
LEMMA ReadNext == StoreInv /\ ReadInv /\ [Next]_vars => ReadInv'
<1> SUFFICES ASSUME StoreInv, ReadInv, [Next]_vars PROVE ReadInv'
  OBVIOUS
<1>1. CASE UNCHANGED <<library, run>>
  BY <1>1 DEF run, ReadInv, NotRunning, IsSnapshot, Closing, CallsRead, ReadsFromOne, FromFirst, ChangedAt
<1>2. ASSUME NEW c \in Clients, Save(c) PROVE ReadInv'
  <2>1. CASE SaveLoads(c)
    BY <2>1, LoadsKeepReading
  <2>2. CASE ~SaveLoads(c)
    BY <1>1, <1>2, <2>2 DEF Save, SaveChecks, SaveOpens, SaveWritesPart, SaveWrites, SaveFails,
                            SaveLoadFails
  <2> QED BY <2>1, <2>2
<1>3. ASSUME NEW c \in Clients, NEW s \in Uploads, NEW o \in BOOLEAN, SaveCalled(c, s, o)
      PROVE  ReadInv'
  BY <1>1, <1>3 DEF SaveCalled
<1>4. ASSUME NEW id \in Ids(library), RunStarts(id) PROVE ReadInv'
  BY <1>4, RunStartsReading
<1>5. CASE RunReads
  <2>1. CASE stage' = "reading"
    <3>1. stage = "reading" /\ Served
      BY <1>5 DEF RunReads, StoreInv
    <3>2. /\ IsSnapshot' /\ Closing' /\ ReadsFromOne' /\ (unread' = <<>> => snapshot' # <<>>)
          /\ UNCHANGED <<library, first, reloads>>
      BY <1>5, <2>1, <3>1, ReadsNext
    <3>3. UNCHANGED <<total, plain, steps>>
      BY <1>5 DEF RunReads
    <3> QED BY <2>1, <3>1, <3>2, <3>3 DEF ReadInv
  <2>2. CASE stage' # "reading"
    BY <1>5, <2>2 DEF RunReads, ReadInv
  <2> QED BY <2>1, <2>2
<1>6. CASE RunPrepares
  BY <1>6 DEF RunPrepares, ReadInv
<1>7. CASE Interpret
  BY <1>7 DEF Interpret, DispatchesLeaf, DispatchesCall, DispatchesRepeat, DispatchesUntil,
              DispatchesIf, Dispatches, At, Repeats, ConditionHolds, RunCompletes, ReadInv
<1>8. CASE RunForgotten
  BY <1>8 DEF RunForgotten, NoRun, ReadInv, NotRunning
<1>9. CASE Restart
  BY <1>9 DEF Restart, NoRun, ReadInv, NotRunning
<1>10. CASE UNCHANGED vars
  BY <1>1, <1>10 DEF vars, store
<1> QED BY <1>2, <1>3, <1>4, <1>5, <1>6, <1>7, <1>8, <1>9, <1>10 DEF Next, Run

\* Scripts of one library in which everything is usable, closed under calls.
LEMMA ClosedPartIsSound ==
  ASSUME NEW lib, Within(snapshot, lib), AllUsable(lib) = Ids(lib),
         \A s \in Held(snapshot) : Called(s) \subseteq Ids(snapshot)
  PROVE  Safe(snapshot, Ids(snapshot))
<1> DEFINE W == Ids(snapshot)
<1>1. Safe(lib, Ids(lib)) /\ W \subseteq Ids(lib) /\ \A i \in W : Script(snapshot, i) = Script(lib, i)
  BY UsableIsSafe, WithinFacts DEF Within
<1>2. \A i \in W : Called(Script(lib, i)) \subseteq W
  BY <1>1, LibraryFacts DEF Within
<1>3. Safe(lib, W)
  BY <1>1, <1>2 DEF Safe
<1> QED BY <1>3, SafeWithin

\* A run refuses no snapshot that is safe.
LEMMA SafeSnapshotResolves ==
  ASSUME IsSnapshot, Safe(snapshot, Ids(snapshot))
  PROVE  ArgumentsResolve /\ IsAcyclic(snapshot)
<1>1. IsAcyclic(snapshot)
  BY DEF Safe, IsAcyclic
<1>2. ASSUME NEW k \in DOMAIN snapshot, NEW c \in Range(Calls(snapshot[k]))
      PROVE  NamesFit(c, Script(snapshot, c.to))
  <2>1. snapshot[k] \in Held(snapshot)
    BY GraphAssumption DEF IsSnapshot, Held, Range
  <2>2. snapshot[k].id \in Ids(snapshot) /\ Script(snapshot, snapshot[k].id) = snapshot[k]
    BY <2>1, LibraryFacts DEF IsSnapshot
  <2>3. CallsFit(snapshot[k], snapshot)
    BY <2>2 DEF Safe
  <2> QED BY <2>3 DEF CallsFit, ArgumentsFit
<1> QED BY <1>1, <1>2 DEF ArgumentsResolve

(***************************************************************************)
(* execute_script reads its scripts one by one while save_script reloads   *)
(* the library.  If at most one of them changed meanwhile, the run finds   *)
(* every call resolved and no cycle, whichever version of the script it    *)
(* got.                                                                    *)
(***************************************************************************)
THEOREM ASnapshotIsSound == Spec => []SnapshotIsSound
<1>1. StoreInv /\ ReadInv => SnapshotIsSound
  <2> SUFFICES ASSUME StoreInv, ReadInv, stage = "reading", unread = <<>>,
                      reloads = 0 \/ (reloads = 1 /\ OneChanged)
               PROVE  ArgumentsResolve /\ IsAcyclic(snapshot)
    BY DEF SnapshotIsSound
  <2>1. /\ IsLibrary(first) /\ AllUsable(first) = Ids(first) /\ IsSnapshot /\ Closing /\ ReadsFromOne
        /\ IsLibrary(library) /\ AllUsable(library) = Ids(library)
    BY DEF ReadInv, StoreInv, Served
  <2>2. IsLibrary(snapshot) /\ \A s \in Held(snapshot) : Called(s) \subseteq Ids(snapshot)
    BY <2>1 DEF IsSnapshot, Closing, CallsRead, Range
  <2>3. Held(snapshot) \subseteq Held(first) \/ Held(snapshot) \subseteq Held(library)
    BY <2>1 DEF ReadsFromOne, FromFirst, OneChanged, ChangedAt
  <2>4. Within(snapshot, first) \/ Within(snapshot, library)
    BY <2>1, <2>2, <2>3 DEF Within
  <2>5. Safe(snapshot, Ids(snapshot))
    BY <2>1, <2>2, <2>4, ClosedPartIsSound
  <2> QED BY <2>1, <2>5, SafeSnapshotResolves
<1> QED BY <1>1, StoreInit, StoreNext, ReadInit, ReadNext, PTL DEF Spec

----------------------------------------------------------------------------
(***************************************************************************)
(* Scripts that call each other only and never come back: from a step into *)
(* one of its blocks, or into a script that it calls, leads down.          *)
(***************************************************************************)

\* A library whose scripts call each other only, and none comes back.
Sealed(lib) ==
  /\ IsLibrary(lib) /\ IsAcyclic(lib)
  /\ \A i \in Ids(lib) : Called(Script(lib, i)) \subseteq Ids(lib)

\* What may be called from a sequence of steps.
Needs(lib, b) == UNION {{c.to} \cup Reachable(lib, c.to) : c \in Range(CallsIn[b])}

Ranks(lib) == [b \in ClosedBlocks(lib) |-> Cardinality(Needs(lib, b))]
Nestings(lib) == [b \in ClosedBlocks(lib) |-> Nesting[b]]
NoRanks(lib) == [b \in ClosedBlocks(lib) |-> 0]
Below(lib, a, b) == /\ a \in ClosedBlocks(lib)
                    /\ \/ Ranks(lib)[a] < Ranks(lib)[b]
                       \/ Ranks(lib)[a] = Ranks(lib)[b] /\ Nestings(lib)[a] < Nestings(lib)[b]

\* In a sealed library no script reaches itself.
LEMMA SealedReaches ==
  ASSUME NEW lib, Sealed(lib), NEW i \in Ids(lib)
  PROVE  /\ i \in STRING \ {""} /\ Reachable(lib, i) \subseteq Ids(lib) \ {i}
         /\ \A j \in Called(Script(lib, i)) : j \in Reachable(lib, i)
         /\ \A j \in Reachable(lib, i) : Reachable(lib, j) \subseteq Reachable(lib, i)
<1> USE DEF Sealed
<1>1. \A j \in Ids(lib) : j \in STRING \ {""}
  BY LibraryIds
<1>2. /\ \A j : Leads(lib, i, j) => j \in Ids(lib)
      /\ \A e \in Ids(lib) : \A j : Leads(lib, e, j) => j \in Ids(lib)
  BY DEF Leads
<1>3. Reachable(lib, i) \subseteq Ids(lib)
  BY <1>1, <1>2, ReachableFacts
<1>4. i \notin Reachable(lib, i)
  BY DEF IsAcyclic
<1>5. \A j \in Called(Script(lib, i)) : j \in Reachable(lib, i)
  BY <1>1, ReachableFacts DEF Leads
<1>6. \A j \in Reachable(lib, i) : Reachable(lib, j) \subseteq Reachable(lib, i)
  BY <1>1, <1>3, ReachableIsTransitive
<1> QED BY <1>1, <1>3, <1>4, <1>5, <1>6

\* A sequence of steps is ranked by how many scripts may be called from it.
LEMMA RanksAreNatural ==
  ASSUME NEW lib, Sealed(lib)
  PROVE  /\ Ranks(lib) \in [ClosedBlocks(lib) -> Nat] /\ Nestings(lib) \in [ClosedBlocks(lib) -> Nat]
         /\ NoRanks(lib) \in [ClosedBlocks(lib) -> Nat]
         /\ \A b \in ClosedBlocks(lib) : b \in Blocks /\ Needs(lib, b) \subseteq Ids(lib)
<1>1. ASSUME NEW b \in ClosedBlocks(lib)
      PROVE  b \in Blocks /\ Needs(lib, b) \subseteq Ids(lib) /\ Cardinality(Needs(lib, b)) \in Nat
  <2>1. b \in Blocks /\ \A c \in Range(CallsIn[b]) : c.to \in Ids(lib)
    BY DEF ClosedBlocks
  <2>2. Needs(lib, b) \subseteq Ids(lib)
    <3>1. \A i \in Ids(lib) : Reachable(lib, i) \subseteq Ids(lib)
      BY SealedReaches
    <3> QED BY <2>1, <3>1 DEF Needs
  <2>3. IsFiniteSet(Ids(lib))
    BY LibraryFacts DEF Sealed
  <2> QED BY <2>1, <2>2, <2>3, FS_Subset, FS_CardinalityType
<1> QED BY <1>1, GraphAssumption DEF Ranks, Nestings, NoRanks

LEMMA FewerNeeds ==
  ASSUME NEW lib, Sealed(lib), NEW a \in ClosedBlocks(lib), NEW b \in ClosedBlocks(lib),
         Needs(lib, a) \subseteq Needs(lib, b)
  PROVE  /\ Ranks(lib)[a] <= Ranks(lib)[b]
         /\ Needs(lib, a) # Needs(lib, b) => Ranks(lib)[a] < Ranks(lib)[b]
<1>1. IsFiniteSet(Needs(lib, b))
  <2>1. Needs(lib, b) \subseteq Ids(lib) /\ IsFiniteSet(Ids(lib))
    BY RanksAreNatural, LibraryFacts DEF Sealed
  <2> QED BY <2>1, FS_Subset
<1>2. /\ Cardinality(Needs(lib, a)) <= Cardinality(Needs(lib, b))
      /\ Needs(lib, a) # Needs(lib, b) => Cardinality(Needs(lib, a)) < Cardinality(Needs(lib, b))
  <2>1. /\ IsFiniteSet(Needs(lib, a)) /\ Cardinality(Needs(lib, a)) <= Cardinality(Needs(lib, b))
        /\ Needs(lib, a) # Needs(lib, b) => Cardinality(Needs(lib, b)) # Cardinality(Needs(lib, a))
    BY <1>1, FS_Subset
  <2>2. Cardinality(Needs(lib, a)) \in Nat /\ Cardinality(Needs(lib, b)) \in Nat
    BY <1>1, <2>1, FS_CardinalityType
  <2> QED BY <2>1, <2>2
<1> QED BY <1>2 DEF Ranks

\* What a step contains or calls is lower than the sequence it is in.
LEMMA StepsGoDown ==
  ASSUME NEW lib, Sealed(lib), NEW b \in ClosedBlocks(lib), NEW k \in DOMAIN b
  PROVE  /\ b[k] \in Steps
         /\ b[k].do \in {"repeat", "until"} => Below(lib, b[k].steps, b)
         /\ b[k].do = "if" => Below(lib, b[k].then, b) /\ Below(lib, b[k].else, b)
         /\ b[k].do = "call" => b[k].to \in Ids(lib) /\ Below(lib, Script(lib, b[k].to).steps, b)
<1>1. b \in Blocks /\ b[k] \in Steps
  BY StepFacts DEF ClosedBlocks
<1>2. ASSUME NEW i \in DOMAIN Inner(b[k]) PROVE Below(lib, Inner(b[k])[i], b)
  <2> DEFINE a == Inner(b[k])[i]
  <2>1. a \in Blocks /\ Nesting[a] < Nesting[b] /\ Range(CallsIn[a]) \subseteq Range(CallsIn[b])
    BY <1>1, StepFacts, CallsInFacts
  <2>2. a \in ClosedBlocks(lib)
    BY <2>1 DEF ClosedBlocks
  <2> HIDE DEF a
  <2>3. Needs(lib, a) \subseteq Needs(lib, b)
    BY <2>1 DEF Needs
  <2>4. Ranks(lib)[a] <= Ranks(lib)[b] /\ Nestings(lib)[a] < Nestings(lib)[b]
    BY <2>1, <2>2, <2>3, FewerNeeds DEF Nestings
  <2>5. Ranks(lib)[a] \in Nat /\ Ranks(lib)[b] \in Nat
    BY <2>2, RanksAreNatural
  <2> QED BY <2>2, <2>4, <2>5 DEF Below, a
<1>3. ASSUME b[k].do \in {"repeat", "until"} PROVE Below(lib, b[k].steps, b)
  <2>1. Inner(b[k]) = <<b[k].steps>>
    BY <1>3 DEF Inner
  <2>2. 1 \in DOMAIN <<b[k].steps>> /\ <<b[k].steps>>[1] = b[k].steps
    OBVIOUS
  <2> QED BY <1>2, <2>1, <2>2
<1>4. ASSUME b[k].do = "if" PROVE Below(lib, b[k].then, b) /\ Below(lib, b[k].else, b)
  <2>1. Inner(b[k]) = <<b[k].then, b[k].else>>
    BY <1>4 DEF Inner
  <2> DEFINE e == <<b[k].then, b[k].else>>
  <2>2. 1 \in DOMAIN e /\ e[1] = b[k].then /\ 2 \in DOMAIN e /\ e[2] = b[k].else
    OBVIOUS
  <2> HIDE DEF e
  <2>3. Inner(b[k]) = e
    BY <2>1 DEF e
  <2> QED BY <1>2, <2>2, <2>3
<1>5. ASSUME b[k].do = "call"
      PROVE  b[k].to \in Ids(lib) /\ Below(lib, Script(lib, b[k].to).steps, b)
  <2> DEFINE i == b[k].to
             s == Script(lib, i)
             a == s.steps
  <2>1. b[k] \in Range(CallsIn[b]) /\ i \in Ids(lib)
    BY <1>1, <1>5, CallsInFacts DEF ClosedBlocks
  <2>2. /\ s \in Scripts \cup {NoScript} /\ a \in Blocks
        /\ Called(s) = {c.to : c \in Range(CallsIn[a])} /\ Called(s) \subseteq Ids(lib)
    <3>1. s \in Scripts \cup {NoScript} /\ Called(s) \subseteq Ids(lib)
      BY <2>1, LibraryFacts DEF Sealed
    <3> HIDE DEF s
    <3> QED BY <3>1, CalleesFacts DEF Calls
  <2>3. a \in ClosedBlocks(lib)
    BY <2>2 DEF ClosedBlocks
  <2>4. /\ Reachable(lib, i) \subseteq Ids(lib) \ {i}
        /\ \A j \in Called(s) : j \in Reachable(lib, i)
        /\ \A j \in Reachable(lib, i) : Reachable(lib, j) \subseteq Reachable(lib, i)
    BY <2>1, SealedReaches
  <2> HIDE DEF s, i, a
  <2>5. Needs(lib, a) \subseteq Reachable(lib, i)
    BY <2>2, <2>4 DEF Needs
  <2>6. i \in Needs(lib, b) /\ Reachable(lib, i) \subseteq Needs(lib, b)
    BY <2>1 DEF Needs, i
  <2>7. Ranks(lib)[a] < Ranks(lib)[b]
    <3>1. Needs(lib, a) \subseteq Needs(lib, b) /\ Needs(lib, a) # Needs(lib, b)
      BY <2>4, <2>5, <2>6
    <3> QED BY <2>3, <3>1, FewerNeeds
  <2> QED BY <2>1, <2>3, <2>7 DEF Below, a, s, i
<1> QED BY <1>1, <1>3, <1>4, <1>5

\* The steps of a script that is held call only scripts that are held.
LEMMA ScriptsAreClosed ==
  ASSUME NEW lib, Sealed(lib), NEW s \in Held(lib)
  PROVE  s.steps \in ClosedBlocks(lib)
<1>1. s \in Scripts /\ s.id \in Ids(lib) /\ Script(lib, s.id) = s
  BY LibraryFacts DEF Sealed
<1>2. Called(s) \subseteq Ids(lib)
  BY <1>1 DEF Sealed
<1> QED BY <1>1, <1>2, CalleesFacts DEF ClosedBlocks, Calls

----------------------------------------------------------------------------
(***************************************************************************)
(* _count_total_steps.                                                     *)
(***************************************************************************)

Numbers == Int \cup {None}

LEMMA PlusFacts ==
  /\ \A m, n \in Numbers : Plus(m, n) \in Numbers
  /\ \A m, n, o \in Numbers : Plus(Plus(m, n), o) = Plus(m, Plus(n, o))
  /\ \A n \in Numbers : Plus(0, n) = n /\ Plus(n, 0) = n
BY GraphAssumption DEF Plus, Numbers

\* The sums of what comes first.
Sums(h, ns) == /\ h \in [0..Len(ns) -> Numbers] /\ h[0] = 0
               /\ \A k \in 1..Len(ns) : h[k] = Plus(h[k - 1], ns[k])

\* Sum adds one after another, and is None as soon as one is.
LEMMA SumFacts ==
  ASSUME NEW ns \in Seq(Numbers)
  PROVE  Sum(ns) \in Numbers /\ \E h : Sums(h, ns) /\ Sum(ns) = h[Len(ns)]
<1> DEFINE n == Len(ns)
           step == [k \in 1..n |-> [m \in Numbers |-> Plus(m, ns[k])]]
           G(f) == [k \in 0..Len(ns) |-> IF k = 0 THEN 0 ELSE Plus(f[k - 1], ns[k])]
           sum == CHOOSE f : f = G(f)
<1>1. n \in Nat /\ 0 \in Numbers /\ \A k \in 1..n : ns[k] \in Numbers
  BY DEF Numbers
<1>2. \A k \in (0 + 1)..n : \A m \in Numbers : step[k][m] \in Numbers
  <2> SUFFICES ASSUME NEW k \in (0 + 1)..n, NEW m \in Numbers PROVE step[k][m] \in Numbers
    OBVIOUS
  <2>1. k \in 1..n /\ ns[k] \in Numbers
    BY <1>1
  <2>2. Plus(m, ns[k]) \in Numbers
    BY <2>1, PlusFacts
  <2> QED BY <2>1, <2>2
<1>3. PICK h : Iterated(h, Numbers, 0, step, 0, n)
  <2>1. StaysIn(Numbers, 0, step, 0, n)
    BY <1>1, <1>2 DEF StaysIn
  <2> HIDE DEF step, n
  <2> QED BY <2>1, Iterates
<1>4. h = G(h)
  <2>1. \A k \in 0..n : h[k] = G(h)[k]
    <3> SUFFICES ASSUME NEW k \in 0..n, k # 0 PROVE h[k] = Plus(h[k - 1], ns[k])
      BY <1>3 DEF Iterated
    <3>1. k \in 1..n /\ k - 1 \in 0..n
      OBVIOUS
    <3>2. h[k - 1] \in Numbers
      BY <1>3, <3>1 DEF Iterated
    <3> QED BY <1>3, <3>1, <3>2 DEF Iterated
  <2> QED BY <1>3, <2>1 DEF Iterated
<1>5. Sum(ns) = sum[Len(ns)]
  BY DEF Sum
<1>6. sum = G(sum)
  <2> HIDE DEF G
  <2> QED BY <1>4
<1> HIDE DEF sum
<1>7. \A k \in 0..n : sum[k] = IF k = 0 THEN 0 ELSE Plus(sum[k - 1], ns[k])
  <2> SUFFICES ASSUME NEW k \in 0..n PROVE sum[k] = IF k = 0 THEN 0 ELSE Plus(sum[k - 1], ns[k])
    OBVIOUS
  <2>1. sum[k] = G(sum)[k]
    <3> HIDE DEF G
    <3> QED BY <1>6
  <2> QED BY <2>1
<1>8. \A k \in Nat : k \in 0..n => sum[k] \in Numbers
  <2> DEFINE N == {k \in Nat : k \in 0..n => sum[k] \in Numbers}
  <2>1. 0 \in N
    BY <1>1, <1>7
  <2>2. ASSUME NEW k \in Nat, k \in N PROVE k + 1 \in N
    <3> SUFFICES ASSUME k + 1 \in 0..n PROVE sum[k + 1] \in Numbers
      OBVIOUS
    <3>1. k \in 0..n /\ k + 1 \in 1..n /\ k + 1 # 0 /\ (k + 1) - 1 = k
      BY <1>1
    <3>2. sum[k + 1] = Plus(sum[k], ns[k + 1])
      <4> HIDE DEF n
      <4> QED BY <1>7, <3>1
    <3>3. sum[k] \in Numbers /\ ns[k + 1] \in Numbers
      BY <1>1, <2>2, <3>1
    <3> HIDE DEF n, N
    <3> QED BY <3>2, <3>3, PlusFacts
  <2>3. Nat \subseteq N
    <3> HIDE DEF N
    <3> QED BY <2>1, <2>2, Natural
  <2> QED BY <2>3
<1>9. sum \in [0..n -> Numbers]
  BY <1>6, <1>8
<1>10. Sums(sum, ns)
  <2>1. 0 \in 0..n /\ \A k \in 1..n : k \in 0..n /\ k # 0
    BY <1>1
  <2> HIDE DEF n
  <2>2. sum[0] = 0 /\ \A k \in 1..n : sum[k] = Plus(sum[k - 1], ns[k])
    BY <1>7, <2>1
  <2> QED BY <1>9, <2>2 DEF Sums, n
<1>11. n \in 0..n
  BY <1>1
<1> QED BY <1>5, <1>8, <1>10, <1>11

LEMMA SumOfNoneAndOne ==
  /\ Sum(<<>>) = 0
  /\ \A n \in Numbers : Sum(<<n>>) = n
<1>1. Sum(<<>>) = 0
  <2>1. <<>> \in Seq(Numbers) /\ Len(<<>>) = 0
    OBVIOUS
  <2> QED BY <2>1, SumFacts DEF Sums
<1>2. ASSUME NEW n \in Numbers PROVE Sum(<<n>>) = n
  <2>1. <<n>> \in Seq(Numbers) /\ Len(<<n>>) = 1 /\ <<n>>[1] = n
    OBVIOUS
  <2>2. PICK h : Sums(h, <<n>>) /\ Sum(<<n>>) = h[Len(<<n>>)]
    BY <2>1, SumFacts
  <2>3. h[0] = 0 /\ h[1] = Plus(h[1 - 1], n)
    BY <2>1, <2>2 DEF Sums
  <2> QED BY <2>1, <2>2, <2>3, PlusFacts
<1> QED BY <1>1, <1>2

\* The sum of two sequences is that of their sums.
LEMMA SumOfBoth ==
  ASSUME NEW ms \in Seq(Numbers), NEW ns \in Seq(Numbers)
  PROVE  Sum(ms \o ns) = Plus(Sum(ms), Sum(ns))
<1> DEFINE l == Len(ms)
           n == Len(ns)
           os == ms \o ns
<1>1. /\ os \in Seq(Numbers) /\ l \in Nat /\ n \in Nat /\ Len(os) = l + n
      /\ \A k \in 1..l : os[k] = ms[k]
      /\ \A k \in 1..n : os[l + k] = ns[k]
  <2>1. ASSUME NEW S, NEW a \in Seq(S), NEW b \in Seq(S)
        PROVE  /\ a \o b \in Seq(S) /\ Len(a) \in Nat /\ Len(b) \in Nat
               /\ Len(a \o b) = Len(a) + Len(b)
               /\ \A k \in 1..Len(a) : (a \o b)[k] = a[k]
               /\ \A k \in 1..Len(b) : (a \o b)[Len(a) + k] = b[k]
    OBVIOUS
  <2> QED BY <2>1
<1> HIDE DEF os
<1>2. PICK f : Sums(f, ms) /\ Sum(ms) = f[l]
  BY SumFacts
<1>3. PICK g : Sums(g, ns) /\ Sum(ns) = g[n]
  BY SumFacts
<1>4. PICK h : Sums(h, os) /\ Sum(os) = h[l + n]
  BY <1>1, SumFacts
<1> HIDE DEF l, n
<1>5. /\ f \in [0..l -> Numbers] /\ f[0] = 0 /\ \A k \in 1..l : f[k] = Plus(f[k - 1], ms[k])
      /\ g \in [0..n -> Numbers] /\ g[0] = 0 /\ \A k \in 1..n : g[k] = Plus(g[k - 1], ns[k])
      /\ h[0] = 0 /\ \A k \in 1..l + n : h[k] = Plus(h[k - 1], os[k])
  BY <1>1, <1>2, <1>3, <1>4 DEF Sums, l, n
<1>6. \A k \in Nat : k \in 0..l => h[k] = f[k]
  <2> DEFINE N == {k \in Nat : k \in 0..l => h[k] = f[k]}
  <2>1. 0 \in N
    BY <1>5
  <2>2. ASSUME NEW k \in Nat, k \in N PROVE k + 1 \in N
    <3> SUFFICES ASSUME k + 1 \in 0..l PROVE h[k + 1] = f[k + 1]
      OBVIOUS
    <3>1. k \in 0..l /\ k + 1 \in 1..l /\ k + 1 \in 1..l + n /\ (k + 1) - 1 = k
      BY <1>1
    <3>2. h[k + 1] = Plus(h[k], os[k + 1]) /\ f[k + 1] = Plus(f[k], ms[k + 1])
      BY <1>5, <3>1
    <3> QED BY <1>1, <2>2, <3>1, <3>2
  <2>3. Nat \subseteq N
    <3> HIDE DEF N
    <3> QED BY <2>1, <2>2, Natural
  <2> QED BY <2>3
<1>7. \A k \in Nat : k \in 0..n => h[l + k] = Plus(f[l], g[k])
  <2> DEFINE N == {k \in Nat : k \in 0..n => h[l + k] = Plus(f[l], g[k])}
  <2>0. l \in 0..l /\ f[l] \in Numbers /\ l + 0 = l
    BY <1>1, <1>5
  <2>1. 0 \in N
    <3>1. h[l] = f[l] /\ Plus(f[l], g[0]) = f[l]
      BY <1>1, <1>5, <1>6, <2>0, PlusFacts
    <3> QED BY <2>0, <3>1
  <2>2. ASSUME NEW k \in Nat, k \in N PROVE k + 1 \in N
    <3> SUFFICES ASSUME k + 1 \in 0..n PROVE h[l + (k + 1)] = Plus(f[l], g[k + 1])
      OBVIOUS
    <3>1. /\ k \in 0..n /\ k + 1 \in 1..n /\ l + (k + 1) \in 1..l + n /\ (k + 1) - 1 = k
          /\ (l + (k + 1)) - 1 = l + k
      BY <1>1
    <3>2. h[l + (k + 1)] = Plus(h[l + k], os[l + (k + 1)])
      BY <1>5, <3>1
    <3>3. g[k + 1] = Plus(g[k], ns[k + 1]) /\ os[l + (k + 1)] = ns[k + 1]
      BY <1>1, <1>5, <3>1
    <3>4. h[l + k] = Plus(f[l], g[k])
      BY <2>2, <3>1
    <3>5. g[k] \in Numbers /\ ns[k + 1] \in Numbers
      <4>1. \A j \in 1..n : ns[j] \in Numbers
        BY DEF n
      <4> QED BY <1>5, <3>1, <4>1
    <3>6. Plus(Plus(f[l], g[k]), ns[k + 1]) = Plus(f[l], Plus(g[k], ns[k + 1]))
      BY <2>0, <3>5, PlusFacts
    <3> QED BY <3>2, <3>3, <3>4, <3>6
  <2>3. Nat \subseteq N
    <3> HIDE DEF N
    <3> QED BY <2>1, <2>2, Natural
  <2> QED BY <2>3
<1>8. n \in 0..n
  BY <1>1
<1> QED BY <1>1, <1>2, <1>3, <1>4, <1>7, <1>8 DEF os

\* The steps that may be dispatched.
SomeSteps(lib) == UNION {Range(b) : b \in ClosedBlocks(lib)}

Counted(lib, f, ss) == [k \in DOMAIN ss |-> CountOne(ss[k], lib, f)]

LEMMA SomeStepsFacts ==
  ASSUME NEW lib, Sealed(lib), NEW s \in SomeSteps(lib)
  PROVE  /\ s \in Steps
         /\ s.do \in {"leaf", "call", "repeat", "until", "if"}
         /\ s.do \in {"repeat", "until"} => s.steps \in ClosedBlocks(lib)
         /\ s.do = "repeat" => s.count \in Int
         /\ s.do = "if" => s.then \in ClosedBlocks(lib) /\ s.else \in ClosedBlocks(lib)
         /\ s.do = "call" => s.to \in Ids(lib) /\ Script(lib, s.to).steps \in ClosedBlocks(lib)
<1>1. PICK b \in ClosedBlocks(lib) : s \in Range(b)
  BY DEF SomeSteps
<1>2. PICK k \in DOMAIN b : b[k] = s
  BY <1>1 DEF Range
<1>3. /\ s \in Steps
      /\ s.do \in {"repeat", "until"} => s.steps \in ClosedBlocks(lib)
      /\ s.do = "if" => s.then \in ClosedBlocks(lib) /\ s.else \in ClosedBlocks(lib)
      /\ s.do = "call" => s.to \in Ids(lib) /\ Script(lib, s.to).steps \in ClosedBlocks(lib)
  BY <1>2, StepsGoDown DEF Below
<1> QED BY <1>3, GraphAssumption

LEMMA BlocksAreSteps ==
  ASSUME NEW lib, NEW b \in ClosedBlocks(lib)
  PROVE  b \in Seq(SomeSteps(lib))
<1>1. b \in Seq(Steps) /\ DOMAIN b = 1..Len(b) /\ Len(b) \in Nat
  BY GraphAssumption DEF ClosedBlocks
<1>2. \A k \in DOMAIN b : b[k] \in SomeSteps(lib)
  BY DEF SomeSteps, Range
<1>3. b = [k \in 1..Len(b) |-> b[k]]
  BY <1>1
<1>4. [k \in 1..Len(b) |-> b[k]] \in [1..Len(b) -> SomeSteps(lib)]
  BY <1>1, <1>2
<1> QED BY <1>1, <1>3, <1>4, SeqDef

LEMMA CountOneIsNumber ==
  ASSUME NEW lib, Sealed(lib), NEW f \in [ClosedBlocks(lib) -> Numbers], NEW s \in SomeSteps(lib)
  PROVE  CountOne(s, lib, f) \in Numbers
<1>0. 1 \in Numbers /\ None \in Numbers /\ 0 \in Numbers
  BY DEF Numbers
<1>1. CASE s.do = "leaf"
  BY <1>0, <1>1 DEF CountOne
<1>2. CASE s.do = "until"
  BY <1>0, <1>2 DEF CountOne
<1>3. CASE s.do = "repeat"
  <2>1. f[s.steps] \in Numbers /\ s.count \in Int
    BY <1>3, SomeStepsFacts
  <2>2. f[s.steps] # None => 1 + f[s.steps] * s.count \in Int
    BY <2>1 DEF Numbers
  <2>3. CountOne(s, lib, f) = IF f[s.steps] = None THEN None ELSE 1 + f[s.steps] * s.count
    BY <1>3 DEF CountOne
  <2> QED BY <2>2, <2>3 DEF Numbers
<1>4. CASE s.do = "if"
  <2>1. Plus(1, f[s.then]) \in Numbers
    BY <1>0, <1>4, SomeStepsFacts, PlusFacts
  <2>2. CountOne(s, lib, f) = IF f[s.then] # f[s.else] THEN None ELSE Plus(1, f[s.then])
    BY <1>4 DEF CountOne
  <2> QED BY <1>0, <2>1, <2>2
<1>5. CASE s.do = "call"
  <2>1. Plus(1, f[Script(lib, s.to).steps]) \in Numbers
    BY <1>0, <1>5, SomeStepsFacts, PlusFacts
  <2>2. CountOne(s, lib, f) = Plus(1, f[Script(lib, s.to).steps])
    BY <1>5 DEF CountOne
  <2> QED BY <2>1, <2>2
<1> QED BY <1>1, <1>2, <1>3, <1>4, <1>5, SomeStepsFacts

LEMMA CountedAreNumbers ==
  ASSUME NEW lib, Sealed(lib), NEW f \in [ClosedBlocks(lib) -> Numbers],
         NEW ss \in Seq(SomeSteps(lib))
  PROVE  /\ Counted(lib, f, ss) \in Seq(Numbers) /\ Len(Counted(lib, f, ss)) = Len(ss)
         /\ Sum(Counted(lib, f, ss)) \in Numbers
<1>1. DOMAIN ss = 1..Len(ss) /\ Len(ss) \in Nat /\ \A k \in 1..Len(ss) : ss[k] \in SomeSteps(lib)
  OBVIOUS
<1>2. \A k \in 1..Len(ss) : CountOne(ss[k], lib, f) \in Numbers
  BY <1>1, CountOneIsNumber
<1>3. Counted(lib, f, ss) \in [1..Len(ss) -> Numbers]
  BY <1>1, <1>2 DEF Counted
<1>4. Counted(lib, f, ss) \in Seq(Numbers) /\ Len(Counted(lib, f, ss)) = Len(ss)
  BY <1>1, <1>3, SeqDef
<1> QED BY <1>4, SumFacts

\* The count of a sequence looks only at what is lower.
LEMMA CountLooksBelow ==
  ASSUME NEW lib, Sealed(lib), NEW f, NEW g, NEW b \in ClosedBlocks(lib),
         \A a : Below(lib, a, b) => f[a] = g[a]
  PROVE  Counted(lib, f, b) = Counted(lib, g, b)
<1>1. ASSUME NEW k \in DOMAIN b PROVE CountOne(b[k], lib, f) = CountOne(b[k], lib, g)
  <2>1. b[k].do \in {"leaf", "call", "repeat", "until", "if"}
    BY StepsGoDown, GraphAssumption
  <2>2. CASE b[k].do \in {"leaf", "until"}
    BY <2>2 DEF CountOne
  <2>3. CASE b[k].do = "repeat"
    <3>1. f[b[k].steps] = g[b[k].steps]
      BY <2>3, StepsGoDown
    <3> QED BY <2>3, <3>1 DEF CountOne
  <2>4. CASE b[k].do = "if"
    <3>1. f[b[k].then] = g[b[k].then] /\ f[b[k].else] = g[b[k].else]
      BY <2>4, StepsGoDown
    <3> QED BY <2>4, <3>1 DEF CountOne
  <2>5. CASE b[k].do = "call"
    <3>1. f[Script(lib, b[k].to).steps] = g[Script(lib, b[k].to).steps]
      BY <2>5, StepsGoDown
    <3> QED BY <2>5, <3>1 DEF CountOne
  <2> QED BY <2>1, <2>2, <2>3, <2>4, <2>5
<1> QED BY <1>1 DEF Counted

\* CountSteps has the value of its definition.
LEMMA CountEquation ==
  ASSUME NEW lib, Sealed(lib)
  PROVE  /\ CountSteps(lib) \in [ClosedBlocks(lib) -> Numbers]
         /\ \A b \in ClosedBlocks(lib) :
              CountSteps(lib)[b] = Sum(Counted(lib, CountSteps(lib), b))
<1> DEFINE D == ClosedBlocks(lib)
           Body(f) == [b \in ClosedBlocks(lib) |-> Sum(Counted(lib, f, b))]
           F == [f \in [D -> Numbers] |-> Body(f)]
           m == Ranks(lib)
           n == Nestings(lib)
           z == NoRanks(lib)
           count == CountSteps(lib)
<1>0. \A a, b \in D : Below(lib, a, b) => Lower(m, n, z, a, b)
  BY DEF Below, Lower
<1>1. ASSUME NEW f \in [D -> Numbers] PROVE Body(f) \in [D -> Numbers]
  <2>1. \A b \in D : Sum(Counted(lib, f, b)) \in Numbers
    BY BlocksAreSteps, CountedAreNumbers
  <2> QED BY <2>1
<1>2. ASSUME NEW f, NEW g, NEW b \in D, \A a \in D : Lower(m, n, z, a, b) => f[a] = g[a]
      PROVE  Body(f)[b] = Body(g)[b]
  <2>1. \A a : Below(lib, a, b) => f[a] = g[a]
    <3> SUFFICES ASSUME NEW a, Below(lib, a, b) PROVE f[a] = g[a]
      OBVIOUS
    <3>1. a \in D
      BY DEF Below
    <3> HIDE DEF D, m, n, z
    <3> QED BY <1>0, <1>2, <3>1
  <2>2. Counted(lib, f, b) = Counted(lib, g, b)
    BY <2>1, CountLooksBelow
  <2> QED BY <2>2
<1>3. Contracts(F, D, Numbers, m, n, z)
  <2>1. F \in [[D -> Numbers] -> [D -> Numbers]]
    <3> HIDE DEF Body, D
    <3> QED BY <1>1
  <2>2. m \in [D -> Nat] /\ n \in [D -> Nat] /\ z \in [D -> Nat] /\ Numbers # {}
    BY RanksAreNatural DEF Numbers
  <2>3. ASSUME NEW f \in [D -> Numbers], NEW g \in [D -> Numbers], NEW b \in D,
               \A a \in D : Lower(m, n, z, a, b) => f[a] = g[a]
        PROVE  F[f][b] = F[g][b]
    <3>1. Body(f)[b] = Body(g)[b]
      <4> HIDE DEF Body, D, m, n, z
      <4> QED BY <1>2, <2>3
    <3> HIDE DEF Body, D
    <3> QED BY <3>1
  <2> HIDE DEF F, D, m, n, z
  <2> QED BY <2>1, <2>2, <2>3 DEF Contracts
<1>4. PICK f \in [D -> Numbers] : f = Body(f)
  <2>1. PICK f \in [D -> Numbers] : f = F[f]
    <3> HIDE DEF F, D, m, n, z
    <3> QED BY <1>3, MeasuredRecursion
  <2> HIDE DEF Body, D
  <2> QED BY <2>1
<1>5. CountSteps(lib) = CHOOSE g : g = Body(g)
  BY DEF CountSteps, Counted
<1>6. count = Body(count)
  <2> HIDE DEF Body
  <2> QED BY <1>4, <1>5
<1>7. \A b \in D : count[b] = f[b]
  <2>1. ASSUME NEW b \in D, \A a \in D : Lower(m, n, z, a, b) => count[a] = f[a]
        PROVE  count[b] = f[b]
    <3>1. Body(count)[b] = Body(f)[b]
      <4> HIDE DEF Body, D, m, n, z, count
      <4> QED BY <1>2, <2>1
    <3> HIDE DEF Body, count
    <3> QED BY <1>4, <1>6, <3>1
  <2>2. Follows(count, f, D, m, n, z)
    <3> HIDE DEF D, count
    <3> QED BY <2>1, RanksAreNatural DEF Follows, D
  <2> HIDE DEF D, m, n, z, count
  <2> QED BY <2>2, SameByMeasure
<1>8. \A b \in D : count[b] = Body(count)[b]
  <2> HIDE DEF Body, count
  <2> QED BY <1>6
<1>9. count = [b \in D |-> count[b]]
  <2>1. Body(count) = [b \in D |-> Body(count)[b]]
    OBVIOUS
  <2> HIDE DEF Body, count
  <2> QED BY <1>6, <2>1
<1> HIDE DEF count
<1>10. count \in [D -> Numbers]
  BY <1>7, <1>9
<1>11. \A b \in D : count[b] = Sum(Counted(lib, count, b))
  BY <1>8
<1> QED BY <1>10, <1>11 DEF count

----------------------------------------------------------------------------
(***************************************************************************)
(* Steps whose count is exact: none has `every`, and none a negative       *)
(* count.                                                                  *)
(***************************************************************************)

EvenStep(f, s) == /\ s.every = NoEvery
                  /\ s.do = "repeat" => s.count >= 0
                  /\ \A i \in Range(Inner(s)) : f[i]
EvenBlock(f, b) == \A s \in Range(b) : EvenStep(f, s)

\* Even has the value of its definition.
LEMMA EvenEquation == \A b \in Blocks : Even[b] = EvenBlock(Even, b)
<1> DEFINE Body(f) == [b \in Blocks |-> EvenBlock(f, b)]
           F == [f \in [Blocks -> BOOLEAN] |-> Body(f)]
           z == [b \in Blocks |-> 0]
<1>1. ASSUME NEW f, NEW g, NEW b \in Blocks,
             \A a \in Blocks : Nesting[a] < Nesting[b] => f[a] = g[a]
      PROVE  Body(f)[b] = Body(g)[b]
  <2>1. ASSUME NEW s \in Range(b), NEW i \in Range(Inner(s)) PROVE f[i] = g[i]
    BY <1>1, GraphAssumption
  <2>2. ASSUME NEW s \in Range(b) PROVE EvenStep(f, s) = EvenStep(g, s)
    BY <2>1 DEF EvenStep
  <2>3. EvenBlock(f, b) = EvenBlock(g, b)
    BY <2>2 DEF EvenBlock
  <2> QED BY <2>3
<1>2. Contracts(F, Blocks, BOOLEAN, Nesting, z, z)
  <2>1. F \in [[Blocks -> BOOLEAN] -> [Blocks -> BOOLEAN]]
    <3>1. \A f \in [Blocks -> BOOLEAN] : Body(f) \in [Blocks -> BOOLEAN]
      BY DEF EvenBlock
    <3> HIDE DEF Body
    <3> QED BY <3>1
  <2>2. Nesting \in [Blocks -> Nat] /\ z \in [Blocks -> Nat] /\ BOOLEAN # {}
    BY GraphAssumption
  <2>3. ASSUME NEW f \in [Blocks -> BOOLEAN], NEW g \in [Blocks -> BOOLEAN], NEW b \in Blocks,
               \A a \in Blocks : Lower(Nesting, z, z, a, b) => f[a] = g[a]
        PROVE  F[f][b] = F[g][b]
    <3>1. \A a \in Blocks : Nesting[a] < Nesting[b] => f[a] = g[a]
      BY <2>3 DEF Lower
    <3>2. Body(f)[b] = Body(g)[b]
      <4> HIDE DEF Body
      <4> QED BY <1>1, <3>1
    <3> HIDE DEF Body
    <3> QED BY <3>2
  <2> HIDE DEF F, z
  <2> QED BY <2>1, <2>2, <2>3 DEF Contracts
<1>3. PICK f \in [Blocks -> BOOLEAN] : f = Body(f)
  <2>1. PICK f \in [Blocks -> BOOLEAN] : f = F[f]
    <3> HIDE DEF F, z
    <3> QED BY <1>2, MeasuredRecursion
  <2> HIDE DEF Body
  <2> QED BY <2>1
<1>4. Even = CHOOSE g : g = Body(g)
  BY DEF Even, EvenBlock, EvenStep
<1>5. Even = Body(Even)
  <2> HIDE DEF Body
  <2> QED BY <1>3, <1>4
<1>6. \A b \in Blocks : Even[b] = Body(Even)[b]
  <2> HIDE DEF Body
  <2> QED BY <1>5
<1> QED BY <1>6

EvenBlocks(lib) == {b \in ClosedBlocks(lib) : Even[b]}
EvenSteps(lib) == UNION {Range(b) : b \in EvenBlocks(lib)}

LEMMA EvenBlocksAreSteps ==
  ASSUME NEW lib, NEW b \in EvenBlocks(lib)
  PROVE  b \in Seq(EvenSteps(lib))
<1>1. b \in Seq(Steps) /\ DOMAIN b = 1..Len(b) /\ Len(b) \in Nat
  BY GraphAssumption DEF EvenBlocks, ClosedBlocks
<1>2. \A k \in DOMAIN b : b[k] \in EvenSteps(lib)
  BY DEF EvenSteps, Range
<1>3. b = [k \in 1..Len(b) |-> b[k]]
  BY <1>1
<1>4. [k \in 1..Len(b) |-> b[k]] \in [1..Len(b) -> EvenSteps(lib)]
  BY <1>1, <1>2
<1> QED BY <1>1, <1>3, <1>4, SeqDef

\* What an even step contains or calls is even.
LEMMA EvenStepsFacts ==
  ASSUME NEW lib, Sealed(lib), Countable(lib), NEW s \in EvenSteps(lib)
  PROVE  /\ s \in SomeSteps(lib) /\ s.every = NoEvery
         /\ s.do \in {"repeat", "until"} => s.steps \in EvenBlocks(lib)
         /\ s.do = "repeat" => s.count \in Nat
         /\ s.do = "if" => s.then \in EvenBlocks(lib) /\ s.else \in EvenBlocks(lib)
         /\ s.do = "call" => Script(lib, s.to).steps \in EvenBlocks(lib)
<1>1. PICK b \in EvenBlocks(lib) : s \in Range(b)
  BY DEF EvenSteps
<1>2. b \in ClosedBlocks(lib) /\ b \in Blocks /\ Even[b]
  BY DEF EvenBlocks, ClosedBlocks
<1>3. s \in SomeSteps(lib)
  BY <1>1, <1>2 DEF SomeSteps
<1>4. EvenStep(Even, s)
  BY <1>1, <1>2, EvenEquation DEF EvenBlock
<1>5. ASSUME s.do \in {"repeat", "until"} PROVE s.steps \in EvenBlocks(lib)
  <2>1. Inner(s) = <<s.steps>>
    BY <1>5 DEF Inner
  <2>2. s.steps \in Range(<<s.steps>>)
    BY DEF Range
  <2> QED BY <1>3, <1>4, <1>5, <2>1, <2>2, SomeStepsFacts DEF EvenStep, EvenBlocks
<1>6. ASSUME s.do = "if" PROVE s.then \in EvenBlocks(lib) /\ s.else \in EvenBlocks(lib)
  <2>1. Inner(s) = <<s.then, s.else>>
    BY <1>6 DEF Inner
  <2>2. s.then \in Range(<<s.then, s.else>>) /\ s.else \in Range(<<s.then, s.else>>)
    <3> DEFINE e == <<s.then, s.else>>
    <3>1. 1 \in DOMAIN e /\ e[1] = s.then /\ 2 \in DOMAIN e /\ e[2] = s.else
      OBVIOUS
    <3> HIDE DEF e
    <3>2. s.then \in Range(e) /\ s.else \in Range(e)
      BY <3>1 DEF Range
    <3> QED BY <3>2 DEF e
  <2>3. Even[s.then] /\ Even[s.else]
    BY <1>4, <2>1, <2>2 DEF EvenStep
  <2> QED BY <1>3, <1>6, <2>3, SomeStepsFacts DEF EvenBlocks
<1>7. ASSUME s.do = "repeat" PROVE s.count \in Nat
  <2>1. s.count \in Int
    BY <1>3, <1>7, SomeStepsFacts
  <2>2. s.count >= 0
    BY <1>4, <1>7 DEF EvenStep
  <2> QED BY <2>1, <2>2
<1>8. ASSUME s.do = "call" PROVE Script(lib, s.to).steps \in EvenBlocks(lib)
  <2>1. s.to \in Ids(lib) /\ Script(lib, s.to).steps \in ClosedBlocks(lib)
    BY <1>3, <1>8, SomeStepsFacts
  <2>2. Script(lib, s.to) \in Held(lib)
    BY <2>1, LibraryFacts DEF Sealed
  <2>3. PICK k \in DOMAIN lib : lib[k] = Script(lib, s.to)
    BY <2>2 DEF Held, Range
  <2>4. Even[Script(lib, s.to).steps]
    BY <2>3 DEF Countable
  <2> QED BY <2>1, <2>4 DEF EvenBlocks
<1> QED BY <1>3, <1>4, <1>5, <1>6, <1>7, <1>8 DEF EvenStep

\* An iteration runs every step, when no step has an `every`.
LEMMA FlattenOnes ==
  ASSUME NEW S, NEW b \in Seq(S), NEW ss \in Seq(Seq(S)), Len(ss) = Len(b),
         \A k \in 1..Len(b) : ss[k] = <<b[k]>>
  PROVE  FlattenSeq(ss) = b
<1>1. CASE Len(b) = 0
  <2>1. ss = <<>> /\ b = <<>>
    BY <1>1
  <2>2. FlattenSeq(<<>>) = <<>>
    BY DEF FlattenSeq
  <2> QED BY <2>1, <2>2
<1>2. CASE Len(b) > 0
  <2> DEFINE n == Len(b)
  <2>1. PICK h \in [1..n -> Seq(S)] :
          /\ h[1] = ss[1] /\ FlattenSeq(ss) = h[n]
          /\ \A k \in 2..n : h[k] = h[k - 1] \o ss[k]
    <3>1. PICK h \in [1..Len(ss) -> Seq(S)] :
            /\ h[1] = ss[1] /\ FlattenSeq(ss) = h[Len(ss)]
            /\ \A k \in 2..Len(ss) : h[k] = h[k - 1] \o ss[k]
      BY <1>2, FlattenSteps
    <3> QED BY <3>1
  <2>2. n \in Nat /\ n > 0 /\ DOMAIN b = 1..n /\ \A k \in 1..n : b[k] \in S /\ ss[k] = <<b[k]>>
    BY <1>2
  <2> HIDE DEF n
  <2> DEFINE Right(k) == Len(h[k]) = k /\ \A j \in 1..k : h[k][j] = b[j]
             N == {k \in Nat : k \in 1..n => Right(k)}
  <2>3. 0 \in N
    OBVIOUS
  <2>4. ASSUME NEW k \in Nat, k \in N PROVE k + 1 \in N
    <3> SUFFICES ASSUME k + 1 \in 1..n PROVE Right(k + 1)
      OBVIOUS
    <3>1. CASE k = 0
      <4>1. h[1] = <<b[1]>> /\ k + 1 = 1
        BY <2>1, <2>2, <3>1
      <4>2. Len(<<b[1]>>) = 1 /\ \A j \in 1..1 : <<b[1]>>[j] = b[j]
        OBVIOUS
      <4>3. Right(1)
        BY <4>1, <4>2
      <4> HIDE DEF Right
      <4> QED BY <4>1, <4>3
    <3>2. CASE k # 0
      <4>1. k \in 1..n /\ Right(k) /\ k + 1 \in 2..n /\ (k + 1) - 1 = k
        BY <2>2, <2>4, <3>2
      <4>2. h[k] \in Seq(S) /\ b[k + 1] \in S
        BY <2>1, <2>2, <4>1
      <4>3. h[k + 1] = h[k] \o <<b[k + 1]>>
        <5>1. h[k + 1] = h[(k + 1) - 1] \o ss[k + 1]
          BY <2>1, <4>1
        <5>2. ss[k + 1] = <<b[k + 1]>>
          BY <2>2
        <5> QED BY <4>1, <5>1, <5>2
      <4>4. h[k + 1] = Append(h[k], b[k + 1])
        BY <4>2, <4>3
      <4>5. Len(h[k + 1]) = k + 1 /\ h[k + 1][k + 1] = b[k + 1] /\ \A j \in 1..k : h[k + 1][j] = h[k][j]
        BY <4>1, <4>2, <4>4, AppendProperties
      <4>6. \A j \in 1..k + 1 : j \in 1..k \/ j = k + 1
        OBVIOUS
      <4>7. \A j \in 1..k : h[k][j] = b[j]
        BY <4>1
      <4> QED BY <4>5, <4>6, <4>7
    <3> QED BY <3>1, <3>2
  <2>5. Nat \subseteq N
    <3> HIDE DEF N
    <3> QED BY <2>3, <2>4, Natural
  <2>6. Right(n) /\ h[n] \in Seq(S)
    BY <2>1, <2>2, <2>5
  <2>7. h[n] = b
    <3>1. Len(h[n]) = n /\ (\A j \in 1..n : h[n][j] = b[j]) /\ Len(b) = n
      BY <2>6 DEF n
    <3> QED BY <2>6, <3>1
  <2> QED BY <2>1, <2>7
<1> QED BY <1>1, <1>2

\* An iteration of even steps is all of them.
LEMMA EvenIteration ==
  ASSUME NEW lib, Sealed(lib), Countable(lib), NEW b \in EvenBlocks(lib), NEW n
  PROVE  Iteration(b, n) = b
<1> DEFINE S == EvenSteps(lib)
           ss == [k \in DOMAIN b |-> <<b[k]>>]
<1>1. b \in Seq(S)
  BY EvenBlocksAreSteps
<1> HIDE DEF S
<1>2. DOMAIN b = 1..Len(b) /\ Len(b) \in Nat /\ \A k \in 1..Len(b) : b[k] \in S
  BY <1>1
<1>3. \A k \in 1..Len(b) : b[k].every = NoEvery
  BY <1>2, EvenStepsFacts DEF S
<1>4. Iteration(b, n) = FlattenSeq(ss)
  <2>1. [k \in DOMAIN b |-> IF b[k].every = NoEvery \/ n % b[k].every = 0 THEN <<b[k]>> ELSE <<>>] = ss
    BY <1>2, <1>3
  <2> HIDE DEF ss
  <2> QED BY <2>1 DEF Iteration
<1>5. ss \in Seq(Seq(S)) /\ Len(ss) = Len(b) /\ \A k \in 1..Len(b) : ss[k] = <<b[k]>>
  <2>1. ss \in [1..Len(b) -> Seq(S)]
    BY <1>2
  <2>2. ss \in Seq(Seq(S)) /\ DOMAIN ss = 1..Len(b)
    BY <1>2, <2>1, SeqDef
  <2> QED BY <1>2, <2>2
<1> HIDE DEF ss
<1> QED BY <1>1, <1>4, <1>5, FlattenOnes

----------------------------------------------------------------------------
(***************************************************************************)
(* A step counts for itself and for what the run dispatches in its place.  *)
(***************************************************************************)

LEMMA Concatenated ==
  ASSUME NEW T, NEW x \in Seq(T), NEW y \in Seq(T)
  PROVE  /\ x \o y \in Seq(T) /\ Len(x) \in Nat /\ Len(y) \in Nat
         /\ Len(x \o y) = Len(x) + Len(y)
         /\ \A k \in 1..Len(x) : (x \o y)[k] = x[k]
         /\ \A k \in 1..Len(y) : (x \o y)[Len(x) + k] = y[k]
OBVIOUS

LEMMA SameSequences ==
  ASSUME NEW T, NEW x \in Seq(T), NEW y \in Seq(T), Len(x) = Len(y),
         \A k \in 1..Len(x) : x[k] = y[k]
  PROVE  x = y
OBVIOUS

\* How many steps are counted for a sequence of steps.
Count(lib, ss) == Sum(Counted(lib, CountSteps(lib), ss))

LEMMA EvenStepsAreSteps ==
  ASSUME NEW lib, Sealed(lib), Countable(lib), NEW ss \in Seq(EvenSteps(lib))
  PROVE  ss \in Seq(SomeSteps(lib))
<1>1. EvenSteps(lib) \subseteq SomeSteps(lib)
  BY EvenStepsFacts
<1> HIDE DEF EvenSteps, SomeSteps
<1> QED BY <1>1

\* The count of one sequence after another.
LEMMA CountOfBoth ==
  ASSUME NEW lib, Sealed(lib), NEW ss \in Seq(SomeSteps(lib)), NEW tt \in Seq(SomeSteps(lib))
  PROVE  /\ Count(lib, ss \o tt) = Plus(Count(lib, ss), Count(lib, tt))
         /\ Count(lib, ss) \in Numbers /\ Count(lib, tt) \in Numbers
<1> DEFINE f == CountSteps(lib)
           S == SomeSteps(lib)
           a == Counted(lib, f, ss)
           b == Counted(lib, f, tt)
<1>1. f \in [ClosedBlocks(lib) -> Numbers]
  BY CountEquation
<1> HIDE DEF f
<1>2. a \in Seq(Numbers) /\ b \in Seq(Numbers) /\ Sum(a) \in Numbers /\ Sum(b) \in Numbers
      /\ Len(a) = Len(ss) /\ Len(b) = Len(tt)
  BY <1>1, CountedAreNumbers
<1>3. Counted(lib, f, ss \o tt) = a \o b
  <2> DEFINE l == Len(ss)
             n == Len(tt)
             c == Counted(lib, f, ss \o tt)
  <2>2. /\ l \in Nat /\ n \in Nat /\ ss \o tt \in Seq(S) /\ Len(ss \o tt) = l + n
        /\ \A k \in 1..l : (ss \o tt)[k] = ss[k]
        /\ \A k \in 1..n : (ss \o tt)[l + k] = tt[k]
    BY Concatenated
  <2>3. /\ a \o b \in Seq(Numbers) /\ Len(a \o b) = l + n
        /\ \A k \in 1..l : (a \o b)[k] = a[k]
        /\ \A k \in 1..n : (a \o b)[l + k] = b[k]
    <3> HIDE DEF a, b, l, n
    <3>1. /\ a \o b \in Seq(Numbers) /\ Len(a \o b) = Len(a) + Len(b)
          /\ \A k \in 1..Len(a) : (a \o b)[k] = a[k]
          /\ \A k \in 1..Len(b) : (a \o b)[Len(a) + k] = b[k]
      <4>1. \A x, y \in Seq(Numbers) :
              /\ x \o y \in Seq(Numbers) /\ Len(x \o y) = Len(x) + Len(y)
              /\ \A k \in 1..Len(x) : (x \o y)[k] = x[k]
              /\ \A k \in 1..Len(y) : (x \o y)[Len(x) + k] = y[k]
        BY Concatenated
      <4> QED BY <1>2, <4>1
    <3>2. Len(a) = l /\ Len(b) = n
      BY <1>2 DEF l, n
    <3> QED BY <3>1, <3>2
  <2>4. c \in Seq(Numbers) /\ Len(c) = l + n
    <3> HIDE DEF S
    <3> QED BY <1>1, <2>2, CountedAreNumbers DEF S
  <2>5. /\ \A k \in 1..l + n : c[k] = CountOne((ss \o tt)[k], lib, f)
        /\ \A k \in 1..l : a[k] = CountOne(ss[k], lib, f)
        /\ \A k \in 1..n : b[k] = CountOne(tt[k], lib, f)
    <3>1. DOMAIN (ss \o tt) = 1..l + n /\ DOMAIN ss = 1..l /\ DOMAIN tt = 1..n
      BY <2>2
    <3> QED BY <3>1 DEF Counted
  <2> HIDE DEF a, b, c, l, n
  <2>7. ASSUME NEW k \in 1..l + n PROVE c[k] = (a \o b)[k]
    <3>1. CASE k \in 1..l
      BY <2>2, <2>3, <2>5, <3>1
    <3>2. CASE k \notin 1..l
      <4>1. k - l \in 1..n /\ l + (k - l) = k
        BY <2>2, <3>2
      <4>2. (ss \o tt)[l + (k - l)] = tt[k - l] /\ (a \o b)[l + (k - l)] = b[k - l]
        BY <2>2, <2>3, <4>1
      <4> QED BY <2>5, <4>1, <4>2
    <3> QED BY <3>1, <3>2
  <2>8. c = a \o b
    BY <2>3, <2>4, <2>7, SameSequences
  <2> QED BY <2>8 DEF c
<1>4. Sum(a \o b) = Plus(Sum(a), Sum(b))
  BY <1>2, SumOfBoth
<1> QED BY <1>2, <1>3, <1>4 DEF Count, f

LEMMA CountOfOne ==
  ASSUME NEW lib, Sealed(lib), NEW s \in SomeSteps(lib)
  PROVE  Count(lib, <<s>>) = CountOne(s, lib, CountSteps(lib)) /\ Count(lib, <<>>) = 0
<1>1. CountOne(s, lib, CountSteps(lib)) \in Numbers
  BY CountEquation, CountOneIsNumber
<1>2. Counted(lib, CountSteps(lib), <<s>>) = <<CountOne(s, lib, CountSteps(lib))>>
  BY DEF Counted
<1>3. Counted(lib, CountSteps(lib), <<>>) = <<>>
  BY DEF Counted
<1> QED BY <1>1, <1>2, <1>3, SumOfNoneAndOne DEF Count

FlattensTo(h, ss, S) ==
  /\ h \in [1..Len(ss) -> Seq(S)]
  /\ h[1] = ss[1] /\ FlattenSeq(ss) = h[Len(ss)]
  /\ \A k \in 2..Len(ss) : h[k] = h[k - 1] \o ss[k]

LEMMA Flattens ==
  ASSUME NEW S, NEW ss \in Seq(Seq(S)), Len(ss) > 0
  PROVE  \E h : FlattensTo(h, ss, S)
<1>1. PICK h \in [1..Len(ss) -> Seq(S)] :
        /\ h[1] = ss[1] /\ FlattenSeq(ss) = h[Len(ss)]
        /\ \A k \in 2..Len(ss) : h[k] = h[k - 1] \o ss[k]
  BY FlattenSteps
<1> QED BY <1>1 DEF FlattensTo

\* A repeat counts for as often as its steps are dispatched.
LEMMA CountOfMany ==
  ASSUME NEW lib, Sealed(lib), NEW b \in Seq(SomeSteps(lib)), NEW n \in Nat,
         NEW ss \in Seq(Seq(SomeSteps(lib))), Len(ss) = n, \A k \in 1..n : ss[k] = b,
         Count(lib, b) # None
  PROVE  Count(lib, FlattenSeq(ss)) = Count(lib, b) * n
<1> DEFINE S == SomeSteps(lib)
           c == Count(lib, b)
<1>0. c \in Int
  BY CountOfBoth DEF Numbers
<1>1. CASE n = 0
  <2>1. FlattenSeq(ss) = <<>>
    BY <1>1 DEF FlattenSeq
  <2>2. Count(lib, <<>>) = 0
    BY SumOfNoneAndOne DEF Count, Counted
  <2> QED BY <1>0, <1>1, <2>1, <2>2
<1>2. CASE n # 0
  <2>1. PICK h \in [1..n -> Seq(S)] :
          /\ h[1] = ss[1] /\ FlattenSeq(ss) = h[n]
          /\ \A k \in 2..n : h[k] = h[k - 1] \o ss[k]
    <3>1. Len(ss) > 0 /\ ss \in Seq(Seq(S))
      BY <1>2
    <3>2. PICK h : FlattensTo(h, ss, SomeSteps(lib))
      BY <3>1, Flattens
    <3> QED BY <3>2 DEF FlattensTo
  <2> HIDE DEF S, c
  <2> DEFINE N == {k \in Nat : k \in 1..n => Count(lib, h[k]) = c * k}
  <2>2. 0 \in N
    OBVIOUS
  <2>3. ASSUME NEW k \in Nat, k \in N PROVE k + 1 \in N
    <3> SUFFICES ASSUME k + 1 \in 1..n PROVE Count(lib, h[k + 1]) = c * (k + 1)
      OBVIOUS
    <3>1. CASE k = 0
      <4>1. h[1] = b /\ k + 1 = 1
        BY <2>1, <3>1
      <4> QED BY <1>0, <4>1 DEF c
    <3>2. CASE k # 0
      <4>1. k \in 1..n /\ k + 1 \in 2..n /\ (k + 1) - 1 = k
        BY <3>2
      <4>2. h[k] \in Seq(S) /\ h[k + 1] = h[k] \o b
        BY <2>1, <4>1
      <4>3. Count(lib, h[k] \o b) = Plus(Count(lib, h[k]), c)
        BY <4>2, CountOfBoth DEF S, c
      <4>4. Count(lib, h[k]) = c * k
        BY <2>3, <4>1
      <4>5. c * k \in Int /\ c * k + c = c * (k + 1)
        BY <1>0
      <4>6. Plus(c * k, c) = c * k + c
        BY <1>0, <4>5, GraphAssumption DEF Plus
      <4> QED BY <4>2, <4>3, <4>4, <4>5, <4>6
    <3> QED BY <3>1, <3>2
  <2>4. Nat \subseteq N
    <3> HIDE DEF N
    <3> QED BY <2>2, <2>3, Natural
  <2>5. n \in 1..n
    BY <1>2
  <2> QED BY <2>1, <2>4, <2>5 DEF c
<1> QED BY <1>1, <1>2

\* The iterations of a repeat count for its count times its steps.
LEMMA CountOfIterations ==
  ASSUME NEW lib, Sealed(lib), Countable(lib), NEW s \in EvenSteps(lib), s.do = "repeat",
         Count(lib, s.steps) # None
  PROVE  /\ Iterations(s) \in Seq(EvenSteps(lib))
         /\ Count(lib, Iterations(s)) = Count(lib, s.steps) * s.count
<1> DEFINE b == s.steps
           n == s.count
           E == EvenSteps(lib)
           ss == [k \in 1..n |-> Iteration(b, k)]
<1>1. b \in EvenBlocks(lib) /\ n \in Nat
  BY EvenStepsFacts
<1>2. b \in Seq(E) /\ b \in Seq(SomeSteps(lib))
  BY <1>1, EvenBlocksAreSteps, EvenStepsAreSteps
<1>3. \A k \in 1..n : Iteration(b, k) = b
  BY <1>1, EvenIteration
<1> HIDE DEF E, b, n
<1>4. \A T : b \in Seq(T) => ss \in Seq(Seq(T))
  <2> SUFFICES ASSUME NEW T, b \in Seq(T) PROVE ss \in Seq(Seq(T))
    OBVIOUS
  <2>1. ss \in [1..n -> Seq(T)]
    BY <1>3
  <2> QED BY <1>1, <2>1, SeqDef
<1>5. ss \in Seq(Seq(E)) /\ ss \in Seq(Seq(SomeSteps(lib))) /\ DOMAIN ss = 1..n
      /\ \A k \in 1..n : ss[k] = b
  BY <1>2, <1>3, <1>4
<1>6. Len(ss) = n
  BY <1>1, <1>5
<1>7. Iterations(s) = FlattenSeq(ss)
  BY DEF Iterations, b, n
<1> HIDE DEF ss
<1>8. FlattenSeq(ss) \in Seq(E)
  BY <1>5, Flatten DEF Lists
<1>9. Count(lib, FlattenSeq(ss)) = Count(lib, b) * n
  BY <1>1, <1>2, <1>5, <1>6, CountOfMany DEF b
<1> QED BY <1>7, <1>8, <1>9 DEF b, n, E

Counts == Nat \cup {None}

LEMMA SumOfCounts ==
  ASSUME NEW ns \in Seq(Numbers), \A k \in 1..Len(ns) : ns[k] \in Counts
  PROVE  Sum(ns) \in Counts
<1> DEFINE n == Len(ns)
<1>1. PICK h : Sums(h, ns) /\ Sum(ns) = h[n]
  BY SumFacts
<1>2. n \in Nat /\ n \in 0..n
  OBVIOUS
<1> DEFINE N == {k \in Nat : k \in 0..n => h[k] \in Counts}
<1>3. 0 \in N
  BY <1>1 DEF Sums, Counts
<1>4. ASSUME NEW k \in Nat, k \in N PROVE k + 1 \in N
  <2> SUFFICES ASSUME k + 1 \in 0..n PROVE h[k + 1] \in Counts
    OBVIOUS
  <2>1. k \in 0..n /\ k + 1 \in 1..n /\ (k + 1) - 1 = k
    BY <1>2
  <2>2. h[k + 1] = Plus(h[k], ns[k + 1])
    BY <1>1, <2>1 DEF Sums
  <2>3. h[k] \in Counts /\ ns[k + 1] \in Counts
    BY <1>4, <2>1
  <2>4. Plus(h[k], ns[k + 1]) \in Counts
    BY <2>3 DEF Plus, Counts
  <2> QED BY <2>2, <2>4
<1>5. Nat \subseteq N
  <2> HIDE DEF N
  <2> QED BY <1>3, <1>4, Natural
<1> QED BY <1>1, <1>2, <1>5

\* The numbers that are counted for the sequences lower than b.
LEMMA CountOneIsCount ==
  ASSUME NEW lib, Sealed(lib), Countable(lib), NEW s \in EvenSteps(lib),
         NEW f \in [ClosedBlocks(lib) -> Numbers],
         s.do = "repeat" => f[s.steps] \in Counts,
         s.do = "if" => f[s.then] \in Counts,
         s.do = "call" => f[Script(lib, s.to).steps] \in Counts
  PROVE  CountOne(s, lib, f) \in Counts
<1>1. \A n \in Counts : Plus(1, n) \in Counts
  BY DEF Plus, Counts
<1>2. None \in Counts /\ 1 \in Counts
  BY DEF Counts
<1>3. s \in SomeSteps(lib) /\ s.do \in {"leaf", "call", "repeat", "until", "if"}
  BY EvenStepsFacts, SomeStepsFacts
<1>4. CASE s.do \in {"leaf", "until"}
  BY <1>2, <1>4 DEF CountOne
<1>5. CASE s.do = "repeat"
  <2>1. f[s.steps] \in Counts /\ s.count \in Nat
    BY <1>5, EvenStepsFacts
  <2>2. f[s.steps] # None => f[s.steps] * s.count \in Nat
    BY <2>1 DEF Counts
  <2>3. f[s.steps] # None => 1 + f[s.steps] * s.count \in Nat
    BY <2>2
  <2>4. CountOne(s, lib, f) = IF f[s.steps] = None THEN None ELSE 1 + f[s.steps] * s.count
    BY <1>5 DEF CountOne
  <2> QED BY <2>3, <2>4 DEF Counts
<1>6. CASE s.do = "if"
  <2>1. CountOne(s, lib, f) = IF f[s.then] # f[s.else] THEN None ELSE Plus(1, f[s.then])
    BY <1>6 DEF CountOne
  <2> QED BY <1>1, <1>2, <1>6, <2>1
<1>7. CASE s.do = "call"
  <2>1. CountOne(s, lib, f) = Plus(1, f[Script(lib, s.to).steps])
    BY <1>7 DEF CountOne
  <2> QED BY <1>1, <1>7, <2>1
<1> QED BY <1>3, <1>4, <1>5, <1>6, <1>7

LEMMA EvenBlocksCount ==
  ASSUME NEW lib, Sealed(lib), Countable(lib)
  PROVE  \A b \in EvenBlocks(lib) : CountSteps(lib)[b] \in Counts
<1> DEFINE D == ClosedBlocks(lib)
           f == CountSteps(lib)
           m == Ranks(lib)
           n == Nestings(lib)
           z == NoRanks(lib)
           P == {b \in D : Even[b] => f[b] \in Counts}
<1>0. f \in [D -> Numbers] /\ \A b \in D : f[b] = Sum(Counted(lib, f, b))
  BY CountEquation
<1>1. ASSUME NEW b \in D, \A a \in D : Lower(m, n, z, a, b) => a \in P
      PROVE  b \in P
  <2> SUFFICES ASSUME Even[b] PROVE Sum(Counted(lib, f, b)) \in Counts
    BY <1>0
  <2>1. \A a : Below(lib, a, b) /\ a \in EvenBlocks(lib) => f[a] \in Counts
    <3> SUFFICES ASSUME NEW a, Below(lib, a, b), a \in EvenBlocks(lib) PROVE f[a] \in Counts
      OBVIOUS
    <3>1. a \in D /\ Even[a] /\ Lower(m, n, z, a, b)
      BY DEF Below, Lower, EvenBlocks
    <3> HIDE DEF m, n, z, f, D
    <3> QED BY <1>1, <3>1
  <2>2. b \in EvenBlocks(lib)
    BY DEF EvenBlocks
  <2> HIDE DEF f
  <2>3. Counted(lib, f, b) \in Seq(Numbers) /\ Len(Counted(lib, f, b)) = Len(b)
    BY <1>0, BlocksAreSteps, CountedAreNumbers
  <2>4. Len(b) \in Nat /\ DOMAIN b = 1..Len(b)
    BY BlocksAreSteps
  <2>5. ASSUME NEW k \in 1..Len(b) PROVE Counted(lib, f, b)[k] \in Counts
    <3>1. k \in DOMAIN b /\ Counted(lib, f, b)[k] = CountOne(b[k], lib, f)
      BY <2>4 DEF Counted
    <3>2. b[k] \in EvenSteps(lib)
      BY <2>2, <3>1 DEF EvenSteps, Range
    <3>3. /\ b[k].do \in {"repeat", "until"} => Below(lib, b[k].steps, b)
          /\ b[k].do = "if" => Below(lib, b[k].then, b)
          /\ b[k].do = "call" => Below(lib, Script(lib, b[k].to).steps, b)
      BY <3>1, StepsGoDown
    <3>4. /\ b[k].do = "repeat" => f[b[k].steps] \in Counts
          /\ b[k].do = "if" => f[b[k].then] \in Counts
          /\ b[k].do = "call" => f[Script(lib, b[k].to).steps] \in Counts
      BY <2>1, <3>2, <3>3, EvenStepsFacts
    <3> QED BY <1>0, <3>1, <3>2, <3>4, CountOneIsCount
  <2> QED BY <2>3, <2>5, SumOfCounts
<1>2. Inductive(P, D, m, n, z)
  <2>1. m \in [D -> Nat] /\ n \in [D -> Nat] /\ z \in [D -> Nat]
    BY RanksAreNatural
  <2> HIDE DEF P, D, m, n, z
  <2> QED BY <1>1, <2>1 DEF Inductive
<1>3. D \subseteq P
  <2> HIDE DEF P, D, m, n, z
  <2> QED BY <1>2, ByMeasure
<1> QED BY <1>3 DEF EvenBlocks

\* Even steps have a count that is not negative, or none.
LEMMA EvenStepsCount ==
  ASSUME NEW lib, Sealed(lib), Countable(lib), NEW ss \in Seq(EvenSteps(lib))
  PROVE  Count(lib, ss) \in Counts
<1> DEFINE f == CountSteps(lib)
<1>0. f \in [ClosedBlocks(lib) -> Numbers]
  BY CountEquation
<1>1. ss \in Seq(SomeSteps(lib)) /\ Len(ss) \in Nat /\ DOMAIN ss = 1..Len(ss)
  BY EvenStepsAreSteps
<1>2. Counted(lib, f, ss) \in Seq(Numbers) /\ Len(Counted(lib, f, ss)) = Len(ss)
  <2> HIDE DEF f
  <2> QED BY <1>0, <1>1, CountedAreNumbers
<1>3. ASSUME NEW k \in 1..Len(ss) PROVE Counted(lib, f, ss)[k] \in Counts
  <2>1. ss[k] \in EvenSteps(lib) /\ Counted(lib, f, ss)[k] = CountOne(ss[k], lib, f)
    BY <1>1 DEF Counted
  <2>2. /\ ss[k].do = "repeat" => f[ss[k].steps] \in Counts
        /\ ss[k].do = "if" => f[ss[k].then] \in Counts
        /\ ss[k].do = "call" => f[Script(lib, ss[k].to).steps] \in Counts
    BY <2>1, EvenStepsFacts, EvenBlocksCount
  <2> HIDE DEF f
  <2> QED BY <1>0, <2>1, <2>2, CountOneIsCount
<1> QED BY <1>2, <1>3, SumOfCounts DEF Count

\* What a dispatched step puts in its place.
Replaces(lib, s, more) ==
  \/ s.do = "leaf" /\ more = <<>>
  \/ s.do = "call" /\ more = Script(lib, s.to).steps
  \/ s.do = "repeat" /\ more = Iterations(s)
  \/ s.do = "if" /\ more \in {s.then, s.else}

\* A step counts for one more than what is dispatched in its place.
LEMMA DispatchCounts ==
  ASSUME NEW lib, Sealed(lib), Countable(lib), NEW s \in EvenSteps(lib), NEW more,
         Replaces(lib, s, more), CountOne(s, lib, CountSteps(lib)) # None
  PROVE  /\ more \in Seq(EvenSteps(lib)) /\ Count(lib, more) \in Int
         /\ CountOne(s, lib, CountSteps(lib)) = 1 + Count(lib, more)
<1> DEFINE f == CountSteps(lib)
<1>0. /\ \A b \in EvenBlocks(lib) : /\ b \in Seq(EvenSteps(lib)) /\ f[b] = Count(lib, b)
                                    /\ f[b] \in Counts
  <2>1. \A b \in EvenBlocks(lib) : b \in ClosedBlocks(lib)
    BY DEF EvenBlocks
  <2> QED BY <2>1, EvenBlocksAreSteps, CountEquation, EvenBlocksCount DEF Count
<1>1. \A n \in Counts : Plus(1, n) # None => n \in Int /\ Plus(1, n) = 1 + n
  BY GraphAssumption DEF Plus, Counts
<1>2. s \in SomeSteps(lib)
  BY EvenStepsFacts
<1>3. CASE s.do = "leaf"
  <2>1. CountOne(s, lib, f) = 1 /\ more = <<>>
    BY <1>3 DEF CountOne, Replaces
  <2>2. Count(lib, <<>>) = 0
    BY SumOfNoneAndOne DEF Count, Counted
  <2> QED BY <2>1, <2>2
<1>4. CASE s.do = "call"
  <2>1. more = Script(lib, s.to).steps /\ CountOne(s, lib, f) = Plus(1, f[more])
    BY <1>4 DEF CountOne, Replaces
  <2>2. more \in EvenBlocks(lib)
    BY <1>4, <2>1, EvenStepsFacts
  <2> HIDE DEF f
  <2> QED BY <1>0, <1>1, <2>1, <2>2 DEF f
<1>5. CASE s.do = "if"
  <2>1. more \in {s.then, s.else} /\ f[s.then] = f[s.else] /\ CountOne(s, lib, f) = Plus(1, f[s.then])
    BY <1>5 DEF CountOne, Replaces
  <2>2. more \in EvenBlocks(lib)
    BY <1>5, <2>1, EvenStepsFacts
  <2>3. CountOne(s, lib, f) = Plus(1, f[more])
    BY <2>1
  <2> HIDE DEF f
  <2> QED BY <1>0, <1>1, <2>2, <2>3 DEF f
<1>6. CASE s.do = "repeat"
  <2>1. /\ more = Iterations(s)
        /\ CountOne(s, lib, f) = IF f[s.steps] = None THEN None ELSE 1 + f[s.steps] * s.count
    BY <1>6 DEF CountOne, Replaces
  <2>2. s.steps \in EvenBlocks(lib) /\ s.count \in Nat
    BY <1>6, EvenStepsFacts
  <2>3. f[s.steps] = Count(lib, s.steps) /\ f[s.steps] # None /\ f[s.steps] \in Counts
    BY <1>0, <2>1, <2>2
  <2>4. more \in Seq(EvenSteps(lib)) /\ Count(lib, more) = f[s.steps] * s.count
    BY <1>6, <2>1, <2>3, CountOfIterations
  <2>5. f[s.steps] * s.count \in Int
    BY <2>2, <2>3 DEF Counts
  <2> QED BY <2>1, <2>3, <2>4, <2>5
<1> QED BY <1>3, <1>4, <1>5, <1>6 DEF Replaces

----------------------------------------------------------------------------
(***************************************************************************)
(* _resolve_role_usage: the walk through every step, in order.             *)
(***************************************************************************)

Walks(lib) == [block : ClosedBlocks(lib), k : Nat \ {0}, usage : Usages]
From1(b, u) == [block |-> b, k |-> 1, usage |-> u]
Own(s, u) == [u EXCEPT !.roles = @ \cup RoleOf(s),
                       !.managed = @ \cup IF Connects(s) THEN RoleOf(s) \ u.roles ELSE {}]
Entered(s, u) == [u EXCEPT !.walked = @ \cup {s.to}]
UsedIn(lib, f, s, u) ==
  CASE s.do \in {"repeat", "until"} -> f[From1(s.steps, u)]
    [] s.do = "if" -> f[From1(s.else, f[From1(s.then, u)])]
    [] s.do = "call" -> IF s.to \in u.walked THEN u ELSE f[From1(Script(lib, s.to).steps, Entered(s, u))]
    [] OTHER -> u
Used(lib, f, x) == UsedIn(lib, f, x.block[x.k], Own(x.block[x.k], x.usage))
NextStep(lib, f, x) == [x EXCEPT !.k = @ + 1, !.usage = Used(lib, f, x)]
WalksOn(lib, f, x) == IF x.k > Len(x.block) THEN x.usage ELSE f[NextStep(lib, f, x)]

WalkRanks(lib) == [x \in Walks(lib) |-> Ranks(lib)[x.block]]
WalkNestings(lib) == [x \in Walks(lib) |-> Nestings(lib)[x.block]]
StepsLeft(lib) == [x \in Walks(lib) |-> IF x.k > Len(x.block) THEN 0 ELSE Len(x.block) + 1 - x.k]
LowerWalk(lib, y, x) == Lower(WalkRanks(lib), WalkNestings(lib), StepsLeft(lib), y, x)

LEMMA WalkMeasures ==
  ASSUME NEW lib, Sealed(lib)
  PROVE  /\ WalkRanks(lib) \in [Walks(lib) -> Nat] /\ WalkNestings(lib) \in [Walks(lib) -> Nat]
         /\ StepsLeft(lib) \in [Walks(lib) -> Nat]
         /\ \A x \in Walks(lib) : /\ Len(x.block) \in Nat /\ DOMAIN x.block = 1..Len(x.block)
                                  /\ x.block \in ClosedBlocks(lib) /\ x.k \in Nat \ {0}
                                  /\ x.usage \in Usages
<1>1. ASSUME NEW x \in Walks(lib)
      PROVE  /\ Len(x.block) \in Nat /\ DOMAIN x.block = 1..Len(x.block)
             /\ x.block \in ClosedBlocks(lib) /\ x.k \in Nat \ {0} /\ x.usage \in Usages
  <2>1. x.block \in ClosedBlocks(lib) /\ x.k \in Nat \ {0} /\ x.usage \in Usages
    BY DEF Walks
  <2> QED BY <2>1, BlocksAreSteps
<1>2. \A x \in Walks(lib) : Ranks(lib)[x.block] \in Nat /\ Nestings(lib)[x.block] \in Nat
  BY <1>1, RanksAreNatural
<1>3. \A x \in Walks(lib) : (IF x.k > Len(x.block) THEN 0 ELSE Len(x.block) + 1 - x.k) \in Nat
  BY <1>1
<1> QED BY <1>1, <1>2, <1>3 DEF WalkRanks, WalkNestings, StepsLeft

\* What a step contains, and the script it calls, is lower than where it stands.
LEMMA BlocksBelow ==
  ASSUME NEW lib, Sealed(lib), NEW x \in Walks(lib), NEW a, Below(lib, a, x.block), NEW u \in Usages
  PROVE  From1(a, u) \in Walks(lib) /\ LowerWalk(lib, From1(a, u), x)
<1>1. From1(a, u) \in Walks(lib) /\ From1(a, u).block = a
  BY DEF Below, From1, Walks
<1>2. /\ WalkRanks(lib)[From1(a, u)] = Ranks(lib)[a] /\ WalkRanks(lib)[x] = Ranks(lib)[x.block]
      /\ WalkNestings(lib)[From1(a, u)] = Nestings(lib)[a]
      /\ WalkNestings(lib)[x] = Nestings(lib)[x.block]
  BY <1>1 DEF WalkRanks, WalkNestings
<1> QED BY <1>1, <1>2 DEF LowerWalk, Lower, Below

\* f stays in Usages wherever the step may look.
BlocksGiveUsages(lib, f, b) == \A a : Below(lib, a, b) => \A u \in Usages : f[From1(a, u)] \in Usages
BlocksAgree(lib, f, g, b) ==
  \A a : Below(lib, a, b) => \A u \in Usages : f[From1(a, u)] = g[From1(a, u)]

LEMMA OwnFacts ==
  ASSUME NEW s \in Steps, NEW u \in Usages
  PROVE  /\ Own(s, u) \in Usages /\ RoleOf(s) \subseteq Own(s, u).roles
         /\ u.roles \subseteq Own(s, u).roles /\ Own(s, u).walked = u.walked
<1>1. RoleOf(s) \subseteq Roles
  BY DEF Roles
<1> QED BY <1>1 DEF Own, Usages

LEMMA EnteredFacts ==
  ASSUME NEW s, s.to \in STRING, NEW u \in Usages
  PROVE  /\ Entered(s, u) \in Usages /\ Entered(s, u).walked = u.walked \cup {s.to}
         /\ Entered(s, u).roles = u.roles
BY DEF Entered, Usages

LEMMA UsedInStays ==
  ASSUME NEW lib, Sealed(lib), NEW b \in ClosedBlocks(lib), NEW k \in DOMAIN b, NEW f, NEW g,
         BlocksGiveUsages(lib, f, b), BlocksAgree(lib, f, g, b), NEW u \in Usages
  PROVE  /\ UsedIn(lib, f, b[k], u) \in Usages
         /\ UsedIn(lib, f, b[k], u) = UsedIn(lib, g, b[k], u)
<1> DEFINE s == b[k]
<1>1. /\ s \in Steps /\ s.do \in {"leaf", "call", "repeat", "until", "if"}
      /\ s.do \in {"repeat", "until"} => Below(lib, s.steps, b)
      /\ s.do = "if" => Below(lib, s.then, b) /\ Below(lib, s.else, b)
      /\ s.do = "call" => s.to \in Ids(lib) /\ Below(lib, Script(lib, s.to).steps, b)
  BY StepsGoDown, GraphAssumption
<1> HIDE DEF s
<1>2. CASE s.do \in {"repeat", "until"}
  <2>1. f[From1(s.steps, u)] \in Usages /\ f[From1(s.steps, u)] = g[From1(s.steps, u)]
    BY <1>1, <1>2 DEF BlocksGiveUsages, BlocksAgree
  <2> QED BY <1>2, <2>1 DEF UsedIn, s
<1>3. CASE s.do = "if"
  <2> DEFINE v == f[From1(s.then, u)]
  <2>1. v \in Usages /\ v = g[From1(s.then, u)]
    BY <1>1, <1>3 DEF BlocksGiveUsages, BlocksAgree
  <2>2. f[From1(s.else, v)] \in Usages /\ f[From1(s.else, v)] = g[From1(s.else, v)]
    <3> HIDE DEF v
    <3> QED BY <1>1, <1>3, <2>1 DEF BlocksGiveUsages, BlocksAgree
  <2> QED BY <1>3, <2>1, <2>2 DEF UsedIn, s
<1>4. CASE s.do = "call"
  <2> DEFINE a == Script(lib, s.to).steps
             v == Entered(s, u)
  <2>1. v \in Usages
    BY <1>1, <1>4, GraphAssumption, EnteredFacts
  <2>2. f[From1(a, v)] \in Usages /\ f[From1(a, v)] = g[From1(a, v)]
    <3> HIDE DEF v
    <3> QED BY <1>1, <1>4, <2>1 DEF BlocksGiveUsages, BlocksAgree
  <2> QED BY <1>4, <2>2 DEF UsedIn, s
<1>5. CASE s.do = "leaf"
  BY <1>5 DEF UsedIn, s
<1> QED BY <1>1, <1>2, <1>3, <1>4, <1>5 DEF s

LEMMA UsedStays ==
  ASSUME NEW lib, Sealed(lib), NEW x \in Walks(lib), x.k <= Len(x.block), NEW f, NEW g,
         BlocksGiveUsages(lib, f, x.block), BlocksAgree(lib, f, g, x.block)
  PROVE  /\ Used(lib, f, x) \in Usages /\ Used(lib, f, x) = Used(lib, g, x)
         /\ NextStep(lib, f, x) \in Walks(lib) /\ NextStep(lib, f, x) = NextStep(lib, g, x)
         /\ LowerWalk(lib, NextStep(lib, f, x), x)
<1>1. /\ x.block \in ClosedBlocks(lib) /\ x.k \in DOMAIN x.block /\ x.usage \in Usages
      /\ Len(x.block) \in Nat /\ x.k \in Nat
  BY WalkMeasures
<1>2. Own(x.block[x.k], x.usage) \in Usages
  BY <1>1, StepsGoDown, OwnFacts
<1>3. Used(lib, f, x) \in Usages /\ Used(lib, f, x) = Used(lib, g, x)
  BY <1>1, <1>2, UsedInStays DEF Used
<1>4. /\ NextStep(lib, f, x) \in Walks(lib)
      /\ NextStep(lib, f, x).block = x.block /\ NextStep(lib, f, x).k = x.k + 1
  <2>1. ASSUME NEW B, NEW N, NEW U, NEW y \in [block : B, k : N, usage : U], y.k + 1 \in N, NEW v \in U
        PROVE  /\ [y EXCEPT !.k = @ + 1, !.usage = v] \in [block : B, k : N, usage : U]
               /\ [y EXCEPT !.k = @ + 1, !.usage = v].block = y.block
               /\ [y EXCEPT !.k = @ + 1, !.usage = v].k = y.k + 1
    BY <2>1
  <2>2. x.k + 1 \in Nat \ {0} /\ x \in [block : ClosedBlocks(lib), k : Nat \ {0}, usage : Usages]
    BY <1>1 DEF Walks
  <2> QED BY <1>3, <2>1, <2>2 DEF NextStep, Walks
<1>5. NextStep(lib, f, x) = NextStep(lib, g, x)
  BY <1>3 DEF NextStep
<1>6. /\ WalkRanks(lib)[NextStep(lib, f, x)] = WalkRanks(lib)[x]
      /\ WalkNestings(lib)[NextStep(lib, f, x)] = WalkNestings(lib)[x]
  BY <1>4 DEF WalkRanks, WalkNestings
<1>7. StepsLeft(lib)[NextStep(lib, f, x)] < StepsLeft(lib)[x]
  <2> DEFINE y == NextStep(lib, f, x)
  <2> HIDE DEF y
  <2>1. y \in Walks(lib) /\ y.block = x.block /\ y.k = x.k + 1
    BY <1>4 DEF y
  <2>2. StepsLeft(lib)[y] = IF x.k + 1 > Len(x.block) THEN 0 ELSE Len(x.block) + 1 - (x.k + 1)
    BY <2>1 DEF StepsLeft
  <2>3. StepsLeft(lib)[x] = Len(x.block) + 1 - x.k
    BY <1>1 DEF StepsLeft
  <2> QED BY <1>1, <2>2, <2>3 DEF y
<1> QED BY <1>3, <1>4, <1>5, <1>6, <1>7 DEF LowerWalk, Lower

\* WalkRoles has the value of its definition.
LEMMA WalkEquation ==
  ASSUME NEW lib, Sealed(lib)
  PROVE  \A x \in Walks(lib) : /\ WalkRoles(lib)[x] \in Usages
                               /\ WalkRoles(lib)[x] = WalksOn(lib, WalkRoles(lib), x)
<1> DEFINE D == Walks(lib)
           Body(f) == [x \in Walks(lib) |-> WalksOn(lib, f, x)]
           F == [f \in [D -> Usages] |-> Body(f)]
           m == WalkRanks(lib)
           n == WalkNestings(lib)
           o == StepsLeft(lib)
           walk == WalkRoles(lib)
<1>1. ASSUME NEW f \in [D -> Usages], NEW g, NEW x \in D, \A y \in D : LowerWalk(lib, y, x) => f[y] = g[y]
      PROVE  WalksOn(lib, f, x) \in Usages /\ WalksOn(lib, f, x) = WalksOn(lib, g, x)
  <2>1. CASE x.k > Len(x.block)
    BY <2>1, WalkMeasures DEF WalksOn
  <2>2. CASE ~(x.k > Len(x.block))
    <3>1. x.k <= Len(x.block)
      BY <2>2, WalkMeasures
    <3>2. BlocksGiveUsages(lib, f, x.block)
      BY BlocksBelow DEF BlocksGiveUsages
    <3>3. BlocksAgree(lib, f, g, x.block)
      BY <1>1, BlocksBelow DEF BlocksAgree
    <3>4. /\ NextStep(lib, f, x) \in Walks(lib) /\ NextStep(lib, f, x) = NextStep(lib, g, x)
          /\ LowerWalk(lib, NextStep(lib, f, x), x)
      BY <3>1, <3>2, <3>3, UsedStays
    <3>5. f[NextStep(lib, f, x)] = g[NextStep(lib, f, x)] /\ f[NextStep(lib, f, x)] \in Usages
      BY <1>1, <3>4
    <3> QED BY <2>2, <3>4, <3>5 DEF WalksOn
  <2> QED BY <2>1, <2>2
<1>2. Contracts(F, D, Usages, m, n, o)
  <2>1. Usages # {}
    <3>1. [roles |-> {}, managed |-> {}, walked |-> {}] \in Usages
      BY DEF Usages
    <3> QED BY <3>1
  <2>2. F \in [[D -> Usages] -> [D -> Usages]]
    <3>1. \A f \in [D -> Usages] : Body(f) \in [D -> Usages]
      BY <1>1
    <3> HIDE DEF Body, D
    <3> QED BY <3>1
  <2>3. ASSUME NEW f \in [D -> Usages], NEW g \in [D -> Usages], NEW x \in D,
               \A y \in D : Lower(m, n, o, y, x) => f[y] = g[y]
        PROVE  F[f][x] = F[g][x]
    <3>1. WalksOn(lib, f, x) = WalksOn(lib, g, x)
      BY <1>1, <2>3 DEF LowerWalk
    <3> QED BY <3>1
  <2>4. m \in [D -> Nat] /\ n \in [D -> Nat] /\ o \in [D -> Nat]
    BY WalkMeasures
  <2> HIDE DEF F, D, m, n, o
  <2> QED BY <2>1, <2>2, <2>3, <2>4 DEF Contracts
<1>3. PICK h \in [D -> Usages] : h = Body(h)
  <2>1. PICK h \in [D -> Usages] : h = F[h]
    <3> HIDE DEF F, D, m, n, o
    <3> QED BY <1>2, MeasuredRecursion
  <2> HIDE DEF Body, D
  <2> QED BY <2>1
<1>4. WalkRoles(lib) = CHOOSE f : f = Body(f)
  BY DEF WalkRoles, WalksOn, NextStep, Used, UsedIn, Own, Entered, From1, Walks
<1>5. walk = Body(walk)
  <2> HIDE DEF Body
  <2> QED BY <1>3, <1>4
<1>6. \A x \in D : h[x] = WalksOn(lib, h, x) /\ walk[x] = WalksOn(lib, walk, x)
  <2>1. \A x \in D : h[x] = Body(h)[x] /\ walk[x] = Body(walk)[x]
    <3> HIDE DEF Body, walk
    <3> QED BY <1>3, <1>5
  <2> HIDE DEF walk
  <2> QED BY <2>1
<1> HIDE DEF Body, F, walk
<1>7. Follows(h, walk, D, m, n, o)
  <2>1. ASSUME NEW x \in D, \A y \in D : Lower(m, n, o, y, x) => h[y] = walk[y]
        PROVE  h[x] = walk[x]
    <3>1. WalksOn(lib, h, x) = WalksOn(lib, walk, x)
      BY <1>1, <2>1 DEF LowerWalk
    <3> QED BY <1>6, <3>1
  <2>2. m \in [D -> Nat] /\ n \in [D -> Nat] /\ o \in [D -> Nat]
    BY WalkMeasures
  <2> HIDE DEF D, m, n, o
  <2> QED BY <2>1, <2>2 DEF Follows
<1>8. \A x \in D : h[x] = walk[x]
  <2> HIDE DEF D, m, n, o
  <2> QED BY <1>7, SameByMeasure
<1> QED BY <1>3, <1>6, <1>8 DEF walk

----------------------------------------------------------------------------
(***************************************************************************)
(* Whatever the walk has passed, its roles are in the usage, and it has    *)
(* been through the scripts that are called.                               *)
(***************************************************************************)

\* The sequences of steps whose roles u has, with all that is inside them.
CoveredBy(u, G, s) == /\ RoleOf(s) \subseteq u.roles
                      /\ s.do = "call" => s.to \in u.walked
                      /\ Range(Inner(s)) \subseteq G
Covers(u, G) == G \subseteq Blocks /\ \A b \in G : \A s \in Range(b) : CoveredBy(u, G, s)
Deep(u) == UNION {G \in SUBSET Blocks : Covers(u, G)}
DeepStep(u, s) == CoveredBy(u, Deep(u), s)

UsageGrows(u, v) == u.roles \subseteq v.roles /\ u.walked \subseteq v.walked

\* A deep sequence's steps have their roles in u, call only what u has walked, and contain deep ones.
LEMMA DeepFacts ==
  ASSUME NEW u
  PROVE  /\ Covers(u, Deep(u))
         /\ \A b \in Deep(u) : b \in Blocks /\ \A s \in Range(b) : DeepStep(u, s)
         /\ \A b \in Blocks : (\A s \in Range(b) : DeepStep(u, s)) => b \in Deep(u)
<1>1. ASSUME NEW b \in Deep(u), NEW s \in Range(b) PROVE DeepStep(u, s) /\ b \in Blocks
  <2>1. PICK G \in SUBSET Blocks : Covers(u, G) /\ b \in G
    BY DEF Deep
  <2>2. CoveredBy(u, G, s)
    BY <2>1 DEF Covers
  <2>3. G \subseteq Deep(u)
    BY <2>1 DEF Deep
  <2> QED BY <2>1, <2>2, <2>3 DEF DeepStep, CoveredBy
<1>2. Deep(u) \subseteq Blocks
  BY DEF Deep
<1>3. Covers(u, Deep(u))
  BY <1>1, <1>2 DEF Covers, DeepStep
<1>4. ASSUME NEW b \in Blocks, \A s \in Range(b) : DeepStep(u, s) PROVE b \in Deep(u)
  <2> DEFINE G == Deep(u) \cup {b}
  <2>1. ASSUME NEW c \in G, NEW s \in Range(c) PROVE CoveredBy(u, G, s)
    <3>1. DeepStep(u, s)
      BY <1>1, <1>4
    <3>2. Deep(u) \subseteq G
      OBVIOUS
    <3> HIDE DEF G
    <3> QED BY <3>1, <3>2 DEF DeepStep, CoveredBy
  <2>2. G \in SUBSET Blocks /\ b \in G
    BY <1>2
  <2> HIDE DEF G
  <2>3. Covers(u, G)
    BY <2>1, <2>2 DEF Covers
  <2> QED BY <2>2, <2>3 DEF Deep
<1> QED BY <1>1, <1>2, <1>3, <1>4

\* What is deep stays so while the walk goes on.
LEMMA DeepGrows ==
  ASSUME NEW u, NEW v, UsageGrows(u, v)
  PROVE  Deep(u) \subseteq Deep(v) /\ \A s : DeepStep(u, s) => DeepStep(v, s)
<1>1. Covers(v, Deep(u))
  BY DeepFacts DEF Covers, CoveredBy, UsageGrows
<1>2. Deep(u) \in SUBSET Blocks
  BY DEF Deep
<1>3. Deep(u) \subseteq Deep(v)
  BY <1>1, <1>2 DEF Deep
<1> QED BY <1>3 DEF DeepStep, CoveredBy, UsageGrows

\* The scripts in v and not in u have all their roles in v.
WalkedAll(lib, u, v) == \A i \in v.walked \ u.walked : i \in Ids(lib) /\ Script(lib, i).steps \in Deep(v)

\* A walk from x on that ends with v has been everywhere.
WalkedFrom(lib, x, v) ==
  /\ UsageGrows(x.usage, v) /\ WalkedAll(lib, x.usage, v)
  /\ \A j \in DOMAIN x.block : j >= x.k => DeepStep(v, x.block[j])

\* So have the walks from the beginning of what is below b.
WalksBelow(lib, f, b) ==
  \A a : Below(lib, a, b) => \A u \in Usages :
    /\ f[From1(a, u)] \in Usages
    /\ UsageGrows(u, f[From1(a, u)]) /\ WalkedAll(lib, u, f[From1(a, u)])
    /\ a \in Deep(f[From1(a, u)])

LEMMA WalksOnAndOn ==
  ASSUME NEW lib, NEW u, NEW v, NEW w,
         UsageGrows(u, v), WalkedAll(lib, u, v), UsageGrows(v, w), WalkedAll(lib, v, w)
  PROVE  UsageGrows(u, w) /\ WalkedAll(lib, u, w)
<1>1. Deep(v) \subseteq Deep(w)
  BY DeepGrows
<1>2. UsageGrows(u, w)
  BY DEF UsageGrows
<1> QED BY <1>1, <1>2 DEF WalkedAll, UsageGrows

LEMMA InnerSteps ==
  ASSUME NEW s, s.do \in {"leaf", "call", "repeat", "until", "if"}
  PROVE  Range(Inner(s)) = IF s.do \in {"repeat", "until"} THEN {s.steps}
                           ELSE IF s.do = "if" THEN {s.then, s.else} ELSE {}
<1>1. \A x, y : Range(<<x>>) = {x} /\ Range(<<x, y>>) = {x, y} /\ Range(<<>>) = {}
  <2> SUFFICES ASSUME NEW x, NEW y PROVE Range(<<x>>) = {x} /\ Range(<<x, y>>) = {x, y} /\ Range(<<>>) = {}
    OBVIOUS
  <2>1. DOMAIN <<x, y>> = {1, 2} /\ <<x, y>>[1] = x /\ <<x, y>>[2] = y
    OBVIOUS
  <2>2. Range(<<x, y>>) = {x, y}
    BY <2>1 DEF Range
  <2>3. Range(<<x>>) = {x} /\ Range(<<>>) = {}
    BY DEF Range
  <2> QED BY <2>2, <2>3
<1>2. CASE s.do \in {"repeat", "until"}
  <2>1. Inner(s) = <<s.steps>>
    BY <1>2 DEF Inner
  <2> QED BY <1>1, <1>2, <2>1
<1>3. CASE s.do = "if"
  <2>1. Inner(s) = <<s.then, s.else>>
    BY <1>3 DEF Inner
  <2> QED BY <1>1, <1>3, <2>1
<1>4. CASE s.do \in {"leaf", "call"}
  <2>1. Inner(s) = <<>>
    BY <1>4 DEF Inner
  <2> QED BY <1>1, <1>4, <2>1
<1> QED BY <1>2, <1>3, <1>4

\* A step that is walked through has its roles resolved, and what it contains as well.
LEMMA UsedCovers ==
  ASSUME NEW lib, Sealed(lib), NEW b \in ClosedBlocks(lib), NEW k \in DOMAIN b, NEW f,
         WalksBelow(lib, f, b), NEW u \in Usages, RoleOf(b[k]) \subseteq u.roles
  PROVE  LET v == UsedIn(lib, f, b[k], u)
         IN UsageGrows(u, v) /\ WalkedAll(lib, u, v) /\ DeepStep(v, b[k])
<1> DEFINE s == b[k]
           v == UsedIn(lib, f, s, u)
<1>1. /\ s \in Steps /\ s.do \in {"leaf", "call", "repeat", "until", "if"}
      /\ s.do \in {"repeat", "until"} => Below(lib, s.steps, b)
      /\ s.do = "if" => Below(lib, s.then, b) /\ Below(lib, s.else, b)
      /\ s.do = "call" => s.to \in Ids(lib) /\ Below(lib, Script(lib, s.to).steps, b)
  BY StepsGoDown, GraphAssumption
<1>2. RoleOf(s) \subseteq u.roles
  OBVIOUS
<1> HIDE DEF s
<1>0. UsageGrows(u, u) /\ WalkedAll(lib, u, u)
  BY DEF UsageGrows, WalkedAll
<1>3. Range(Inner(s)) = IF s.do \in {"repeat", "until"} THEN {s.steps}
                        ELSE IF s.do = "if" THEN {s.then, s.else} ELSE {}
  BY <1>1, InnerSteps
<1>4. CASE s.do \in {"repeat", "until"}
  <2>1. v = f[From1(s.steps, u)]
    BY <1>4 DEF UsedIn
  <2>2. UsageGrows(u, v) /\ WalkedAll(lib, u, v) /\ s.steps \in Deep(v)
    BY <1>1, <1>4, <2>1 DEF WalksBelow
  <2> HIDE DEF v
  <2>3. DeepStep(v, s)
    BY <1>2, <1>3, <1>4, <2>2 DEF DeepStep, CoveredBy, UsageGrows
  <2> QED BY <2>2, <2>3 DEF v, s
<1>5. CASE s.do = "if"
  <2> DEFINE w == f[From1(s.then, u)]
  <2>1. v = f[From1(s.else, w)]
    BY <1>5 DEF UsedIn
  <2>2. w \in Usages /\ UsageGrows(u, w) /\ WalkedAll(lib, u, w) /\ s.then \in Deep(w)
    BY <1>1, <1>5 DEF WalksBelow
  <2> HIDE DEF w, v
  <2>3. UsageGrows(w, v) /\ WalkedAll(lib, w, v) /\ s.else \in Deep(v)
    BY <1>1, <1>5, <2>1, <2>2 DEF WalksBelow
  <2>4. UsageGrows(u, v) /\ WalkedAll(lib, u, v) /\ s.then \in Deep(v)
    BY <2>2, <2>3, WalksOnAndOn, DeepGrows
  <2>5. DeepStep(v, s)
    BY <1>2, <1>3, <1>5, <2>3, <2>4 DEF DeepStep, CoveredBy, UsageGrows
  <2> QED BY <2>4, <2>5 DEF v, s
<1>6. CASE s.do = "call" /\ s.to \in u.walked
  <2>1. v = u
    BY <1>6 DEF UsedIn
  <2>2. DeepStep(u, s)
    BY <1>2, <1>3, <1>6 DEF DeepStep, CoveredBy
  <2> HIDE DEF v
  <2> QED BY <1>0, <2>1, <2>2 DEF v, s
<1>7. CASE s.do = "call" /\ s.to \notin u.walked
  <2> DEFINE w == Entered(s, u)
             a == Script(lib, s.to).steps
  <2>1. v = f[From1(a, w)]
    BY <1>7 DEF UsedIn
  <2>2. w \in Usages /\ w.walked = u.walked \cup {s.to} /\ w.roles = u.roles
    BY <1>1, <1>7, GraphAssumption, EnteredFacts
  <2>3. s.to \in Ids(lib) /\ Below(lib, a, b)
    BY <1>1, <1>7
  <2> HIDE DEF v, w
  <2>4. UsageGrows(w, v) /\ WalkedAll(lib, w, v) /\ a \in Deep(v)
    <3> HIDE DEF a
    <3> QED BY <2>1, <2>2, <2>3 DEF WalksBelow
  <2>5. UsageGrows(u, v) /\ s.to \in v.walked
    BY <2>2, <2>4 DEF UsageGrows
  <2>6. WalkedAll(lib, u, v)
    BY <2>2, <2>3, <2>4 DEF WalkedAll
  <2>7. DeepStep(v, s)
    BY <1>2, <1>3, <1>7, <2>5 DEF DeepStep, CoveredBy, UsageGrows
  <2> QED BY <2>5, <2>6, <2>7 DEF v, s
<1>8. CASE s.do = "leaf"
  <2>1. v = u
    BY <1>8 DEF UsedIn
  <2>2. DeepStep(u, s)
    BY <1>2, <1>3, <1>8 DEF DeepStep, CoveredBy
  <2> HIDE DEF v
  <2> QED BY <1>0, <2>1, <2>2 DEF v, s
<1> QED BY <1>1, <1>4, <1>5, <1>6, <1>7, <1>8

\* After the walk its sequence is deep, and every script that it came to.
LEMMA WalkCovers ==
  ASSUME NEW lib, Sealed(lib)
  PROVE  \A x \in Walks(lib) : WalkedFrom(lib, x, WalkRoles(lib)[x])
<1> DEFINE D == Walks(lib)
           m == WalkRanks(lib)
           n == WalkNestings(lib)
           o == StepsLeft(lib)
           walk == WalkRoles(lib)
           P == {x \in D : WalkedFrom(lib, x, walk[x])}
<1>0. \A x \in D : walk[x] \in Usages /\ walk[x] = WalksOn(lib, walk, x)
  BY WalkEquation
<1> HIDE DEF walk
<1>1. ASSUME NEW x \in D, \A y \in D : Lower(m, n, o, y, x) => y \in P
      PROVE  x \in P
  <2>0. /\ x.block \in ClosedBlocks(lib) /\ Len(x.block) \in Nat /\ DOMAIN x.block = 1..Len(x.block)
        /\ x.k \in Nat \ {0} /\ x.usage \in Usages
    BY WalkMeasures
  <2>1. CASE x.k > Len(x.block)
    <3>1. walk[x] = x.usage
      BY <1>0, <2>1 DEF WalksOn
    <3>2. WalkedFrom(lib, x, x.usage)
      BY <2>0, <2>1 DEF WalkedFrom, UsageGrows, WalkedAll
    <3> QED BY <3>1, <3>2
  <2>2. CASE ~(x.k > Len(x.block))
    <3> DEFINE b == x.block
               own == Own(b[x.k], x.usage)
               u == Used(lib, walk, x)
               y == NextStep(lib, walk, x)
               v == walk[x]
    <3>1. x.k \in DOMAIN b /\ x.k <= Len(b) /\ b[x.k] \in Steps
      BY <2>0, <2>2, StepsGoDown
    <3>2. WalksBelow(lib, walk, b)
      <4> SUFFICES ASSUME NEW a, Below(lib, a, b), NEW w \in Usages
                   PROVE  /\ walk[From1(a, w)] \in Usages
                          /\ UsageGrows(w, walk[From1(a, w)]) /\ WalkedAll(lib, w, walk[From1(a, w)])
                          /\ a \in Deep(walk[From1(a, w)])
        BY DEF WalksBelow
      <4> DEFINE z == From1(a, w)
      <4>1. z \in D /\ Lower(m, n, o, z, x)
        BY BlocksBelow DEF LowerWalk
      <4>2. z.block = a /\ z.k = 1 /\ z.usage = w
        BY DEF From1
      <4> HIDE DEF z, m, n, o, D
      <4>3. WalkedFrom(lib, z, walk[z]) /\ walk[z] \in Usages
        BY <1>0, <1>1, <4>1
      <4>4. a \in Blocks /\ Len(a) \in Nat /\ DOMAIN a = 1..Len(a)
        <5>1. a \in ClosedBlocks(lib)
          BY DEF Below
        <5> QED BY <5>1, BlocksAreSteps DEF ClosedBlocks
      <4>5. \A s \in Range(a) : DeepStep(walk[z], s)
        BY <4>2, <4>3, <4>4 DEF WalkedFrom, Range
      <4> QED BY <4>2, <4>3, <4>4, <4>5, DeepFacts DEF WalkedFrom, z
    <3>3. /\ own \in Usages /\ RoleOf(b[x.k]) \subseteq own.roles
          /\ UsageGrows(x.usage, own) /\ WalkedAll(lib, x.usage, own)
      <4>1. /\ own \in Usages /\ RoleOf(b[x.k]) \subseteq own.roles
            /\ x.usage.roles \subseteq own.roles /\ own.walked = x.usage.walked
        BY <2>0, <3>1, OwnFacts
      <4> HIDE DEF own
      <4> QED BY <4>1 DEF UsageGrows, WalkedAll
    <3>4. UsageGrows(own, u) /\ WalkedAll(lib, own, u) /\ DeepStep(u, b[x.k])
      <4>1. LET w == UsedIn(lib, walk, b[x.k], own)
            IN UsageGrows(own, w) /\ WalkedAll(lib, own, w) /\ DeepStep(w, b[x.k])
        <5> HIDE DEF own, b
        <5> QED BY <2>0, <3>1, <3>2, <3>3, UsedCovers DEF b
      <4> QED BY <4>1 DEF Used
    <3>5. /\ y \in D /\ Lower(m, n, o, y, x)
      <4>1. BlocksGiveUsages(lib, walk, b) /\ BlocksAgree(lib, walk, walk, b)
        BY <3>2 DEF BlocksGiveUsages, BlocksAgree, WalksBelow
      <4> QED BY <3>1, <4>1, UsedStays DEF LowerWalk
    <3>6. y.block = b /\ y.k = x.k + 1 /\ y.usage = u
      BY DEF NextStep, Walks
    <3>7. v = walk[y]
      BY <1>0, <2>2 DEF WalksOn
    <3> HIDE DEF y, u, own, b, v
    <3>8. WalkedFrom(lib, y, v)
      <4> HIDE DEF m, n, o, D
      <4> QED BY <1>1, <3>5, <3>7
    <3>9. UsageGrows(u, v) /\ WalkedAll(lib, u, v) /\ \A j \in DOMAIN b : j >= x.k + 1 => DeepStep(v, b[j])
      BY <3>6, <3>8 DEF WalkedFrom
    <3>10. UsageGrows(x.usage, v) /\ WalkedAll(lib, x.usage, v)
      <4>1. UsageGrows(x.usage, u) /\ WalkedAll(lib, x.usage, u)
        BY <3>3, <3>4, WalksOnAndOn
      <4> QED BY <3>9, <4>1, WalksOnAndOn
    <3>11. DeepStep(v, b[x.k])
      BY <3>4, <3>9, DeepGrows
    <3>12. \A j \in DOMAIN b : j >= x.k => j = x.k \/ j >= x.k + 1
      BY <2>0 DEF b
    <3>13. WalkedFrom(lib, x, v)
      BY <3>9, <3>10, <3>11, <3>12 DEF WalkedFrom, b
    <3> QED BY <3>13 DEF v
  <2> QED BY <2>1, <2>2
<1>2. Inductive(P, D, m, n, o)
  <2>1. m \in [D -> Nat] /\ n \in [D -> Nat] /\ o \in [D -> Nat]
    BY WalkMeasures
  <2> HIDE DEF P, D, m, n, o
  <2> QED BY <1>1, <2>1 DEF Inductive
<1>3. D \subseteq P
  <2> HIDE DEF P, D, m, n, o
  <2> QED BY <1>2, ByMeasure
<1> QED BY <1>3 DEF walk

\* _resolve_role_usage covers the steps of the run's script and of every script it may call.
LEMMA RoleUsageFacts ==
  ASSUME NEW lib, Sealed(lib), NEW root \in Held(lib)
  PROVE  LET u == RoleUsage(root, lib)
         IN /\ u \in Usages /\ root.steps \in Deep(u)
            /\ \A i \in u.walked : i \in Ids(lib) /\ Script(lib, i).steps \in Deep(u)
<1> DEFINE none == [roles |-> {}, managed |-> {}, walked |-> {root.id}]
           x == From1(root.steps, none)
           u == RoleUsage(root, lib)
<1>1. root \in Scripts /\ root.id \in Ids(lib) /\ Script(lib, root.id) = root /\ root.id \in STRING
  BY LibraryFacts DEF Sealed
<1>2. none \in Usages /\ none.walked = {root.id}
  BY <1>1 DEF Usages
<1>3. root.steps \in ClosedBlocks(lib)
  BY ScriptsAreClosed
<1>4. x \in Walks(lib) /\ x.block = root.steps /\ x.k = 1 /\ x.usage = none
  BY <1>2, <1>3 DEF From1, Walks
<1>5. u = WalkRoles(lib)[x]
  BY DEF RoleUsage, From1
<1> HIDE DEF none, x, u
<1>6. u \in Usages /\ WalkedFrom(lib, x, u)
  BY <1>4, <1>5, WalkEquation, WalkCovers
<1>7. root.steps \in Deep(u)
  <2>1. root.steps \in Blocks /\ Len(root.steps) \in Nat /\ DOMAIN root.steps = 1..Len(root.steps)
    BY <1>3, BlocksAreSteps DEF ClosedBlocks
  <2>2. \A s \in Range(root.steps) : DeepStep(u, s)
    BY <1>4, <1>6, <2>1 DEF WalkedFrom, Range
  <2> QED BY <2>1, <2>2, DeepFacts
<1>8. ASSUME NEW i \in u.walked PROVE i \in Ids(lib) /\ Script(lib, i).steps \in Deep(u)
  BY <1>1, <1>2, <1>4, <1>6, <1>7 DEF WalkedFrom, WalkedAll
<1> QED BY <1>6, <1>7, <1>8 DEF u

----------------------------------------------------------------------------
(***************************************************************************)
(* What a running script has still to dispatch.                            *)
(***************************************************************************)

Tasks(u) ==
  {s \in Steps : DeepStep(u, s)} \cup
  {Again(s, n) : s \in {r \in Steps : r.do = "until" /\ DeepStep(u, r)}, n \in Nat}

HasRoles(lib, roles, u) ==
  /\ u.roles = roles
  /\ \A i \in u.walked : i \in Ids(lib) /\ Script(lib, i).steps \in Deep(u)

\* What is to be dispatched uses no other roles.
Tasked(lib, roles, list) == \E u : HasRoles(lib, roles, u) /\ list \in Seq(Tasks(u))

\* n steps were dispatched, and what is to be dispatched makes them tot.
Counting(lib, tot, list, n) ==
  /\ list \in Seq(EvenSteps(lib)) /\ n \in Nat /\ Count(lib, list) \in Int
  /\ n + Count(lib, list) = tot

LEMMA HeadAndTail ==
  ASSUME NEW T, NEW list \in Seq(T), list # <<>>
  PROVE  /\ Head(list) \in T /\ Tail(list) \in Seq(T) /\ list = <<Head(list)>> \o Tail(list)
<1>1. Head(list) \in T /\ Tail(list) \in Seq(T)
  OBVIOUS
<1>2. <<Head(list)>> \o Tail(list) \in Seq(T) /\ Len(<<Head(list)>> \o Tail(list)) = Len(list)
  BY <1>1
<1>3. \A k \in 1..Len(list) : list[k] = (<<Head(list)>> \o Tail(list))[k]
  BY <1>1
<1> QED BY <1>1, <1>2, <1>3, SameSequences

\* An iteration dispatches only steps of its sequence.
LEMMA IterationStays ==
  ASSUME NEW T, NEW b \in Seq(T), NEW n
  PROVE  Iteration(b, n) \in Seq(T)
<1> DEFINE ss == [k \in DOMAIN b |-> IF b[k].every = NoEvery \/ n % b[k].every = 0 THEN <<b[k]>> ELSE <<>>]
<1>1. DOMAIN b = 1..Len(b) /\ Len(b) \in Nat /\ \A k \in 1..Len(b) : b[k] \in T
  OBVIOUS
<1>2. \A k \in 1..Len(b) : <<b[k]>> \in Seq(T) /\ <<>> \in Seq(T)
  BY <1>1
<1>3. ss \in [1..Len(b) -> Seq(T)]
  BY <1>1, <1>2
<1>4. Iteration(b, n) = FlattenSeq(ss)
  BY DEF Iteration
<1> HIDE DEF ss
<1>5. ss \in Lists(T)
  BY <1>1, <1>3, SeqDef DEF Lists
<1> QED BY <1>4, <1>5, Flatten

\* The steps of a deep sequence may be dispatched.
LEMMA DeepBlocksAreTasks ==
  ASSUME NEW u, NEW b \in Deep(u)
  PROVE  b \in Seq(Tasks(u))
<1>1. b \in Seq(Steps) /\ DOMAIN b = 1..Len(b) /\ Len(b) \in Nat /\ \A s \in Range(b) : DeepStep(u, s)
  <2>1. b \in Blocks /\ \A s \in Range(b) : DeepStep(u, s)
    BY DeepFacts
  <2>2. b \in Seq(Steps)
    BY <2>1, GraphAssumption
  <2> QED BY <2>1, <2>2
<1>2. \A k \in 1..Len(b) : b[k] \in Tasks(u)
  BY <1>1 DEF Tasks, Range
<1>3. b = [k \in 1..Len(b) |-> b[k]]
  BY <1>1
<1>4. [k \in 1..Len(b) |-> b[k]] \in [1..Len(b) -> Tasks(u)]
  BY <1>2
<1> QED BY <1>1, <1>3, <1>4, SeqDef

LEMMA AgainIsNoStep ==
  ASSUME NEW s, NEW n
  PROVE  /\ Again(s, n).do = "again" /\ Again(s, n).step = s /\ Again(s, n).n = n
         /\ Again(s, n) \notin Steps
<1>1. Again(s, n).do = "again" /\ Again(s, n).step = s /\ Again(s, n).n = n
  BY DEF Again
<1> QED BY <1>1, GraphAssumption

\* A dispatched step uses a role that was resolved, and so will what is dispatched in its place.
LEMMA DispatchKeepsTasks ==
  ASSUME NEW lib, NEW roles, NEW list, Tasked(lib, roles, list), list # <<>>, Head(list).do # "again",
         NEW more, Replaces(lib, Head(list), more)
                     \/ (Head(list).do = "until" /\ more = <<Again(Head(list), 1)>>)
  PROVE  RoleOf(Head(list)) \subseteq roles /\ Tasked(lib, roles, more \o Tail(list))
<1> DEFINE s == Head(list)
<1>1. PICK u : HasRoles(lib, roles, u) /\ list \in Seq(Tasks(u))
  BY DEF Tasked
<1>2. s \in Tasks(u) /\ Tail(list) \in Seq(Tasks(u))
  BY <1>1, HeadAndTail
<1> HIDE DEF s
<1>3. s \in Steps /\ DeepStep(u, s)
  BY <1>2, AgainIsNoStep DEF Tasks, s
<1>4. s.do \in {"leaf", "call", "repeat", "until", "if"}
  BY <1>3, GraphAssumption
<1>5. Range(Inner(s)) = IF s.do \in {"repeat", "until"} THEN {s.steps}
                        ELSE IF s.do = "if" THEN {s.then, s.else} ELSE {}
  BY <1>4, InnerSteps
<1>6. RoleOf(s) \subseteq roles /\ (s.do = "call" => s.to \in u.walked) /\ Range(Inner(s)) \subseteq Deep(u)
  BY <1>1, <1>3 DEF DeepStep, CoveredBy, HasRoles
<1>7. more \in Seq(Tasks(u))
  <2>1. CASE s.do = "leaf"
    <3>1. more = <<>>
      BY <2>1 DEF Replaces, s
    <3> QED BY <3>1
  <2>2. CASE s.do = "call"
    <3>1. more = Script(lib, s.to).steps
      BY <2>2 DEF Replaces, s
    <3>2. more \in Deep(u)
      BY <1>1, <1>6, <2>2, <3>1 DEF HasRoles
    <3> QED BY <3>2, DeepBlocksAreTasks
  <2>3. CASE s.do = "if"
    <3>1. more \in {s.then, s.else}
      BY <2>3 DEF Replaces, s
    <3>2. more \in Deep(u)
      BY <1>5, <1>6, <2>3, <3>1
    <3> QED BY <3>2, DeepBlocksAreTasks
  <2>4. CASE s.do = "repeat"
    <3>1. more = Iterations(s)
      BY <2>4 DEF Replaces, s
    <3>2. s.steps \in Seq(Tasks(u)) /\ s.count \in Int
      BY <1>3, <1>5, <1>6, <2>4, DeepBlocksAreTasks, GraphAssumption
    <3> DEFINE ss == [n \in 1..s.count |-> Iteration(s.steps, n)]
               m == IF s.count > 0 THEN s.count ELSE 0
    <3>3. m \in Nat /\ 1..s.count = 1..m
      BY <3>2
    <3>4. \A n : Iteration(s.steps, n) \in Seq(Tasks(u))
      BY <3>2, IterationStays
    <3>5. ss \in [1..m -> Seq(Tasks(u))]
      <4> HIDE DEF m
      <4> QED BY <3>3, <3>4
    <3> HIDE DEF m, ss
    <3>6. ss \in Lists(Tasks(u))
      BY <3>3, <3>5, SeqDef DEF Lists
    <3>7. FlattenSeq(ss) \in Seq(Tasks(u))
      BY <3>6, Flatten
    <3> QED BY <3>1, <3>7 DEF Iterations, ss
  <2>5. CASE s.do = "until"
    <3>1. more = <<Again(s, 1)>>
      BY <2>5 DEF Replaces, s
    <3>2. Again(s, 1) \in Tasks(u)
      BY <1>3, <2>5 DEF Tasks
    <3> QED BY <3>1, <3>2
  <2> QED BY <1>4, <2>1, <2>2, <2>3, <2>4, <2>5
<1>8. more \o Tail(list) \in Seq(Tasks(u))
  BY <1>2, <1>7, Concatenated
<1> QED BY <1>1, <1>6, <1>8 DEF Tasked, s

\* One more iteration of an until, or none, uses no other roles.
LEMMA RepeatsKeepTasks ==
  ASSUME NEW lib, NEW roles, NEW list, Tasked(lib, roles, list), list # <<>>, Head(list).do = "again"
  PROVE  /\ Tasked(lib, roles, Tail(list)) /\ Tasked(lib, roles, <<>>)
         /\ LET s == Head(list).step
                n == Head(list).n
            IN Tasked(lib, roles, Iteration(s.steps, n) \o <<Again(s, n + 1)>> \o Tail(list))
<1> DEFINE a == Head(list)
<1>1. PICK u : HasRoles(lib, roles, u) /\ list \in Seq(Tasks(u))
  BY DEF Tasked
<1>2. a \in Tasks(u) /\ Tail(list) \in Seq(Tasks(u))
  BY <1>1, HeadAndTail
<1> HIDE DEF a
<1>3. a \notin Steps
  BY GraphAssumption DEF a
<1>4. PICK s \in {r \in Steps : r.do = "until" /\ DeepStep(u, r)}, n \in Nat : a = Again(s, n)
  BY <1>2, <1>3 DEF Tasks
<1>5. a.step = s /\ a.n = n
  BY <1>4, AgainIsNoStep
<1>6. s.steps \in Deep(u)
  <2>1. Range(Inner(s)) = {s.steps}
    BY <1>4, InnerSteps
  <2> QED BY <1>4, <2>1 DEF DeepStep, CoveredBy
<1>7. Iteration(s.steps, n) \in Seq(Tasks(u))
  BY <1>6, DeepBlocksAreTasks, IterationStays
<1>8. <<Again(s, n + 1)>> \in Seq(Tasks(u))
  <2>1. Again(s, n + 1) \in Tasks(u)
    BY <1>4 DEF Tasks
  <2> QED BY <2>1
<1>9. Iteration(s.steps, n) \o <<Again(s, n + 1)>> \o Tail(list) \in Seq(Tasks(u))
  BY <1>2, <1>7, <1>8, Concatenated
<1>10. Tasked(lib, roles, Tail(list)) /\ Tasked(lib, roles, <<>>)
  <2>1. <<>> \in Seq(Tasks(u))
    OBVIOUS
  <2> QED BY <1>1, <1>2, <2>1 DEF Tasked
<1>11. Tasked(lib, roles, Iteration(s.steps, n) \o <<Again(s, n + 1)>> \o Tail(list))
  BY <1>1, <1>9 DEF Tasked
<1> QED BY <1>5, <1>10, <1>11 DEF a

\* What was dispatched and what is still to come add up to the same number.
LEMMA DispatchKeepsCount ==
  ASSUME NEW lib, Sealed(lib), Countable(lib), NEW tot, NEW list, NEW n, Counting(lib, tot, list, n),
         list # <<>>
  PROVE  /\ Head(list).do \notin {"until", "again"}
         /\ \A more : Replaces(lib, Head(list), more) => Counting(lib, tot, more \o Tail(list), n + 1)
<1> DEFINE s == Head(list)
           rest == Tail(list)
           one == CountOne(s, lib, CountSteps(lib))
<1>1. s \in EvenSteps(lib) /\ rest \in Seq(EvenSteps(lib)) /\ list = <<s>> \o rest
  BY HeadAndTail DEF Counting
<1> HIDE DEF s, rest
<1>2. s \in SomeSteps(lib) /\ s.do \in {"leaf", "call", "repeat", "until", "if"}
  BY <1>1, EvenStepsFacts, SomeStepsFacts
<1>3. rest \in Seq(SomeSteps(lib)) /\ <<s>> \in Seq(SomeSteps(lib))
  BY <1>1, <1>2, EvenStepsAreSteps
<1>4. Count(lib, list) = Plus(one, Count(lib, rest)) /\ one \in Numbers /\ Count(lib, rest) \in Numbers
  BY <1>1, <1>2, <1>3, CountOfBoth, CountOfOne
<1>5. Count(lib, list) \in Int
  BY DEF Counting
<1> HIDE DEF one
<1>6. /\ one \in Int /\ Count(lib, rest) \in Int /\ one # None
      /\ Count(lib, list) = one + Count(lib, rest)
  BY <1>4, <1>5, GraphAssumption DEF Plus, Numbers
<1>7. s.do \notin {"until", "again"}
  <2>1. s.do = "until" => one = None
    BY DEF CountOne, one
  <2> QED BY <1>2, <1>6, <2>1
<1>8. ASSUME NEW more, Replaces(lib, s, more) PROVE Counting(lib, tot, more \o rest, n + 1)
  <2>1. more \in Seq(EvenSteps(lib)) /\ Count(lib, more) \in Int /\ one = 1 + Count(lib, more)
    BY <1>1, <1>6, <1>8, DispatchCounts DEF one
  <2>2. more \o rest \in Seq(EvenSteps(lib)) /\ more \in Seq(SomeSteps(lib))
    BY <1>1, <2>1, Concatenated, EvenStepsAreSteps
  <2>3. Count(lib, more \o rest) = Plus(Count(lib, more), Count(lib, rest))
    BY <1>3, <2>2, CountOfBoth
  <2>4. Count(lib, more \o rest) = Count(lib, more) + Count(lib, rest)
    BY <1>6, <2>1, <2>3, GraphAssumption DEF Plus
  <2>5. n \in Nat /\ n + Count(lib, list) = tot
    BY DEF Counting
  <2> QED BY <1>6, <2>1, <2>2, <2>4, <2>5 DEF Counting
<1> QED BY <1>7, <1>8 DEF s, rest

----------------------------------------------------------------------------
(***************************************************************************)
(* A run from its first step to its last.                                  *)
(***************************************************************************)

Stages == {"none", "reading", "refused", "running", "completed", "failed"}

\* The total is to be exact.
Exact(tot, lib) == tot # None /\ Countable(lib)

\* Of the run alone: what it is still to dispatch uses the roles it has resolved and makes up its total.
RunOnly(st, lib, tot, roles, list, n) ==
  /\ st = "running" => /\ Sealed(lib) /\ Tasked(lib, roles, list)
                       /\ Exact(tot, lib) => Counting(lib, tot, list, n)
  /\ st = "completed" => (Exact(tot, lib) => n \in Nat /\ n = tot)
  /\ st = "refused" => tot = None
  /\ st = "failed" => ~Exact(tot, lib)

RunInv == /\ stage \in Stages /\ plain = TRUE
          /\ RunOnly(stage, snapshot, total, usage, todo, steps)

LEMMA RunOfOthers ==
  ASSUME NEW st, st \in {"none", "reading"}, NEW lib, NEW tot, NEW roles, NEW list, NEW n
  PROVE  RunOnly(st, lib, tot, roles, list, n)
BY DEF RunOnly

LEMMA RunInit == Init => RunInv
<1> SUFFICES ASSUME Init PROVE RunInv
  OBVIOUS
<1>1. stage = "none" /\ plain = TRUE
  BY DEF Init
<1> QED BY <1>1, RunOfOthers DEF RunInv, Stages

\* A run that may begin has read scripts that call each other only, and announces what it counts.
LEMMA PreparesTheRun ==
  ASSUME ReadInv, RunInv, RunPrepares
  PROVE  RunInv'
<1> DEFINE root == snapshot[1]
           u == RoleUsage(root, snapshot)
<1>1. /\ stage = "reading" /\ unread = <<>> /\ UNCHANGED <<snapshot, steps, plain>>
      /\ plain = TRUE
  BY DEF RunPrepares, RunInv
<1>2. IsSnapshot /\ Closing /\ snapshot # <<>> /\ total = None /\ steps = 0
  BY <1>1 DEF ReadInv
<1>3. CASE ArgumentsResolve /\ DevicesReady(u) /\ IsAcyclic(snapshot)
  <2>1. /\ stage' = "running" /\ usage' = u.roles /\ todo' = root.steps
        /\ total' = CountTotalSteps(root, snapshot)
    BY <1>3 DEF RunPrepares
  <2>2. Sealed(snapshot)
    <3>1. IsLibrary(snapshot) /\ Range(unread) = {}
      BY <1>1, <1>2 DEF IsSnapshot, Range
    <3>2. \A s \in Held(snapshot) : Called(s) \subseteq Ids(snapshot)
      BY <1>2, <3>1 DEF Closing, CallsRead
    <3> QED BY <1>3, <3>1, <3>2, LibraryFacts DEF Sealed
  <2>3. root \in Held(snapshot)
    <3>1. snapshot \in Seq(Scripts \cup {NoScript}) /\ \A k \in DOMAIN snapshot : snapshot[k] \in Scripts
      BY <1>2 DEF IsSnapshot, IsLibrary, Libraries
    <3>2. 1 \in DOMAIN snapshot
      BY <1>2, <3>1, EmptySeq
    <3> QED BY <3>1, <3>2, GraphAssumption DEF Held, Range
  <2>4. Tasked(snapshot, usage', root.steps)
    <3>1. root.steps \in Deep(u) /\ \A i \in u.walked : i \in Ids(snapshot) /\ Script(snapshot, i).steps \in Deep(u)
      <4> HIDE DEF root
      <4> QED BY <2>2, <2>3, RoleUsageFacts
    <3> HIDE DEF u, root
    <3>2. HasRoles(snapshot, usage', u)
      BY <2>1, <3>1 DEF HasRoles
    <3>3. root.steps \in Seq(Tasks(u))
      BY <3>1, DeepBlocksAreTasks
    <3> QED BY <3>2, <3>3 DEF Tasked
  <2>5. ASSUME Exact(total', snapshot) PROVE Counting(snapshot, total', root.steps, 0)
    <3> HIDE DEF root
    <3>1. root.steps \in ClosedBlocks(snapshot)
      BY <2>2, <2>3, ScriptsAreClosed
    <3>2. CountSteps(snapshot)[root.steps] \in Numbers
          /\ CountSteps(snapshot)[root.steps] = Count(snapshot, root.steps)
      BY <2>2, <3>1, CountEquation DEF Count
    <3>3. total' = Count(snapshot, root.steps) /\ total' # None
      BY <2>1, <2>5, <3>2 DEF CountTotalSteps, Exact
    <3>4. Count(snapshot, root.steps) \in Int
      BY <3>2, <3>3 DEF Numbers
    <3>5. Even[root.steps]
      BY <2>3, <2>5 DEF Exact, Countable, Held, Range
    <3>6. root.steps \in EvenBlocks(snapshot)
      BY <3>1, <3>5 DEF EvenBlocks
    <3>7. root.steps \in Seq(EvenSteps(snapshot))
      BY <3>6, EvenBlocksAreSteps
    <3> QED BY <3>3, <3>4, <3>7 DEF Counting
  <2>6. RunOnly(stage', snapshot', total', usage', todo', steps')
    <3> HIDE DEF root, u
    <3> QED BY <1>1, <1>2, <2>1, <2>2, <2>4, <2>5 DEF RunOnly
  <2> QED BY <1>1, <2>1, <2>6 DEF RunInv, Stages
<1>4. CASE ~(ArgumentsResolve /\ DevicesReady(u) /\ IsAcyclic(snapshot))
  <2>1. stage' = "refused" /\ total' = None
    BY <1>2, <1>4 DEF RunPrepares
  <2> QED BY <1>1, <2>1 DEF RunInv, RunOnly, Stages
<1> QED BY <1>3, <1>4

\* The interpretation dispatches what was announced.
LEMMA InterpretKeepsRun ==
  ASSUME RunInv, Interpret
  PROVE  RunInv'
<1>1. /\ stage = "running" /\ plain = TRUE /\ Sealed(snapshot) /\ Tasked(snapshot, usage, todo)
      /\ Exact(total, snapshot) => Counting(snapshot, total, todo, steps)
  <2>1. stage = "running"
    BY DEF Interpret, DispatchesLeaf, DispatchesCall, DispatchesRepeat, DispatchesUntil,
           DispatchesIf, At, Repeats, ConditionHolds, RunCompletes
  <2> QED BY <2>1 DEF RunInv, RunOnly
<1>2. ASSUME NEW more, todo # <<>>, Dispatches(Head(todo), more), Head(todo).do # "again",
             Replaces(snapshot, Head(todo), more)
               \/ (Head(todo).do = "until" /\ more = <<Again(Head(todo), 1)>>)
      PROVE  RunInv'
  <2>1. /\ steps' = steps + 1 /\ todo' = more \o Tail(todo)
        /\ plain' = (plain /\ RoleOf(Head(todo)) \subseteq usage)
        /\ UNCHANGED <<stage, snapshot, total, usage>>
    BY <1>2 DEF Dispatches
  <2>2. RoleOf(Head(todo)) \subseteq usage /\ Tasked(snapshot, usage, more \o Tail(todo))
    BY <1>1, <1>2, DispatchKeepsTasks
  <2>3. Exact(total, snapshot) => Counting(snapshot, total, more \o Tail(todo), steps + 1)
    BY <1>1, <1>2, DispatchKeepsCount DEF Exact
  <2>4. RunOnly("running", snapshot, total, usage, more \o Tail(todo), steps + 1)
    BY <1>1, <2>2, <2>3 DEF RunOnly
  <2> QED BY <1>1, <2>1, <2>2, <2>4 DEF RunInv, Stages
<1>3. CASE DispatchesLeaf
  BY <1>2, <1>3 DEF DispatchesLeaf, At, Replaces
<1>4. CASE DispatchesCall
  BY <1>2, <1>4 DEF DispatchesCall, At, Replaces
<1>5. CASE DispatchesRepeat
  BY <1>2, <1>5 DEF DispatchesRepeat, At, Replaces
<1>6. CASE DispatchesUntil
  BY <1>2, <1>6 DEF DispatchesUntil, At
<1>7. CASE DispatchesIf
  BY <1>2, <1>7 DEF DispatchesIf, At, Replaces
<1>8. CASE Repeats \/ ConditionHolds
  <2>1. todo # <<>> /\ Head(todo).do = "again" /\ UNCHANGED <<snapshot, total, usage, steps, plain>>
    BY <1>8 DEF Repeats, ConditionHolds, At
  <2>2. ~Exact(total, snapshot)
    BY <1>1, <2>1, DispatchKeepsCount DEF Exact
  <2>3. /\ Tasked(snapshot, usage, Tail(todo))
        /\ Tasked(snapshot, usage, Iteration(Head(todo).step.steps, Head(todo).n)
                                     \o <<Again(Head(todo).step, Head(todo).n + 1)>> \o Tail(todo))
    BY <1>1, <2>1, RepeatsKeepTasks
  <2>4. \/ stage' = "failed"
        \/ stage' = "running" /\ Tasked(snapshot, usage, todo')
    BY <1>1, <1>8, <2>3 DEF Repeats, ConditionHolds
  <2> QED BY <1>1, <2>1, <2>2, <2>4 DEF RunInv, RunOnly, Stages
<1>9. CASE RunCompletes
  <2>1. todo = <<>> /\ stage' = "completed" /\ UNCHANGED <<snapshot, total, usage, todo, steps, plain>>
    BY <1>9 DEF RunCompletes
  <2>2. ASSUME Exact(total, snapshot) PROVE steps \in Nat /\ steps = total
    <3>1. Counting(snapshot, total, <<>>, steps)
      BY <1>1, <2>1, <2>2
    <3>2. Count(snapshot, <<>>) = 0
      BY SumOfNoneAndOne DEF Count, Counted
    <3> QED BY <3>1, <3>2 DEF Counting
  <2> QED BY <1>1, <2>1, <2>2 DEF RunInv, RunOnly, Stages
<1> QED BY <1>3, <1>4, <1>5, <1>6, <1>7, <1>8, <1>9 DEF Interpret

\* Every step keeps the invariant of the run.
LEMMA RunNext == ReadInv /\ RunInv /\ [Next]_vars => RunInv'
<1> SUFFICES ASSUME ReadInv, RunInv, [Next]_vars PROVE RunInv'
  OBVIOUS
<1>1. CASE UNCHANGED <<stage, snapshot, total, usage, todo, steps, plain>>
  BY <1>1 DEF RunInv
<1>2. ASSUME stage' \in {"none", "reading"}, plain' = TRUE PROVE RunInv'
  BY <1>2, RunOfOthers DEF RunInv, Stages
<1>3. CASE \E c \in Clients : Save(c)
  BY <1>1, <1>3 DEF Save, SaveChecks, SaveOpens, SaveWritesPart, SaveWrites, SaveFails, SaveLoads,
                    SaveLoadFails, run
<1>4. CASE \E c \in Clients, s \in Uploads, o \in BOOLEAN : SaveCalled(c, s, o)
  BY <1>1, <1>4 DEF SaveCalled, run
<1>5. CASE \E id \in Ids(library) : RunStarts(id)
  BY <1>2, <1>5 DEF RunStarts, RunInv
<1>6. CASE RunReads
  <2>1. stage = "reading" /\ stage' \in {"reading", "refused"} /\ UNCHANGED <<total, plain>>
    BY <1>6 DEF RunReads
  <2>2. total = None
    BY <2>1 DEF ReadInv
  <2> QED BY <2>1, <2>2 DEF RunInv, RunOnly, Stages
<1>7. CASE RunPrepares
  BY <1>7, PreparesTheRun
<1>8. CASE Interpret
  BY <1>8, InterpretKeepsRun
<1>9. CASE RunForgotten \/ Restart
  BY <1>2, <1>9 DEF RunForgotten, Restart, NoRun
<1>10. CASE UNCHANGED vars
  BY <1>1, <1>10 DEF vars, run
<1> QED BY <1>3, <1>4, <1>5, <1>6, <1>7, <1>8, <1>9, <1>10 DEF Next, Run

(***************************************************************************)
(* The totalSteps of _count_total_steps is what the interpretation         *)
(* dispatches, whichever branches it takes, unless it is None or the steps *)
(* have an `every` or a negative count; and _resolve_role_usage resolved   *)
(* every role that is used.                                                *)
(***************************************************************************)
THEOREM ARunIsAsAnnounced == Spec => []RunIsAsAnnounced
<1>1. ReadInv /\ RunInv => RunIsAsAnnounced
  <2> SUFFICES ASSUME ReadInv, RunInv, total # None, Countable(snapshot)
               PROVE  steps <= total /\ (stage = "completed" => steps = total)
    BY DEF RunIsAsAnnounced, RunInv
  <2>1. stage \in {"running", "completed"}
    BY DEF RunInv, RunOnly, Exact, Stages, ReadInv, NotRunning
  <2>2. CASE stage = "running"
    <3>1. Sealed(snapshot) /\ Counting(snapshot, total, todo, steps)
      BY <2>2 DEF RunInv, RunOnly, Exact
    <3>2. /\ todo \in Seq(EvenSteps(snapshot)) /\ steps \in Nat /\ Count(snapshot, todo) \in Int
          /\ steps + Count(snapshot, todo) = total
      BY <3>1 DEF Counting
    <3>3. Count(snapshot, todo) \in Counts
      BY <3>1, <3>2, EvenStepsCount
    <3>4. Count(snapshot, todo) \in Nat
      BY <3>2, <3>3, GraphAssumption DEF Counts
    <3> QED BY <2>2, <3>2, <3>4
  <2>3. CASE stage = "completed"
    BY <2>3 DEF RunInv, RunOnly, Exact
  <2> QED BY <2>1, <2>2, <2>3
<1> QED BY <1>1, StoreInit, StoreNext, ReadInit, ReadNext, RunInit, RunNext, PTL DEF Spec
=============================================================================
