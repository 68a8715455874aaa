------------------------------ MODULE Induction ------------------------------
(***************************************************************************)
(* Induction over data, without operators as parameters: what holds of every *)
(* natural number is a set of them, and a step of a recursion is a function. *)
(* From the least element of a set of natural numbers follows that recursive *)
(* functions exist, and with them what the folds of the community modules    *)
(* compute.                                                                 *)
(***************************************************************************)
EXTENDS Integers, SequencesExt, SequenceTheorems, WellFoundedInduction, TLAPS

Less == OpToRel(<, Nat)

LEMMA LessIs == \A x, y \in Nat : <<x, y>> \in Less <=> x < y
BY DEF Less, OpToRel

\* Every set of natural numbers that is not empty has a least one.
LEMMA Least ==
    ASSUME NEW T, T \subseteq Nat, T # {}
    PROVE  \E x \in T : \A y \in T : x <= y
<1>1. IsWellFoundedOn(Less, Nat)
    BY NatLessThanWellFounded DEF Less
<1>2. PICK x \in T : \A y \in T : ~ (<<y, x>> \in Less)
    BY <1>1, WFMin
<1>3. ASSUME NEW y \in T PROVE x <= y
    <2>1. x \in Nat /\ y \in Nat /\ ~ (y < x)
        BY <1>2, LessIs
    <2> QED BY <2>1
<1> QED BY <1>3

\* And where it is bounded a greatest one.
LEMMA Greatest ==
    ASSUME NEW m \in Nat, NEW T, T \subseteq 0 .. m, T # {}
    PROVE  \E x \in T : \A y \in T : y <= x
<1> DEFINE U == {n \in Nat : \A y \in T : y <= n}
<1>1. U \subseteq Nat /\ m \in U
    OBVIOUS
<1>2. PICK n \in U : \A k \in U : n <= k
    BY <1>1, Least
<1>3. \A y \in T : y <= n
    OBVIOUS
<1>4. n \in T
    <2> SUFFICES ASSUME n \notin T PROVE FALSE
        OBVIOUS
    <2>1. PICK z \in T : TRUE
        OBVIOUS
    <2>2. \A y \in T : y \in Nat /\ y # n
        BY <2>1
    <2>3. n - 1 \in Nat /\ \A y \in T : y <= n - 1
        BY <1>1, <1>3, <2>1, <2>2
    <2>4. n - 1 \in U
        BY <2>3
    <2> QED BY <1>1, <1>2, <2>4
<1> QED BY <1>3, <1>4

\* A set that has 0, and with every number the next one, has all of them.
LEMMA Induction ==
    ASSUME NEW T, 0 \in T, \A n \in Nat : n \in T => n + 1 \in T
    PROVE  Nat \subseteq T
<1> SUFFICES ASSUME Nat \ T # {} PROVE FALSE
    OBVIOUS
<1>1. PICK x \in Nat \ T : \A y \in Nat \ T : x <= y
    BY Least
<1>2. x - 1 \in T /\ x - 1 \in Nat
    BY <1>1
<1> QED BY <1>1, <1>2

\* The same up to a number.
LEMMA InductionUpTo ==
    ASSUME NEW m \in Nat, NEW T, 0 \in T, \A n \in 0 .. m - 1 : n \in T => n + 1 \in T
    PROVE  0 .. m \subseteq T
<1> DEFINE U == {n \in Nat : n <= m => n \in T}
<1>1. 0 \in U
    OBVIOUS
<1>2. ASSUME NEW n \in Nat, n \in U PROVE n + 1 \in U
    BY <1>2
<1> HIDE DEF U
<1>3. Nat \subseteq U
    BY <1>1, <1>2, Induction
<1> QED BY <1>3 DEF U

\* And downwards from one.
LEMMA InductionDown ==
    ASSUME NEW m \in Nat, NEW T, m \in T, \A n \in 1 .. m : n \in T => n - 1 \in T
    PROVE  0 .. m \subseteq T
<1> DEFINE U == {n \in 0 .. m : m - n \in T}
<1>1. 0 \in U
    OBVIOUS
<1>2. ASSUME NEW n \in 0 .. m - 1, n \in U PROVE n + 1 \in U
    <2>1. m - n \in 1 .. m /\ m - n \in T
        BY <1>2
    <2>2. m - n - 1 \in T /\ m - (n + 1) = m - n - 1
        BY <2>1
    <2> QED BY <2>2
<1> HIDE DEF U
<1>3. 0 .. m \subseteq U
    BY <1>1, <1>2, InductionUpTo
<1>4. ASSUME NEW n \in 0 .. m PROVE n \in T
    <2>1. m - n \in U
        BY <1>3
    <2> QED BY <2>1 DEF U
<1> QED BY <1>4

\* From the right, with all that lies behind.
LEMMA FromTheRight ==
    ASSUME NEW n \in Nat, NEW T,
           \A i \in 1 .. n : (\A j \in i + 1 .. n : j \in T) => i \in T
    PROVE  1 .. n \subseteq T
<1> SUFFICES ASSUME (1 .. n) \ T # {} PROVE FALSE
    OBVIOUS
<1>1. PICK x \in (1 .. n) \ T : \A y \in (1 .. n) \ T : y <= x
    <2>1. (1 .. n) \ T \subseteq 0 .. n
        OBVIOUS
    <2> QED BY <2>1, Greatest
<1>2. \A j \in x + 1 .. n : j \in T
    BY <1>1
<1> QED BY <1>1, <1>2

-----------------------------------------------------------------------------
(* A recursion from left to right over a sequence: G is its step.          *)

\* p goes through s from the left: after n elements it is p[n].
IsRun(p, G, b, s) ==
    /\ DOMAIN p = 0 .. Len(s) /\ p[0] = b
    /\ \A i \in 1 .. Len(s) : p[i] = G[<<p[i - 1], s[i]>>]

\* What it ends with.
RunTo(G, b, s) == (CHOOSE p : IsRun(p, G, b, s))[Len(s)]

\* There is such a p for every step G and every sequence,
LEMMA RunExists ==
    ASSUME NEW V, NEW E, NEW G \in [V \X E -> V], NEW b \in V, NEW s \in Seq(E)
    PROVE  \E p \in [0 .. Len(s) -> V] : IsRun(p, G, b, s)
<1> DEFINE Upto(n, p) == /\ p \in [0 .. n -> V] /\ p[0] = b
                         /\ \A i \in 1 .. n : p[i] = G[<<p[i - 1], s[i]>>]
           T == {n \in Nat : \E p : Upto(n, p)}
<1>1. 0 \in T
    <2>1. Upto(0, [i \in 0 .. 0 |-> b])
        OBVIOUS
    <2> QED BY <2>1
<1>2. ASSUME NEW n \in 0 .. Len(s) - 1, n \in T PROVE n + 1 \in T
    <2>1. PICK p : Upto(n, p)
        BY <1>2
    <2>2. n \in Nat /\ n + 1 \in 1 .. Len(s) /\ s[n + 1] \in E
        OBVIOUS
    <2> DEFINE x == G[<<p[n], s[n + 1]>>]
               q == [i \in 0 .. n + 1 |-> IF i <= n THEN p[i] ELSE x]
    <2>3. p[n] \in V
        BY <2>1, <2>2
    <2>4. x \in V
        BY <2>2, <2>3
    <2> HIDE DEF x
    <2>5. q \in [0 .. n + 1 -> V]
        BY <2>1, <2>2, <2>4
    <2>6. q[0] = b
        BY <2>1, <2>2
    <2>7. ASSUME NEW i \in 1 .. n + 1 PROVE q[i] = G[<<q[i - 1], s[i]>>]
        <3>1. CASE i <= n
            <4>1. i \in 1 .. n /\ i - 1 \in 0 .. n
                BY <2>2, <3>1
            <4> QED BY <2>1, <2>2, <4>1
        <3>2. CASE i = n + 1
            <4>1. q[i] = x /\ q[i - 1] = p[n]
                BY <2>2, <3>2
            <4> QED BY <3>2, <4>1 DEF x
        <3> QED BY <2>2, <3>1, <3>2
    <2> HIDE DEF q
    <2>8. Upto(n + 1, q)
        BY <2>5, <2>6, <2>7
    <2> QED BY <2>2, <2>8
<1> HIDE DEF T
<1>3. Len(s) \in T
    <2>1. Len(s) \in Nat
        OBVIOUS
    <2>2. 0 .. Len(s) \subseteq T
        BY <1>1, <1>2, <2>1, InductionUpTo
    <2> QED BY <2>1, <2>2
<1>4. PICK p : Upto(Len(s), p)
    BY <1>3 DEF T
<1> QED BY <1>4 DEF IsRun

\* only one,
LEMMA RunUnique ==
    ASSUME NEW E, NEW s \in Seq(E), NEW G, NEW b, NEW p, NEW q,
           IsRun(p, G, b, s), IsRun(q, G, b, s)
    PROVE  p[Len(s)] = q[Len(s)]
<1> DEFINE T == {n \in 0 .. Len(s) : p[n] = q[n]}
<1>1. 0 \in T
    BY DEF IsRun
<1>2. ASSUME NEW n \in 0 .. Len(s) - 1, n \in T PROVE n + 1 \in T
    <2>1. n + 1 \in 1 .. Len(s) /\ n + 1 - 1 = n
        OBVIOUS
    <2>2. p[n + 1] = G[<<p[n], s[n + 1]>>] /\ q[n + 1] = G[<<q[n], s[n + 1]>>]
        BY <2>1 DEF IsRun
    <2> QED BY <1>2, <2>1, <2>2
<1> HIDE DEF T
<1>3. Len(s) \in Nat /\ 0 .. Len(s) \subseteq T
    BY <1>1, <1>2, InductionUpTo, SMTT(40)
<1> QED BY <1>3 DEF T

\* and RunTo is what it ends with.
LEMMA RunIs ==
    ASSUME NEW E, NEW s \in Seq(E), NEW G, NEW b, NEW p, IsRun(p, G, b, s)
    PROVE  RunTo(G, b, s) = p[Len(s)]
<1> DEFINE q == CHOOSE q : IsRun(q, G, b, s)
<1>1. IsRun(q, G, b, s)
    OBVIOUS
<1> HIDE DEF q
<1>2. q[Len(s)] = p[Len(s)]
    BY <1>1, RunUnique
<1> QED BY <1>2 DEF RunTo, q

LEMMA RunType ==
    ASSUME NEW V, NEW E, NEW G \in [V \X E -> V], NEW b \in V, NEW s \in Seq(E)
    PROVE  RunTo(G, b, s) \in V
<1>1. PICK p \in [0 .. Len(s) -> V] : IsRun(p, G, b, s)
    BY RunExists
<1>2. RunTo(G, b, s) = p[Len(s)] /\ Len(s) \in Nat
    BY <1>1, RunIs
<1> QED BY <1>2

LEMMA RunEmpty ==
    ASSUME NEW V, NEW E, NEW G \in [V \X E -> V], NEW b \in V
    PROVE  RunTo(G, b, <<>>) = b
<1> DEFINE p == [i \in 0 .. 0 |-> b]
<1>1. <<>> \in Seq(E) /\ Len(<<>>) = 0
    OBVIOUS
<1>2. IsRun(p, G, b, <<>>)
    BY <1>1 DEF IsRun
<1>3. p[Len(<<>>)] = b
    BY <1>1
<1> HIDE DEF p
<1> QED BY <1>1, <1>2, <1>3, RunIs

LEMMA RunOne ==
    ASSUME NEW G, NEW b, NEW x
    PROVE  RunTo(G, b, <<x>>) = G[<<b, x>>]
<1> DEFINE p == [i \in 0 .. 1 |-> IF i = 0 THEN b ELSE G[<<b, x>>]]
           s == <<x>>
<1>1. s \in Seq({x}) /\ Len(s) = 1 /\ s[1] = x
    OBVIOUS
<1>2. IsRun(p, G, b, s)
    BY <1>1 DEF IsRun
<1>3. p[Len(s)] = G[<<b, x>>]
    BY <1>1
<1> HIDE DEF p, s
<1>4. RunTo(G, b, s) = G[<<b, x>>]
    BY <1>1, <1>2, <1>3, RunIs
<1> QED BY <1>4 DEF s

\* The sets are named, so that a use of the lemmas below says which they are.
IsStep(G, V, E) == G \in [V \X E -> V]

\* A run over two sequences is one over the second that begins where the first has ended.
LEMMA RunConcat ==
    ASSUME NEW V, NEW E, NEW G, IsStep(G, V, E), NEW b \in V, NEW s \in Seq(E), NEW t \in Seq(E)
    PROVE  RunTo(G, b, s \o t) = RunTo(G, RunTo(G, b, s), t)
<1> DEFINE c == RunTo(G, b, s)
           u == s \o t
<1>1. c \in V
    BY RunType DEF IsStep
<1>2. PICK p \in [0 .. Len(s) -> V] : IsRun(p, G, b, s)
    BY RunExists DEF IsStep
<1>3. PICK q \in [0 .. Len(t) -> V] : IsRun(q, G, c, t)
    BY <1>1, RunExists DEF IsStep
<1>4. c = p[Len(s)] /\ RunTo(G, c, t) = q[Len(t)]
    BY <1>1, <1>2, <1>3, RunIs
<1>5. /\ u \in Seq(E) /\ Len(s) \in Nat /\ Len(t) \in Nat /\ Len(u) = Len(s) + Len(t)
      /\ \A i \in 1 .. Len(s) : u[i] = s[i]
      /\ \A i \in 1 .. Len(t) : u[Len(s) + i] = t[i]
    OBVIOUS
<1> HIDE DEF c, u
<1> DEFINE r == [i \in 0 .. Len(u) |-> IF i <= Len(s) THEN p[i] ELSE q[i - Len(s)]]
<1>6. r[0] = b
    BY <1>2, <1>5 DEF IsRun
<1>7. ASSUME NEW i \in 1 .. Len(u) PROVE r[i] = G[<<r[i - 1], u[i]>>]
    <2>1. CASE i <= Len(s)
        <3>1. i \in 1 .. Len(s) /\ r[i] = p[i] /\ r[i - 1] = p[i - 1] /\ u[i] = s[i]
            BY <1>5, <2>1
        <3> QED BY <1>2, <3>1 DEF IsRun
    <2>2. CASE i > Len(s)
        <3> DEFINE j == i - Len(s)
        <3>1. j \in 1 .. Len(t) /\ r[i] = q[j] /\ i = Len(s) + j
            BY <1>5, <2>2
        <3>2. u[i] = t[j]
            BY <1>5, <3>1
        <3>3. r[i - 1] = q[j - 1]
            <4>1. CASE j = 1
                <5>1. i - 1 = Len(s)
                    BY <1>5, <3>1, <4>1
                <5>2. r[i - 1] = p[Len(s)]
                    BY <1>5, <5>1
                <5>3. q[0] = c
                    BY <1>3 DEF IsRun
                <5> QED BY <1>4, <4>1, <5>2, <5>3
            <4>2. CASE j # 1
                BY <1>5, <3>1, <4>2
            <4> QED BY <4>1, <4>2
        <3>4. q[j] = G[<<q[j - 1], t[j]>>]
            BY <1>3, <3>1 DEF IsRun
        <3> QED BY <3>1, <3>2, <3>3, <3>4
    <2> QED BY <1>5, <2>1, <2>2
<1>8. IsRun(r, G, b, u)
    BY <1>6, <1>7 DEF IsRun
<1>9. r[Len(u)] = q[Len(t)]
    <2>1. CASE Len(t) = 0
        <3>1. q[0] = c
            BY <1>3 DEF IsRun
        <3> QED BY <1>4, <1>5, <2>1, <3>1
    <2>2. CASE Len(t) # 0
        BY <1>5, <2>2
    <2> QED BY <2>1, <2>2
<1> HIDE DEF r
<1>10. RunTo(G, b, u) = q[Len(t)]
    BY <1>5, <1>8, <1>9, RunIs
<1> QED BY <1>4, <1>10 DEF c, u

-----------------------------------------------------------------------------
(* A recursion that goes on further to the right, by any number of elements. *)

\* Where it does not stop, f goes on further to the right, at next[i].
IsScan(f, n, stop, base, next, G) ==
    f = [i \in 1 .. n |-> IF i \in stop THEN base ELSE G[<<i, f[next[i]]>>]]

\* There is such an f, by induction from the right end.
LEMMA ScanExists ==
    ASSUME NEW n \in Nat, NEW stop, NEW V, NEW base \in V, NEW next,
           NEW G \in [(1 .. n) \X V -> V],
           \A i \in (1 .. n) \ stop : next[i] \in i + 1 .. n
    PROVE  \E f \in [1 .. n -> V] : IsScan(f, n, stop, base, next, G)
<1> DEFINE At(f, i) == IF i \in stop THEN base ELSE G[<<i, f[next[i]]>>]
           From(m, f) == f \in [m + 1 .. n -> V] /\ \A i \in m + 1 .. n : f[i] = At(f, i)
           T == {m \in 0 .. n : \E f : From(m, f)}
<1>1. n \in T
    <2>1. From(n, [i \in n + 1 .. n |-> base])
        OBVIOUS
    <2> QED BY <2>1
<1>2. ASSUME NEW m \in 1 .. n, m \in T PROVE m - 1 \in T
    <2>1. PICK f : From(m, f)
        BY <1>2
    <2> DEFINE x == At(f, m)
               h == [i \in m .. n |-> IF i = m THEN x ELSE f[i]]
    <2>2. x \in V
        <3>1. CASE m \in stop
            BY <3>1
        <3>2. CASE m \notin stop
            <4>1. next[m] \in m + 1 .. n
                BY <3>2
            <4>2. f[next[m]] \in V
                BY <2>1, <4>1
            <4> QED BY <3>2, <4>2
        <3> QED BY <3>1, <3>2
    <2>3. ASSUME NEW i \in m .. n PROVE At(h, i) = At(f, i)
        <3>1. CASE i \notin stop
            <4>1. next[i] \in i + 1 .. n
                BY <3>1
            <4>2. next[i] \in m .. n /\ next[i] # m
                BY <4>1
            <4>3. h[next[i]] = f[next[i]]
                BY <4>2
            <4> HIDE DEF h
            <4> QED BY <3>1, <4>3
        <3>2. CASE i \in stop
            BY <3>2
        <3> QED BY <3>1, <3>2
    <2> HIDE DEF x
    <2>4. h \in [m .. n -> V]
        BY <2>1, <2>2
    <2>5. ASSUME NEW i \in m .. n PROVE h[i] = At(f, i)
        <3>1. CASE i = m
            BY <3>1 DEF x
        <3>2. CASE i # m
            <4>1. i \in m + 1 .. n
                BY <3>2
            <4> HIDE DEF At
            <4> QED BY <2>1, <3>2, <4>1
        <3> QED BY <3>1, <3>2
    <2>6. m - 1 \in 0 .. n /\ (m - 1) + 1 = m
        OBVIOUS
    <2> HIDE DEF h, At
    <2>7. From(m - 1, h)
        BY <2>3, <2>4, <2>5, <2>6
    <2> QED BY <2>6, <2>7
<1>3. 0 \in T
    <2> HIDE DEF T
    <2>1. 0 .. n \subseteq T
        BY <1>1, <1>2, InductionDown
    <2> QED BY <2>1
<1>4. PICK f : From(0, f)
    BY <1>3
<1>5. f \in [1 .. n -> V] /\ \A i \in 1 .. n : f[i] = At(f, i)
    BY <1>4
<1> QED BY <1>5 DEF IsScan

-----------------------------------------------------------------------------
(* FoldLeft goes through the sets 1 .. n by taking away their greatest element. *)

\* What FoldLeft is, over the sets of places in s.
IsIter(h, G, b, s) ==
    h = [d \in SUBSET DOMAIN s |-> IF d = {} THEN b ELSE G[<<h[d \ {Max(d)}], s[Max(d)]>>]]

LEMMA MaxIs ==
    ASSUME NEW d, d \subseteq Int, NEW m \in d, \A x \in d : x <= m
    PROVE  Max(d) = m
<1>1. \A y \in d : m >= y
    BY DEF Max
<1>2. \A x \in d : (\A y \in d : x >= y) => x = m
    OBVIOUS
<1> QED BY <1>1, <1>2 DEF Max

LEMMA MaxOf ==
    ASSUME NEW i \in Nat \ {0}
    PROVE  1 .. i # {} /\ Max(1 .. i) = i /\ (1 .. i) \ {Max(1 .. i)} = 1 .. i - 1
<1>1. i \in 1 .. i /\ 1 .. i \subseteq Int /\ \A x \in 1 .. i : x <= i
    OBVIOUS
<1>2. Max(1 .. i) = i
    BY <1>1, MaxIs
<1> QED BY <1>1, <1>2

\* What FoldLeft takes is an element of the sequence.
LEMMA IterTakes ==
    ASSUME NEW E, NEW s \in Seq(E), NEW d \in SUBSET DOMAIN s, d # {}
    PROVE  s[Max(d)] \in E /\ d \ {Max(d)} \in SUBSET DOMAIN s
<1>1. DOMAIN s = 1 .. Len(s) /\ Len(s) \in Nat
    OBVIOUS
<1>2. d \subseteq 0 .. Len(s) /\ d \subseteq Int
    BY <1>1
<1>3. PICK m \in d : \A x \in d : x <= m
    BY <1>1, <1>2, Greatest
<1>4. Max(d) = m
    BY <1>2, <1>3, MaxIs
<1> QED BY <1>4

LEMMA IterExists ==
    ASSUME NEW V, NEW E, NEW G \in [V \X E -> V], NEW b \in V, NEW s \in Seq(E)
    PROVE  \E h \in [SUBSET DOMAIN s -> V] : IsIter(h, G, b, s)
<1> DEFINE Sets(n) == SUBSET (1 .. n)
           Upto(n, h) == /\ h \in [Sets(n) -> V] /\ h[{}] = b
                         /\ \A d \in Sets(n) : d # {} => h[d] = G[<<h[d \ {Max(d)}], s[Max(d)]>>]
           T == {n \in Nat : \E h : Upto(n, h)}
<1>1. 0 \in T
    <2>1. Sets(0) = {{}}
        OBVIOUS
    <2>2. Upto(0, [d \in Sets(0) |-> b])
        BY <2>1
    <2> QED BY <2>2
<1>2. ASSUME NEW n \in 0 .. Len(s) - 1, n \in T PROVE n + 1 \in T
    <2>1. PICK h : Upto(n, h)
        BY <1>2
    <2>2. n \in Nat /\ n + 1 \in 1 .. Len(s) /\ s[n + 1] \in E
        OBVIOUS
    <2> DEFINE m == n + 1
               X(d) == G[<<h[d \ {m}], s[m]>>]
               k == [d \in Sets(m) |-> IF m \in d THEN X(d) ELSE h[d]]
    <2>3. \A d \in Sets(m) : d \ {m} \in Sets(n) /\ (m \notin d => d \in Sets(n))
        BY <2>2
    <2>4. \A d \in Sets(n) : h[d] \in V /\ d \in Sets(m) /\ m \notin d
        BY <2>1, <2>2
    <2>5. \A d \in Sets(m) : X(d) \in V
        BY <2>2, <2>3, <2>4
    <2>6. k \in [Sets(m) -> V]
        <3> HIDE DEF X
        <3>1. \A d \in Sets(m) : (IF m \in d THEN X(d) ELSE h[d]) \in V
            BY <2>3, <2>4, <2>5
        <3> HIDE DEF m
        <3> QED BY <3>1
    <2>7. k[{}] = b
        BY <2>1
    <2>8. ASSUME NEW d \in Sets(m), d # {} PROVE k[d] = G[<<k[d \ {Max(d)}], s[Max(d)]>>]
        <3>1. CASE m \in d
            <4>1. Max(d) = m
                <5>1. d \subseteq Int /\ \A x \in d : x <= m
                    BY <2>2
                <5> QED BY <3>1, <5>1, MaxIs
            <4>2. d \ {m} \in Sets(n) /\ d \ {m} \in Sets(m) /\ m \notin d \ {m}
                BY <2>3, <2>4
            <4>3. k[d \ {m}] = h[d \ {m}]
                BY <4>2
            <4>4. k[d] = X(d)
                BY <3>1
            <4> QED BY <4>1, <4>3, <4>4
        <3>2. CASE m \notin d
            <4>1. d \in Sets(n)
                BY <2>3, <3>2
            <4>2. d \ {Max(d)} \in Sets(n) /\ d \ {Max(d)} \in Sets(m)
                BY <2>4, <4>1
            <4>3. m \notin d \ {Max(d)}
                BY <3>2
            <4>4. k[d] = h[d] /\ k[d \ {Max(d)}] = h[d \ {Max(d)}]
                BY <3>2, <4>2, <4>3
            <4>5. h[d] = G[<<h[d \ {Max(d)}], s[Max(d)]>>]
                BY <2>1, <2>8, <4>1
            <4> QED BY <4>4, <4>5
        <3> QED BY <3>1, <3>2
    <2> HIDE DEF k
    <2>9. Upto(m, k)
        BY <2>6, <2>7, <2>8
    <2>10. n + 1 \in Nat
        BY <2>2
    <2> QED BY <2>9, <2>10
<1> HIDE DEF T
<1>3. Len(s) \in T
    <2>1. Len(s) \in Nat
        OBVIOUS
    <2>2. 0 .. Len(s) \subseteq T
        BY <1>1, <1>2, <2>1, InductionUpTo
    <2> QED BY <2>1, <2>2
<1>4. PICK h : Upto(Len(s), h)
    BY <1>3 DEF T
<1>5. DOMAIN s = 1 .. Len(s)
    OBVIOUS
<1>6. h = [d \in SUBSET DOMAIN s |-> IF d = {} THEN b ELSE G[<<h[d \ {Max(d)}], s[Max(d)]>>]]
    BY <1>4, <1>5
<1> QED BY <1>4, <1>5, <1>6 DEF IsIter

\* What FoldLeft does with f, however its operator is called.
Follows(f, V, E, G, b, s) ==
    /\ G \in [V \X E -> V] /\ b \in V /\ s \in Seq(E)
    /\ f[{}] = b
    /\ \A i \in 1 .. Len(s) : f[1 .. i - 1] \in V => f[1 .. i] = G[<<f[1 .. i - 1], s[i]>>]

\* On the sets 1 .. n it is the run from the left.
THEOREM IterRun ==
    ASSUME NEW V, NEW E, NEW G, NEW b, NEW s, NEW f, Follows(f, V, E, G, b, s)
    PROVE  f[1 .. Len(s)] = RunTo(G, b, s)
<1>0. G \in [V \X E -> V] /\ b \in V /\ s \in Seq(E)
    BY DEF Follows
<1>1. PICK p \in [0 .. Len(s) -> V] : IsRun(p, G, b, s)
    BY <1>0, RunExists
<1> DEFINE T == {n \in 0 .. Len(s) : f[1 .. n] = p[n]}
<1>2. 0 \in T
    BY <1>0, <1>1 DEF IsRun, Follows
<1>3. ASSUME NEW n \in 0 .. Len(s) - 1, n \in T PROVE n + 1 \in T
    <2>1. n + 1 \in 1 .. Len(s) /\ n + 1 - 1 = n /\ n \in 0 .. Len(s)
        BY <1>0
    <2>2. f[1 .. n] = p[n] /\ p[n] \in V
        BY <1>3, <2>1
    <2>3. f[1 .. n + 1] = G[<<p[n], s[n + 1]>>]
        BY <2>1, <2>2 DEF Follows
    <2>4. p[n + 1] = G[<<p[n], s[n + 1]>>]
        BY <1>1, <2>1 DEF IsRun
    <2> QED BY <2>1, <2>3, <2>4
<1> HIDE DEF T
<1>4. Len(s) \in T
    <2>1. Len(s) \in Nat
        BY <1>0
    <2>2. 0 .. Len(s) \subseteq T
        BY <1>2, <1>3, <2>1, InductionUpTo
    <2> QED BY <2>1, <2>2
<1>5. f[1 .. Len(s)] = RunTo(G, b, s)
    BY <1>0, <1>1, <1>4, RunIs DEF T
<1> QED BY <1>5

-----------------------------------------------------------------------------
(* FlattenSeq is a run that joins the sequences.                           *)

\* What it does when there is something to join.
LEMMA FlattenRun ==
    ASSUME NEW X, NEW ss \in Seq(X), ss # <<>>, NEW G \in [X \X X -> X], NEW b \in X,
           \A x \in X : G[<<b, x>>] = x,
           \A x, y \in X : G[<<x, y>>] = x \o y
    PROVE  FlattenSeq(ss) = RunTo(G, b, ss)
<1> DEFINE n == Len(ss)
           F(f) == f = [i \in 1 .. n |-> IF i = 1 THEN ss[i] ELSE f[i - 1] \o ss[i]]
           g == CHOOSE f : F(f)
<1>1. n \in Nat \ {0} /\ \A i \in 1 .. n : ss[i] \in X
    OBVIOUS
<1>2. PICK p \in [0 .. n -> X] : IsRun(p, G, b, ss)
    BY RunExists
<1>3. RunTo(G, b, ss) = p[n]
    BY <1>2, RunIs
<1>4. p[0] = b /\ \A i \in 1 .. n : p[i] = G[<<p[i - 1], ss[i]>>]
    BY <1>2 DEF IsRun
<1> HIDE DEF n
<1>5. ASSUME NEW i \in 1 .. n PROVE p[i] = IF i = 1 THEN ss[i] ELSE p[i - 1] \o ss[i]
    <2>1. i - 1 \in 0 .. n
        BY <1>1
    <2>2. p[i - 1] \in X /\ ss[i] \in X /\ p[i] = G[<<p[i - 1], ss[i]>>]
        BY <1>1, <1>2, <1>4, <2>1
    <2>3. CASE i = 1
        <3>1. p[i - 1] = b
            BY <1>4, <2>3
        <3> QED BY <2>2, <2>3, <3>1
    <2>4. i # 1 => p[i] = p[i - 1] \o ss[i]
        BY <2>2
    <2> QED BY <2>3, <2>4
<1>6. F([i \in 1 .. n |-> p[i]])
    <2> DEFINE q == [i \in 1 .. n |-> p[i]]
    <2>1. ASSUME NEW i \in 1 .. n
          PROVE  q[i] = IF i = 1 THEN ss[i] ELSE q[i - 1] \o ss[i]
        <3>1. CASE i = 1
            BY <1>5, <3>1
        <3>2. CASE i # 1
            <4>1. i - 1 \in 1 .. n
                BY <1>1, <3>2
            <4> QED BY <1>5, <3>2, <4>1
        <3> QED BY <3>1, <3>2
    <2> QED BY <2>1
<1>7. F(g)
    <2> HIDE DEF F
    <2>1. \E f : F(f)
        BY <1>6
    <2> QED BY <2>1
<1> HIDE DEF g
<1>8. \A i \in 1 .. n : g[i] = IF i = 1 THEN ss[i] ELSE g[i - 1] \o ss[i]
    BY <1>7
<1> HIDE DEF F
<1> DEFINE T == {m \in 0 .. n - 1 : g[m + 1] = p[m + 1]}
<1>9. 0 \in T
    <2>1. 1 \in 1 .. n
        BY <1>1
    <2> QED BY <1>1, <1>5, <1>8, <2>1
<1>10. ASSUME NEW m \in 0 .. (n - 1) - 1, m \in T PROVE m + 1 \in T
    <2>1. m + 2 \in 1 .. n /\ (m + 1) + 1 = m + 2 /\ (m + 2) - 1 = m + 1 /\ m + 2 # 1
        BY <1>1
    <2>2. g[m + 2] = g[m + 1] \o ss[m + 2]
        BY <1>8, <2>1
    <2>3. p[m + 2] = p[m + 1] \o ss[m + 2]
        BY <1>5, <2>1
    <2>4. g[m + 1] = p[m + 1] /\ m + 1 \in 0 .. n - 1
        BY <1>1, <1>10
    <2>5. g[(m + 1) + 1] = p[(m + 1) + 1]
        BY <2>1, <2>2, <2>3, <2>4
    <2> QED BY <2>4, <2>5
<1>11. n - 1 \in T
    <2> HIDE DEF T
    <2>1. n - 1 \in Nat
        BY <1>1
    <2>2. 0 .. n - 1 \subseteq T
        BY <1>9, <1>10, <2>1, InductionUpTo
    <2> QED BY <2>1, <2>2
<1>12. g[n] = p[n]
    <2>1. (n - 1) + 1 = n
        BY <1>1
    <2> QED BY <1>11, <2>1
<1>13. FlattenSeq(ss) = g[n]
    BY DEF FlattenSeq, g, F, n
<1> QED BY <1>3, <1>12, <1>13

Joining(S) == [x \in Seq(S) \X Seq(S) |-> x[1] \o x[2]]

\* FlattenSeq joins the sequences from the left.
LEMMA FlattenIs ==
    ASSUME NEW S, NEW ss \in Seq(Seq(S))
    PROVE  FlattenSeq(ss) = RunTo(Joining(S), <<>>, ss)
<1>1. Joining(S) \in [Seq(S) \X Seq(S) -> Seq(S)] /\ <<>> \in Seq(S)
    BY DEF Joining
<1>2. CASE ss = <<>>
    <2>1. Len(ss) = 0
        BY <1>2
    <2>2. FlattenSeq(ss) = <<>>
        BY <1>2, <2>1 DEF FlattenSeq
    <2> QED BY <1>1, <1>2, <2>2, RunEmpty
<1>3. CASE ss # <<>>
    <2>1. \A x \in Seq(S) : Joining(S)[<<<<>>, x>>] = x
        <3>1. \A x \in Seq(S) : <<>> \o x = x
            OBVIOUS
        <3> QED BY <1>1, <3>1 DEF Joining
    <2>2. \A x, y \in Seq(S) : Joining(S)[<<x, y>>] = x \o y
        BY DEF Joining
    <2> QED BY <1>1, <1>3, <2>1, <2>2, FlattenRun
<1> QED BY <1>2, <1>3
=============================================================================
