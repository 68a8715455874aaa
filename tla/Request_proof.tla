---------------------------- MODULE Request_proof ----------------------------
(***************************************************************************)
(* The Request object.  First what the strings of a request turn into, for   *)
(* strings of any length: urlDecode gives back what a client has escaped,    *)
(* whatever lies in memory beyond it, and fcgi_strtok_s finds the stretches  *)
(* between separators.  Then the object: its map and its iterator are those  *)
(* of the decoded string, and what a client has sent is there, for every     *)
(* list of fields, any bytes in them, and any order of the buckets.          *)
(***************************************************************************)
EXTENDS Request, Induction, FiniteSetTheorems, TLAPS

-----------------------------------------------------------------------------
(* Strings.                                                                *)

\* strchr finds the first c, if there is one.
LEMMA UntilIs ==
    ASSUME NEW S, NEW s \in Seq(S), NEW c
    PROVE  \E n \in 0 .. Len(s) :
              /\ Until(c, s) = SubSeq(s, 1, n) /\ Until(c, s) \in Seq(S)
              /\ Len(Until(c, s)) = n
              /\ \A i \in 1 .. n : s[i] # c
              /\ n < Len(s) => s[n + 1] = c
<1> DEFINE hits == {i \in DOMAIN s : s[i] = c}
<1>1. DOMAIN s = 1 .. Len(s) /\ Len(s) \in Nat
    OBVIOUS
<1>2. CASE hits = {}
    <2>1. Until(c, s) = s
        BY <1>2 DEF Until
    <2>2. \A i \in 1 .. Len(s) : s[i] # c
        BY <1>1, <1>2
    <2>3. s = SubSeq(s, 1, Len(s))
        OBVIOUS
    <2>4. Len(s) \in 0 .. Len(s) /\ s \in Seq(S)
        BY <1>1
    <2> DEFINE m == Len(s)
    <2>5. Until(c, s) = SubSeq(s, 1, m) /\ Until(c, s) \in Seq(S) /\ Len(Until(c, s)) = m
        BY <2>1, <2>3, <2>4
    <2>6. m \in 0 .. Len(s) /\ ~(m < Len(s))
        BY <2>4
    <2> HIDE DEF hits, m
    <2>7. \A i \in 1 .. m : s[i] # c
        BY <2>2 DEF m
    <2> QED BY <2>5, <2>6, <2>7
<1>3. CASE hits # {}
    <2>1. \E m \in hits : \A j \in hits : m <= j
        <3>1. hits \subseteq Nat
            BY <1>1
        <3> QED BY <1>3, <3>1, Least
    <2> DEFINE m == CHOOSE i \in hits : \A j \in hits : i <= j
    <2>2. m \in hits /\ \A j \in hits : m <= j
        BY <2>1
    <2>3. Until(c, s) = SubSeq(s, 1, m - 1)
        BY <1>3 DEF Until
    <2> HIDE DEF m
    <2>4. m \in 1 .. Len(s) /\ s[m] = c
        BY <1>1, <2>2
    <2>5. m - 1 \in 0 .. Len(s) /\ (m - 1) + 1 = m
        BY <1>1, <2>4
    <2>6. \A i \in 1 .. m - 1 : s[i] # c
        <3> SUFFICES ASSUME NEW i \in 1 .. m - 1, s[i] = c PROVE FALSE
            OBVIOUS
        <3>1. i \in hits
            BY <1>1, <2>4
        <3> QED BY <2>2, <2>4, <3>1
    <2>7. SubSeq(s, 1, m - 1) \in Seq(S) /\ Len(SubSeq(s, 1, m - 1)) = m - 1
        BY <2>4, <2>5
    <2> QED BY <2>3, <2>4, <2>5, <2>6, <2>7
<1> QED BY <1>2, <1>3

\* A place that has these properties is that place.
LEMMA UntilFirst ==
    ASSUME NEW S, NEW s \in Seq(S), NEW c, NEW n \in 0 .. Len(s),
           \A i \in 1 .. n : s[i] # c, n = Len(s) \/ s[n + 1] = c
    PROVE  Until(c, s) = SubSeq(s, 1, n) /\ Len(Until(c, s)) = n
<1>1. PICK m \in 0 .. Len(s) :
          /\ Until(c, s) = SubSeq(s, 1, m) /\ Len(Until(c, s)) = m
          /\ \A i \in 1 .. m : s[i] # c
          /\ m < Len(s) => s[m + 1] = c
    BY UntilIs
<1>2. m = n
    <2>0. Len(s) \in Nat
        OBVIOUS
    <2>1. CASE m < n
        BY <1>1, <2>0, <2>1
    <2>2. CASE n < m
        BY <1>1, <2>0, <2>2
    <2> QED BY <2>0, <2>1, <2>2
<1> QED BY <1>1, <1>2

LEMMA AfterIs ==
    ASSUME NEW S, NEW s \in Seq(S), NEW c
    PROVE  After(c, s) \in Seq(S)
<1>1. Len(Until(c, s)) \in Nat
    BY UntilIs
<1> QED BY <1>1 DEF After

-----------------------------------------------------------------------------
(* urlDecode.                                                              *)

\* urlDecode reads one byte of memory; the memory the model has ends with NULs.
MemAt(mem, i) == IF i <= Len(mem) THEN mem[i] ELSE NUL
\* The loop of urlDecode, from the place i on.
Decoding(mem, junk) ==
    CHOOSE d : d = [i \in 1 .. Len(mem) + 3 |->
        IF MemAt(mem, i) = NUL THEN <<>> ELSE
        IF MemAt(mem, i) = Percent
        THEN <<Unescape(MemAt(mem, i + 1), MemAt(mem, i + 2), junk)>> \o d[i + 3]
        ELSE <<MemAt(mem, i)>> \o d[i + 1]]

LEMMA UnescapeIs ==
    ASSUME NEW hi \in Byte, NEW lo \in Byte, NEW junk \in Byte
    PROVE  Unescape(hi, lo, junk) \in Byte
<1>1. Hex(hi) \in -1 .. 15 /\ Hex(lo) \in -1 .. 15
    BY DEF Hex, Byte
<1> QED BY <1>1 DEF Unescape, Byte

LEMMA MemAtIs ==
    ASSUME NEW mem \in Seq(Byte), NEW i \in Nat \ {0}
    PROVE  /\ MemAt(mem, i) \in Byte
           /\ MemAt(mem, i) # NUL => i <= Len(mem)
<1>1. CASE i <= Len(mem)
    <2>1. i \in 1 .. Len(mem)
        BY <1>1
    <2> QED BY <1>1, <2>1 DEF MemAt
<1>2. CASE ~(i <= Len(mem))
    BY <1>2 DEF MemAt, Byte, NUL
<1> QED BY <1>1, <1>2

\* It has an end at every place, and each round is one of the loop's.
LEMMA DecodingIs ==
    ASSUME NEW mem \in Seq(Byte), NEW junk \in Byte
    PROVE  /\ \A i \in 1 .. Len(mem) + 3 : Decoding(mem, junk)[i] \in Seq(Byte)
           /\ \A i \in 1 .. Len(mem) + 3 : MemAt(mem, i) = NUL => Decoding(mem, junk)[i] = <<>>
           /\ \A i \in 1 .. Len(mem) : MemAt(mem, i) # NUL => Decoding(mem, junk)[i] =
                 IF MemAt(mem, i) = Percent
                 THEN <<Unescape(MemAt(mem, i + 1), MemAt(mem, i + 2), junk)>> \o Decoding(mem, junk)[i + 3]
                 ELSE <<MemAt(mem, i)>> \o Decoding(mem, junk)[i + 1]
<1> DEFINE n       == Len(mem) + 3
           V       == Seq(Byte)
           stop    == {i \in 1 .. n : MemAt(mem, i) = NUL}
           next    == [i \in 1 .. n |-> IF MemAt(mem, i) = Percent THEN i + 3 ELSE i + 1]
           One(i)  == IF MemAt(mem, i) = Percent
                      THEN Unescape(MemAt(mem, i + 1), MemAt(mem, i + 2), junk) ELSE MemAt(mem, i)
           G       == [x \in (1 .. n) \X V |-> <<One(x[1])>> \o x[2]]
           Is(d)   == d = [i \in 1 .. Len(mem) + 3 |->
                         IF MemAt(mem, i) = NUL THEN <<>> ELSE
                         IF MemAt(mem, i) = Percent
                         THEN <<Unescape(MemAt(mem, i + 1), MemAt(mem, i + 2), junk)>> \o d[i + 3]
                         ELSE <<MemAt(mem, i)>> \o d[i + 1]]
           D       == Decoding(mem, junk)
<1>1. n \in Nat /\ Len(mem) \in Nat /\ <<>> \in V
    OBVIOUS
<1>2. \A i \in 1 .. n : One(i) \in Byte
    <2>1. ASSUME NEW i \in 1 .. n PROVE One(i) \in Byte
        <3>1. i \in Nat \ {0} /\ i + 1 \in Nat \ {0} /\ i + 2 \in Nat \ {0}
            OBVIOUS
        <3>2. MemAt(mem, i) \in Byte /\ MemAt(mem, i + 1) \in Byte /\ MemAt(mem, i + 2) \in Byte
            BY <3>1, MemAtIs
        <3> QED BY <3>2, UnescapeIs
    <2> QED BY <2>1
<1>3. \A i \in (1 .. n) \ stop : i <= Len(mem) /\ next[i] \in i + 1 .. n
    <2>1. ASSUME NEW i \in (1 .. n) \ stop PROVE i <= Len(mem) /\ next[i] \in i + 1 .. n
        <3>1. i \in Nat \ {0} /\ MemAt(mem, i) # NUL
            OBVIOUS
        <3>2. i <= Len(mem)
            BY <3>1, MemAtIs
        <3> QED BY <1>1, <3>2
    <2> QED BY <2>1
<1> HIDE DEF One
<1>4. G \in [(1 .. n) \X V -> V]
    <2>1. \A i \in 1 .. n, v \in V : <<One(i)>> \o v \in V
        BY <1>2
    <2> HIDE DEF V, n
    <2> QED BY <2>1
<1>5. PICK f \in [1 .. n -> V] : IsScan(f, n, stop, <<>>, next, G)
    <2> HIDE DEF stop, next, G, V, n
    <2> QED BY <1>1, <1>3, <1>4, ScanExists
<1>6. Is(f)
    <2>1. \A i \in 1 .. n : f[i] = IF i \in stop THEN <<>> ELSE G[<<i, f[next[i]]>>]
        <3> HIDE DEF stop, next, G, V, n
        <3> QED BY <1>5 DEF IsScan
    <2>2. ASSUME NEW i \in 1 .. n, MemAt(mem, i) # NUL
          PROVE  f[i] = <<One(i)>> \o f[IF MemAt(mem, i) = Percent THEN i + 3 ELSE i + 1]
        <3>1. i \notin stop
            BY <2>2
        <3>2. next[i] \in 1 .. n
            BY <1>3, <3>1
        <3>3. f[next[i]] \in V
            BY <3>2
        <3>4. G[<<i, f[next[i]]>>] = <<One(i)>> \o f[next[i]]
            BY <3>3
        <3>5. f[i] = <<One(i)>> \o f[next[i]]
            <4> HIDE DEF stop, next, G, V, n, One
            <4> QED BY <2>1, <3>1, <3>4
        <3> QED BY <3>5
    <2>3. \A i \in 1 .. n : MemAt(mem, i) = NUL => f[i] = <<>>
        BY <2>1
    <2>4. \A i \in 1 .. n : f[i] =
              IF MemAt(mem, i) = NUL THEN <<>> ELSE
              IF MemAt(mem, i) = Percent
              THEN <<Unescape(MemAt(mem, i + 1), MemAt(mem, i + 2), junk)>> \o f[i + 3]
              ELSE <<MemAt(mem, i)>> \o f[i + 1]
        BY <2>2, <2>3 DEF One
    <2>5. f = [i \in 1 .. n |-> f[i]]
        OBVIOUS
    <2> QED BY <2>4, <2>5
<1>7. Is(D)
    <2> HIDE DEF Is
    <2>1. D = CHOOSE d : Is(d)
        BY DEF Decoding, Is
    <2> HIDE DEF D
    <2> QED BY <1>6, <2>1
<1> HIDE DEF D
<1>8. \A i \in 1 .. n : D[i] =
          IF i \in stop THEN <<>> ELSE <<One(i)>> \o D[next[i]]
    BY <1>7 DEF One
<1>9. \A i \in 1 .. n : D[i] \in V
    <2> DEFINE T == {i \in 1 .. n : D[i] \in V}
    <2>1. ASSUME NEW i \in 1 .. n, \A j \in i + 1 .. n : j \in T PROVE i \in T
        <3>1. CASE i \in stop
            BY <1>1, <1>8, <3>1
        <3>2. CASE i \notin stop
            <4>1. next[i] \in i + 1 .. n
                BY <1>3, <3>2
            <4>2. D[next[i]] \in V
                BY <2>1, <4>1
            <4>3. D[i] = <<One(i)>> \o D[next[i]]
                BY <1>8, <3>2
            <4>4. One(i) \in Byte
                BY <1>2
            <4>5. <<One(i)>> \o D[next[i]] \in V
                BY <4>2, <4>4
            <4> QED BY <4>3, <4>5
        <3> QED BY <3>1, <3>2
    <2> HIDE DEF T
    <2>2. 1 .. n \subseteq T
        BY <1>1, <2>1, FromTheRight
    <2> QED BY <2>2 DEF T
<1>10. \A i \in 1 .. Len(mem) : i \in 1 .. n
    BY <1>1
<1> QED BY <1>7, <1>9, <1>10 DEF D

\* The decoded string up to the NUL, however long it is.
Dec(mem, junk) == Decoding(mem, junk)[1]

\* The buffer is never overrun, and nothing is cut off that is shorter.
LEMMA UrlDecodeIs ==
    ASSUME NEW mem \in Seq(Byte), NEW size \in Nat \ {0}, NEW junk \in Byte
    PROVE  /\ Dec(mem, junk) \in Seq(Byte)
           /\ UrlDecode(mem, size, junk) \in Seq(Byte)
           /\ Len(UrlDecode(mem, size, junk)) < size
           /\ Len(Dec(mem, junk)) < size => UrlDecode(mem, size, junk) = Dec(mem, junk)
<1> DEFINE d == Dec(mem, junk)
<1>1. UrlDecode(mem, size, junk) = IF Len(d) < size THEN d ELSE SubSeq(d, 1, size - 1)
    BY DEF UrlDecode, Dec, Decoding, MemAt
<1>2. d \in Seq(Byte)
    <2>1. 1 \in 1 .. Len(mem) + 3
        OBVIOUS
    <2> QED BY <2>1, DecodingIs DEF Dec
<1> HIDE DEF d
<1>3. CASE Len(d) < size
    BY <1>1, <1>2, <1>3 DEF d
<1>4. CASE ~(Len(d) < size)
    <2>1. size - 1 \in 0 .. Len(d)
        BY <1>2, <1>4
    <2>2. SubSeq(d, 1, size - 1) \in Seq(Byte) /\ Len(SubSeq(d, 1, size - 1)) = size - 1
        BY <1>2, <2>1
    <2> QED BY <1>1, <1>2, <1>4, <2>2 DEF d
<1> QED BY <1>3, <1>4

\* What comes before does not matter to the rest.
LEMMA DecodingShift ==
    ASSUME NEW s \in Seq(Byte), NEW y \in Seq(Byte), NEW junk \in Byte,
           NEW i \in 1 .. Len(y) + 3
    PROVE  Decoding(s \o y, junk)[Len(s) + i] = Decoding(y, junk)[i]
<1> DEFINE t == s \o y
           n == Len(y) + 3
           D == Decoding(t, junk)
           C == Decoding(y, junk)
           T == {k \in 1 .. n : D[Len(s) + k] = C[k]}
<1>1. t \in Seq(Byte) /\ Len(t) = Len(s) + Len(y) /\ Len(s) \in Nat /\ Len(y) \in Nat /\ n \in Nat
    OBVIOUS
<1>2. \A k \in Nat \ {0} : MemAt(t, Len(s) + k) = MemAt(y, k)
    <2>1. ASSUME NEW k \in Nat \ {0} PROVE MemAt(t, Len(s) + k) = MemAt(y, k)
        <3>1. CASE k <= Len(y)
            <4>1. k \in 1 .. Len(y) /\ Len(s) + k <= Len(t)
                BY <1>1, <3>1
            <4>2. t[Len(s) + k] = y[k]
                BY <4>1
            <4> QED BY <3>1, <4>1, <4>2 DEF MemAt
        <3>2. CASE ~(k <= Len(y))
            BY <1>1, <3>2 DEF MemAt
        <3> QED BY <3>1, <3>2
    <2> QED BY <2>1
<1> HIDE DEF t
<1>3. ASSUME NEW k \in 1 .. n, \A j \in k + 1 .. n : j \in T PROVE k \in T
    <2> DEFINE m == Len(s) + k
    <2>1. /\ m \in 1 .. Len(t) + 3 /\ k \in Nat \ {0} /\ k + 1 \in Nat \ {0} /\ k + 2 \in Nat \ {0}
          /\ m + 1 = Len(s) + (k + 1) /\ m + 2 = Len(s) + (k + 2) /\ m + 3 = Len(s) + (k + 3)
        BY <1>1
    <2>2. /\ MemAt(t, m) = MemAt(y, k) /\ MemAt(t, m + 1) = MemAt(y, k + 1)
          /\ MemAt(t, m + 2) = MemAt(y, k + 2)
        BY <1>2, <2>1
    <2>3. CASE MemAt(y, k) = NUL
        <3>1. D[m] = <<>> /\ C[k] = <<>>
            BY <1>1, <2>1, <2>2, <2>3, DecodingIs
        <3> QED BY <3>1
    <2>4. CASE MemAt(y, k) # NUL
        <3>1. k <= Len(y)
            BY <2>1, <2>4, MemAtIs
        <3>2. m \in 1 .. Len(t) /\ k \in 1 .. Len(y) /\ k + 1 \in k + 1 .. n /\ k + 3 \in k + 1 .. n
            BY <1>1, <2>1, <3>1
        <3>3. D[m + 1] = C[k + 1] /\ D[m + 3] = C[k + 3]
            BY <1>3, <2>1, <3>2
        <3>4. D[m] = IF MemAt(y, k) = Percent
                     THEN <<Unescape(MemAt(y, k + 1), MemAt(y, k + 2), junk)>> \o D[m + 3]
                     ELSE <<MemAt(y, k)>> \o D[m + 1]
            <4>1. MemAt(t, m) # NUL
                BY <2>2, <2>4
            <4>2. D[m] = IF MemAt(t, m) = Percent
                         THEN <<Unescape(MemAt(t, m + 1), MemAt(t, m + 2), junk)>> \o D[m + 3]
                         ELSE <<MemAt(t, m)>> \o D[m + 1]
                BY <1>1, <3>2, <4>1, DecodingIs
            <4> QED BY <2>2, <4>2
        <3>5. C[k] = IF MemAt(y, k) = Percent
                     THEN <<Unescape(MemAt(y, k + 1), MemAt(y, k + 2), junk)>> \o C[k + 3]
                     ELSE <<MemAt(y, k)>> \o C[k + 1]
            BY <2>4, <3>2, DecodingIs
        <3>6. D[m] = C[k]
            <4> HIDE DEF m, n, D, C, T
            <4> QED BY <3>3, <3>4, <3>5
        <3> QED BY <3>6
    <2> QED BY <2>3, <2>4
<1> HIDE DEF T
<1>4. i \in T
    <2>1. 1 .. n \subseteq T
        BY <1>1, <1>3, FromTheRight
    <2> QED BY <2>1
<1> QED BY <1>4 DEF T, t

-----------------------------------------------------------------------------
(* What a client encodes is what is decoded.                               *)

\* The bytes of a C string.
Text == Byte \ {NUL}

\* x is decoded to d, whatever comes after it.
DecodesTo(x, d) ==
    /\ x \in Seq(Text) /\ d \in Seq(Text) /\ Len(d) <= Len(x)
    /\ \A y \in Seq(Byte), j \in Byte : Dec(x \o y, j) = d \o Dec(y, j)

LEMMA DecodesNothing == DecodesTo(<<>>, <<>>)
<1>1. <<>> \in Seq(Text) /\ Len(<<>>) <= Len(<<>>)
    OBVIOUS
<1>2. ASSUME NEW y \in Seq(Byte), NEW j \in Byte PROVE Dec(<<>> \o y, j) = <<>> \o Dec(y, j)
    <2>1. Dec(y, j) \in Seq(Byte)
        BY UrlDecodeIs, 1 \in Nat \ {0}
    <2>2. <<>> \o y = y /\ <<>> \o Dec(y, j) = Dec(y, j)
        BY <2>1
    <2> QED BY <2>2
<1> QED BY <1>1, <1>2 DEF DecodesTo

\* What is put together is decoded piece by piece.
LEMMA DecodesJoin ==
    ASSUME NEW x, NEW d, NEW y, NEW e, DecodesTo(x, d), DecodesTo(y, e)
    PROVE  DecodesTo(x \o y, d \o e)
<1>1. x \in Seq(Text) /\ y \in Seq(Text) /\ d \in Seq(Text) /\ e \in Seq(Text)
    BY DEF DecodesTo
<1>2. x \o y \in Seq(Text) /\ d \o e \in Seq(Text) /\ Len(d \o e) <= Len(x \o y)
    BY <1>1 DEF DecodesTo
<1>3. Text \subseteq Byte
    BY DEF Text
<1>4. x \in Seq(Byte) /\ y \in Seq(Byte) /\ d \in Seq(Byte) /\ e \in Seq(Byte)
    BY <1>1, <1>3
<1>5. ASSUME NEW z \in Seq(Byte), NEW j \in Byte
      PROVE  Dec((x \o y) \o z, j) = (d \o e) \o Dec(z, j)
    <2>1. y \o z \in Seq(Byte) /\ Dec(z, j) \in Seq(Byte)
        BY <1>4, UrlDecodeIs, 1 \in Nat \ {0}
    <2>2. Dec(x \o (y \o z), j) = d \o Dec(y \o z, j) /\ Dec(y \o z, j) = e \o Dec(z, j)
        BY <2>1 DEF DecodesTo
    <2>3. (x \o y) \o z = x \o (y \o z)
        BY <1>4
    <2>4. (d \o e) \o Dec(z, j) = d \o (e \o Dec(z, j))
        BY <1>4, <2>1, SMTT(40)
    <2> QED BY <2>2, <2>3, <2>4
<1> QED BY <1>2, <1>5 DEF DecodesTo

\* The digits are found again.
LEMMA HexIs ==
    ASSUME NEW b \in Byte
    PROVE  /\ HexDigit(b \div 16) \in Text /\ HexDigit(b % 16) \in Text
           /\ \A j \in Byte : Unescape(HexDigit(b \div 16), HexDigit(b % 16), j) = b
<1> DEFINE h == b \div 16
           l == b % 16
<1>1. h \in 0 .. 15 /\ l \in 0 .. 15 /\ b = 16 * h + l
    BY DEF Byte
<1> HIDE DEF h, l
<1>2. \A n \in 0 .. 15 : HexDigit(n) \in Text /\ Hex(HexDigit(n)) = n
    BY DEF HexDigit, Hex, Text, Byte, NUL
<1>3. HexDigit(h) \in Text /\ HexDigit(l) \in Text /\ Hex(HexDigit(h)) = h /\ Hex(HexDigit(l)) = l
    BY <1>1, <1>2
<1>4. \A j \in Byte : Unescape(HexDigit(h), HexDigit(l), j) = 16 * h + l
    BY <1>1, <1>3 DEF Unescape
<1> QED BY <1>1, <1>3, <1>4 DEF h, l

\* So is one byte, escaped or not.
LEMMA DecodesOne ==
    ASSUME NEW b \in Text, NEW e \in Escapes(b)
    PROVE  DecodesTo(e, <<b>>) /\ e # <<>>
<1>1. b \in Byte /\ b # NUL /\ Percent \in Text
    BY DEF Text, Byte, Percent, NUL
<1>2. CASE e = <<b>> /\ b # Percent
    <2>1. e \in Seq(Text) /\ <<b>> \in Seq(Text) /\ Len(<<b>>) <= Len(e) /\ Len(e) = 1
        BY <1>2
    <2>2. ASSUME NEW y \in Seq(Byte), NEW j \in Byte PROVE Dec(e \o y, j) = <<b>> \o Dec(y, j)
        <3> DEFINE t == e \o y
        <3>1. e \in Seq(Byte) /\ t \in Seq(Byte) /\ Len(t) = Len(y) + 1 /\ t[1] = b
            BY <1>1, <1>2, <2>1
        <3>2. 1 \in 1 .. Len(t) /\ 1 \in 1 .. Len(y) + 3
            BY <3>1
        <3>3. Decoding(t, j)[1 + 1] = Decoding(y, j)[1]
            BY <2>1, <3>1, <3>2, DecodingShift
        <3> HIDE DEF t
        <3>4. MemAt(t, 1) = b
            BY <3>1, <3>2 DEF MemAt
        <3>5. MemAt(t, 1) # NUL /\ MemAt(t, 1) # Percent
            BY <1>1, <1>2, <3>4
        <3>6. Decoding(t, j)[1] = <<MemAt(t, 1)>> \o Decoding(t, j)[1 + 1]
            BY <3>1, <3>2, <3>5, DecodingIs
        <3>7. Decoding(t, j)[1] = <<b>> \o Decoding(y, j)[1]
            BY <3>3, <3>4, <3>6
        <3> QED BY <3>7 DEF Dec, t
    <2> QED BY <2>1, <2>2 DEF DecodesTo
<1>3. CASE e = <<Percent, HexDigit(b \div 16), HexDigit(b % 16)>>
    <2> DEFINE h == HexDigit(b \div 16)
               l == HexDigit(b % 16)
    <2>1. h \in Text /\ l \in Text /\ \A j \in Byte : Unescape(h, l, j) = b
        BY <1>1, HexIs
    <2> HIDE DEF h, l
    <2>2. /\ e = <<Percent, h, l>> /\ e \in Seq(Text) /\ <<b>> \in Seq(Text)
          /\ Len(<<b>>) <= Len(e) /\ Len(e) = 3
        <3>1. e = <<Percent, h, l>>
            BY <1>3 DEF h, l
        <3> QED BY <1>1, <2>1, <3>1
    <2>3. ASSUME NEW y \in Seq(Byte), NEW j \in Byte PROVE Dec(e \o y, j) = <<b>> \o Dec(y, j)
        <3> DEFINE t == e \o y
        <3>0. h \in Byte /\ l \in Byte /\ Percent \in Byte
            BY <1>1, <2>1 DEF Text
        <3>1. e \in Seq(Byte)
            BY <2>2, <3>0
        <3>2. t \in Seq(Byte) /\ Len(t) = Len(y) + 3 /\ t[1] = Percent /\ t[2] = h /\ t[3] = l
            BY <2>2, <3>0, <3>1
        <3>3. 1 \in 1 .. Len(t) /\ 1 \in 1 .. Len(y) + 3 /\ 1 <= Len(t) /\ 2 <= Len(t) /\ 3 <= Len(t)
            BY <3>2
        <3>4. Decoding(t, j)[3 + 1] = Decoding(y, j)[1]
            BY <2>2, <3>1, <3>3, DecodingShift
        <3> HIDE DEF t
        <3>5. MemAt(t, 1) = Percent /\ MemAt(t, 2) = h /\ MemAt(t, 3) = l
            BY <3>2, <3>3 DEF MemAt
        <3>6. 1 + 1 = 2 /\ 1 + 2 = 3 /\ 1 + 3 = 4 /\ 3 + 1 = 4
            OBVIOUS
        <3>7. Percent # NUL
            BY DEF Percent, NUL
        <3>8. Decoding(t, j)[1] = <<Unescape(MemAt(t, 2), MemAt(t, 3), j)>> \o Decoding(t, j)[4]
            BY <3>2, <3>3, <3>5, <3>6, <3>7, DecodingIs
        <3>9. Decoding(t, j)[1] = <<b>> \o Decoding(y, j)[1]
            BY <2>1, <3>4, <3>5, <3>6, <3>8
        <3> QED BY <3>9 DEF Dec, t
    <2> QED BY <2>2, <2>3 DEF DecodesTo
<1> QED BY <1>2, <1>3 DEF Escapes

\* A whole query string, with whatever lies behind it.
LEMMA DecodesQuery ==
    ASSUME NEW x, NEW d, DecodesTo(x, d), NEW beyond \in Seq(Byte), NEW junk \in Byte
    PROVE  Dec(x \o (<<NUL>> \o beyond), junk) = d
<1> DEFINE y == <<NUL>> \o beyond
<1>1. NUL \in Byte
    BY DEF NUL, Byte
<1>2. y \in Seq(Byte) /\ Len(y) = Len(beyond) + 1 /\ y[1] = NUL
    BY <1>1
<1> HIDE DEF y
<1>3. 1 \in 1 .. Len(y) + 3 /\ MemAt(y, 1) = NUL
    BY <1>2 DEF MemAt
<1>4. Dec(y, junk) = <<>>
    BY <1>2, <1>3, DecodingIs DEF Dec
<1>5. Dec(x \o y, junk) = d \o <<>> /\ d \in Seq(Text)
    BY <1>2, <1>4 DEF DecodesTo
<1>6. d \o <<>> = d
    BY <1>5
<1> QED BY <1>5, <1>6 DEF y

Strings == SUBSET Seq(Text)

LEMMA JoinsOf ==
    ASSUME NEW A, NEW B, NEW z \in Joins(A, B)
    PROVE  \E x \in A, y \in B : z = x \o y
<1>1. PICK p \in A \X B : z = p[1] \o p[2]
    BY DEF Joins
<1> QED BY <1>1

LEMMA JoinsType ==
    ASSUME NEW A \in Strings, NEW B \in Strings
    PROVE  Joins(A, B) \in Strings
<1>1. ASSUME NEW z \in Joins(A, B) PROVE z \in Seq(Text)
    <2>1. PICK x \in A, y \in B : z = x \o y
        BY JoinsOf
    <2>2. x \in Seq(Text) /\ y \in Seq(Text)
        BY DEF Strings
    <2> QED BY <2>1, <2>2
<1> QED BY <1>1 DEF Strings

\* What a client does for one byte.
EncodingsStep == [x \in Strings \X Text |-> Joins(x[1], Escapes(x[2]))]

LEMMA EncodingsRun ==
    ASSUME NEW text \in Seq(Text)
    PROVE  /\ EncodingsStep \in [Strings \X Text -> Strings]
           /\ Encodings(text) = RunTo(EncodingsStep, {<<>>}, text)
<1> DEFINE G     == EncodingsStep
           b     == {<<>>}
           Is(f) == f = [d \in SUBSET DOMAIN text |->
                       IF d = {} THEN b ELSE
                       Joins(f[d \ {Max(d)}], Escapes(text[Max(d)]))]
           f     == CHOOSE f : Is(f)
<1>1. b \in Strings
    BY <<>> \in Seq(Text) DEF Strings
<1>2. G \in [Strings \X Text -> Strings]
    <2>1. ASSUME NEW y \in Strings, NEW u \in Text PROVE Joins(y, Escapes(u)) \in Strings
        <3>1. Escapes(u) \in Strings
            BY DecodesOne DEF DecodesTo, Strings
        <3> QED BY <3>1, JoinsType
    <2> QED BY <2>1 DEF EncodingsStep
<1>3. \A p \in Strings, u \in Text : G[<<p, u>>] = Joins(p, Escapes(u))
    BY DEF EncodingsStep
<1> HIDE DEF G, b
<1>4. PICK h \in [SUBSET DOMAIN text -> Strings] : IsIter(h, G, b, text)
    BY <1>1, <1>2, IterExists
<1>5. Is(h)
    <2>1. ASSUME NEW d \in SUBSET DOMAIN text, d # {}
          PROVE  G[<<h[d \ {Max(d)}], text[Max(d)]>>] =
                     Joins(h[d \ {Max(d)}], Escapes(text[Max(d)]))
        BY <1>3, <1>4, <2>1, IterTakes
    <2> QED BY <1>4, <2>1 DEF IsIter
<1>6. Is(f)
    <2> HIDE DEF Is
    <2> QED BY <1>5
<1>7. Encodings(text) = f[DOMAIN text]
    BY DEF Encodings, FoldLeft, MapThenFoldSet, b
<1> HIDE DEF f
<1>8. f[DOMAIN text] = RunTo(G, b, text)
    <2>1. f[{}] = b
        BY <1>6
    <2>2. ASSUME NEW i \in 1 .. Len(text), f[1 .. i - 1] \in Strings
          PROVE  f[1 .. i] = G[<<f[1 .. i - 1], text[i]>>]
        <3>1. i \in Nat \ {0} /\ text[i] \in Text /\ 1 .. i \in SUBSET DOMAIN text
            OBVIOUS
        <3>2. 1 .. i # {} /\ Max(1 .. i) = i /\ (1 .. i) \ {Max(1 .. i)} = 1 .. i - 1
            BY <3>1, MaxOf
        <3>3. f[1 .. i] = Joins(f[1 .. i - 1], Escapes(text[i]))
            BY <1>6, <3>1, <3>2
        <3> QED BY <1>3, <2>2, <3>1, <3>3
    <2> HIDE DEF Is
    <2>3. Follows(f, Strings, Text, G, b, text)
        BY <1>1, <1>2, <2>1, <2>2 DEF Follows
    <2>5. f[1 .. Len(text)] = RunTo(G, b, text)
        BY <2>3, IterRun
    <2>4. DOMAIN text = 1 .. Len(text)
        OBVIOUS
    <2> QED BY <2>4, <2>5
<1> QED BY <1>2, <1>7, <1>8 DEF G, b

LEMMA FirstMore ==
    ASSUME NEW S, NEW s \in Seq(S), NEW n \in 0 .. Len(s) - 1
    PROVE  SubSeq(s, 1, n + 1) = SubSeq(s, 1, n) \o <<s[n + 1]>>
OBVIOUS

\* Whatever it escapes, the string is decoded to what it has meant.
LEMMA EncodingsText ==
    ASSUME NEW text \in Seq(Text), NEW e \in Encodings(text)
    PROVE  DecodesTo(e, text)
<1>1. PICK p \in [0 .. Len(text) -> Strings] : IsRun(p, EncodingsStep, {<<>>}, text)
    <2>1. {<<>>} \in Strings
        BY <<>> \in Seq(Text) DEF Strings
    <2> QED BY <2>1, EncodingsRun, RunExists
<1>2. e \in p[Len(text)]
    BY <1>1, EncodingsRun, RunIs
<1> DEFINE T == {n \in 0 .. Len(text) : \A x \in p[n] : DecodesTo(x, SubSeq(text, 1, n))}
<1>3. 0 \in T
    <2>1. p[0] = {<<>>} /\ SubSeq(text, 1, 0) = <<>> /\ 0 \in 0 .. Len(text)
        BY <1>1 DEF IsRun
    <2> QED BY <2>1, DecodesNothing
<1>4. ASSUME NEW n \in 0 .. Len(text) - 1, n \in T PROVE n + 1 \in T
    <2>1. n + 1 \in 1 .. Len(text) /\ (n + 1) - 1 = n /\ n + 1 \in 0 .. Len(text) /\ n \in 0 .. Len(text)
        OBVIOUS
    <2>2. p[n + 1] = EncodingsStep[<<p[n], text[n + 1]>>] /\ p[n] \in Strings /\ text[n + 1] \in Text
        BY <1>1, <2>1 DEF IsRun
    <2>3. p[n + 1] = Joins(p[n], Escapes(text[n + 1]))
        BY <2>2 DEF EncodingsStep
    <2>4. ASSUME NEW z \in p[n + 1] PROVE DecodesTo(z, SubSeq(text, 1, n + 1))
        <3> DEFINE A == p[n]
                   B == Escapes(text[n + 1])
        <3>0. z \in Joins(A, B)
            BY <2>3
        <3> HIDE DEF A, B
        <3>1. PICK x \in A, y \in B : z = x \o y
            BY <3>0, JoinsOf
        <3> USE DEF A, B
        <3>2. DecodesTo(x, SubSeq(text, 1, n)) /\ DecodesTo(y, <<text[n + 1]>>)
            BY <1>4, <2>2, DecodesOne
        <3>3. DecodesTo(z, SubSeq(text, 1, n) \o <<text[n + 1]>>)
            BY <3>1, <3>2, DecodesJoin
        <3> QED BY <3>3, FirstMore
    <2> QED BY <2>1, <2>4
<1> HIDE DEF T
<1>5. Len(text) \in T
    <2>1. Len(text) \in Nat
        OBVIOUS
    <2>2. 0 .. Len(text) \subseteq T
        BY <1>3, <1>4, <2>1, InductionUpTo
    <2> QED BY <2>1, <2>2
<1>6. SubSeq(text, 1, Len(text)) = text
    OBVIOUS
<1> QED BY <1>2, <1>5, <1>6 DEF T

\* A field as it is meant.
FieldText(f) == f.key \o (IF f.eq THEN <<Eq>> \o f.value ELSE <<>>)

\* Its text has no separator, and strchr splits it where the client joined it.
LEMMA SendableIs ==
    ASSUME NEW f \in Sendable
    PROVE  /\ f.key \in Seq(Text) /\ f.value \in Seq(Text) /\ FieldText(f) \in Seq(Text)
           /\ FieldText(f) # <<>>
           /\ \A i \in 1 .. Len(FieldText(f)) : FieldText(f)[i] # Amp
           /\ Until(Eq, FieldText(f)) = f.key /\ After(Eq, FieldText(f)) = f.value
<1> DEFINE K == Byte \ {NUL, Amp, Eq}
           V == Byte \ {NUL, Amp}
           k == f.key
           v == f.value
           t == FieldText(f)
<1>0. /\ K \subseteq Text /\ V \subseteq Text /\ Eq \in V /\ Amp # Eq /\ K \subseteq V
      /\ V \subseteq Text \ {Amp}
    BY DEF Text, Byte, NUL, Amp, Eq
<1>1. k \in Seq(K) /\ v \in Seq(V) /\ f.eq \in BOOLEAN /\ (f.eq \/ (k # <<>> /\ v = <<>>))
    BY DEF Sendable
<1>2. t = k \o (IF f.eq THEN <<Eq>> \o v ELSE <<>>)
    BY DEF FieldText
<1>3. \A i \in 1 .. Len(k) : k[i] # Eq
    BY <1>1
<1> HIDE DEF K, k, v, t
<1>4. k \in Seq(V) /\ k \in Seq(Text) /\ v \in Seq(Text)
    BY <1>0, <1>1
<1>5. t \in Seq(V) /\ t # <<>> /\ Len(k) \in 0 .. Len(t) /\ SubSeq(t, 1, Len(k)) = k
    <2>1. CASE f.eq
        <3>1. t = k \o (<<Eq>> \o v)
            BY <1>2, <2>1
        <3> DEFINE u == <<Eq>> \o v
        <3>2. u \in Seq(V) /\ Len(u) = Len(v) + 1
            BY <1>0, <1>1
        <3> HIDE DEF u, V
        <3>3. t = k \o u
            BY <3>1 DEF u
        <3>4. t \in Seq(V) /\ Len(t) = Len(k) + Len(u) /\ Len(k) \in Nat /\ Len(v) \in Nat
            <4>1. Len(v) \in Nat
                BY <1>1
            <4>2. k \o u \in Seq(V) /\ Len(k \o u) = Len(k) + Len(u) /\ Len(k) \in Nat
                BY <1>4, <3>2
            <4> QED BY <3>3, <4>1, <4>2
        <3>5. SubSeq(t, 1, Len(k)) = k
            BY <1>4, <3>2, <3>3
        <3> QED BY <3>2, <3>4, <3>5
    <2>2. CASE ~f.eq
        <3>1. t = k \o <<>>
            BY <1>2, <2>2
        <3>2. t = k
            BY <1>4, <3>1
        <3>3. SubSeq(k, 1, Len(k)) = k
            BY <1>4
        <3>4. Len(k) \in 0 .. Len(k)
            BY <1>4
        <3> HIDE DEF V
        <3> QED BY <1>1, <1>4, <2>2, <3>2, <3>3, <3>4
    <2> QED BY <1>1, <2>1, <2>2
<1>6. t \in Seq(Text) /\ \A i \in 1 .. Len(t) : t[i] # Amp
    <2>1. \A i \in 1 .. Len(t) : t[i] \in V
        BY <1>5
    <2>2. \A i \in 1 .. Len(t) : t[i] # Amp
        BY <1>0, <2>1
    <2> HIDE DEF V
    <2> QED BY <1>0, <1>5, <2>2
<1>7. \A i \in 1 .. Len(k) : t[i] # Eq
    <2>1. \A i \in 1 .. Len(k) : t[i] = SubSeq(t, 1, Len(k))[i]
        BY <1>5
    <2> QED BY <1>3, <1>5, <2>1
<1>8. Until(Eq, t) = k /\ After(Eq, t) = v
    <2>1. CASE f.eq
        <3>1. Len(t) = Len(k) + 1 + Len(v) /\ t[Len(k) + 1] = Eq /\ SubSeq(t, Len(k) + 2, Len(t)) = v
            <4>1. t = k \o (<<Eq>> \o v)
                BY <1>2, <2>1
            <4>2. Eq \in Text
                BY <1>0
            <4>3. Len(t) = Len(k) + 1 + Len(v) /\ Len(k) \in Nat /\ Len(v) \in Nat
                BY <1>4, <4>1, <4>2
            <4>4. t[Len(k) + 1] = Eq
                BY <1>4, <4>1, <4>2, <4>3
            <4>5. \A i \in 1 .. Len(v) : t[Len(k) + 1 + i] = v[i]
                BY <1>4, <4>1, <4>2, <4>3
            <4> DEFINE r == SubSeq(t, Len(k) + 2, Len(t))
            <4>6. r \in Seq(Text) /\ Len(r) = Len(v) /\ \A i \in 1 .. Len(v) : r[i] = t[Len(k) + 1 + i]
                BY <1>6, <4>3
            <4> HIDE DEF r
            <4>7. r = v
                BY <1>4, <4>5, <4>6
            <4> QED BY <4>3, <4>4, <4>7 DEF r
        <3>2. Until(Eq, t) = SubSeq(t, 1, Len(k)) /\ Len(Until(Eq, t)) = Len(k)
            <4> HIDE DEF V
            <4>1. Len(k) \in 0 .. Len(t) /\ t \in Seq(Text)
                BY <1>5, <1>6
            <4> DEFINE n == Len(k)
            <4>2. n \in 0 .. Len(t) /\ (\A i \in 1 .. n : t[i] # Eq) /\ t[n + 1] = Eq
                BY <1>7, <3>1, <4>1
            <4> HIDE DEF n
            <4>3. Until(Eq, t) = SubSeq(t, 1, n) /\ Len(Until(Eq, t)) = n
                BY <4>1, <4>2, UntilFirst
            <4> QED BY <4>3 DEF n
        <3> QED BY <1>5, <3>1, <3>2 DEF After
    <2>2. CASE ~f.eq
        <3>1. t = k \o <<>> /\ v = <<>>
            BY <1>1, <1>2, <2>2
        <3>2. t = k
            BY <1>4, <3>1
        <3>3. Until(Eq, t) = SubSeq(t, 1, Len(k)) /\ Len(Until(Eq, t)) = Len(k)
            BY <1>5, <1>6, <1>7, <3>2, UntilFirst
        <3>4. SubSeq(k, Len(k) + 2, Len(k)) = <<>>
            BY <1>4
        <3> QED BY <1>5, <3>1, <3>2, <3>3, <3>4 DEF After
    <2> QED BY <1>1, <2>1, <2>2
<1> QED BY <1>4, <1>5, <1>6, <1>8 DEF t, k, v

\* What a client makes of one field.
LEMMA FieldDecodes ==
    ASSUME NEW f \in Sendable
    PROVE  /\ FieldStrings(f) \in Strings
           /\ \A e \in FieldStrings(f) : DecodesTo(e, FieldText(f))
<1>1. f.key \in Seq(Text) /\ f.value \in Seq(Text) /\ Eq \in Text /\ Eq # Percent
    BY SendableIs DEF Text, Byte, Eq, NUL, Percent
<1>2. DecodesTo(<<Eq>>, <<Eq>>)
    <2>1. <<Eq>> \in Escapes(Eq)
        BY <1>1 DEF Escapes
    <2> QED BY <1>1, <2>1, DecodesOne
<1>3. ASSUME NEW e \in FieldStrings(f) PROVE DecodesTo(e, FieldText(f))
    <2> DEFINE B == IF f.eq THEN Joins({<<Eq>>}, Encodings(f.value)) ELSE {<<>>}
               r == IF f.eq THEN <<Eq>> \o f.value ELSE <<>>
    <2>0. e \in Joins(Encodings(f.key), B)
        BY DEF FieldStrings
    <2>1. PICK x \in Encodings(f.key), y \in B : e = x \o y
        BY <2>0, JoinsOf
    <2>2. DecodesTo(x, f.key)
        BY <1>1, EncodingsText
    <2>3. DecodesTo(y, r)
        <3>1. CASE f.eq
            <4> DEFINE A == {<<Eq>>}
                       C == Encodings(f.value)
            <4>0. y \in Joins(A, C)
                BY <3>1
            <4> HIDE DEF A, C
            <4>1. PICK x1 \in A, z \in C : y = x1 \o z
                BY <4>0, JoinsOf
            <4> USE DEF A, C
            <4>2. DecodesTo(z, f.value)
                BY <1>1, EncodingsText
            <4> QED BY <1>2, <3>1, <4>1, <4>2, DecodesJoin
        <3>2. CASE ~f.eq
            BY <3>2, DecodesNothing
        <3> QED BY <3>1, <3>2
    <2> HIDE DEF B, r
    <2>4. DecodesTo(e, f.key \o r)
        BY <2>1, <2>2, <2>3, DecodesJoin
    <2> QED BY <2>4 DEF FieldText, r
<1>4. FieldStrings(f) \in Strings
    BY <1>3 DEF Strings, DecodesTo
<1> QED BY <1>3, <1>4

\* With an "&" to what was there before.
Separated(A) == IF A = {<<>>} THEN A ELSE Joins(A, {<<Amp>>})
QueryStep == [x \in Strings \X Sendable |-> Joins(Separated(x[1]), FieldStrings(x[2]))]

\* A client goes through its fields from the left.
LEMMA QueryRun ==
    ASSUME NEW fields \in Seq(Sendable)
    PROVE  /\ QueryStep \in [Strings \X Sendable -> Strings]
           /\ QueryStrings(fields) = RunTo(QueryStep, {<<>>}, fields)
<1> DEFINE G     == QueryStep
           b     == {<<>>}
           Is(f) == f = [d \in SUBSET DOMAIN fields |->
                       IF d = {} THEN b ELSE
                       Joins(IF f[d \ {Max(d)}] = {<<>>} THEN f[d \ {Max(d)}]
                             ELSE Joins(f[d \ {Max(d)}], {<<Amp>>}),
                             FieldStrings(fields[Max(d)]))]
           f     == CHOOSE f : Is(f)
<1>1. b \in Strings
    BY <<>> \in Seq(Text) DEF Strings
<1>2. G \in [Strings \X Sendable -> Strings]
    <2>1. ASSUME NEW y \in Strings, NEW u \in Sendable
          PROVE  Joins(Separated(y), FieldStrings(u)) \in Strings
        <3>1. Amp \in Text
            BY DEF Amp, Text, Byte, NUL
        <3>2. {<<Amp>>} \in Strings
            BY <3>1 DEF Strings
        <3>3. Separated(y) \in Strings
            <4> DEFINE a == {<<Amp>>}
            <4> HIDE DEF a
            <4>1. Joins(y, a) \in Strings
                BY <3>2, JoinsType DEF a
            <4> QED BY <4>1 DEF Separated, a
        <3>4. FieldStrings(u) \in Strings
            BY FieldDecodes
        <3> QED BY <3>3, <3>4, JoinsType
    <2> QED BY <2>1 DEF QueryStep
<1>3. \A p \in Strings, u \in Sendable : G[<<p, u>>] = Joins(Separated(p), FieldStrings(u))
    BY DEF QueryStep
<1> HIDE DEF G, b
<1>4. PICK h \in [SUBSET DOMAIN fields -> Strings] : IsIter(h, G, b, fields)
    BY <1>1, <1>2, IterExists
<1>5. Is(h)
    <2>1. ASSUME NEW d \in SUBSET DOMAIN fields, d # {}
          PROVE  G[<<h[d \ {Max(d)}], fields[Max(d)]>>] =
                     Joins(Separated(h[d \ {Max(d)}]), FieldStrings(fields[Max(d)]))
        BY <1>3, <1>4, <2>1, IterTakes
    <2> QED BY <1>4, <2>1 DEF IsIter, Separated
<1>6. Is(f)
    <2> HIDE DEF Is
    <2> QED BY <1>5
<1>7. QueryStrings(fields) = f[DOMAIN fields]
    BY DEF QueryStrings, FoldLeft, MapThenFoldSet, b
<1> HIDE DEF f
<1>8. f[DOMAIN fields] = RunTo(G, b, fields)
    <2>1. f[{}] = b
        BY <1>6
    <2>2. ASSUME NEW i \in 1 .. Len(fields), f[1 .. i - 1] \in Strings
          PROVE  f[1 .. i] = G[<<f[1 .. i - 1], fields[i]>>]
        <3>1. i \in Nat \ {0} /\ fields[i] \in Sendable /\ 1 .. i \in SUBSET DOMAIN fields
            OBVIOUS
        <3>2. 1 .. i # {} /\ Max(1 .. i) = i /\ (1 .. i) \ {Max(1 .. i)} = 1 .. i - 1
            BY <3>1, MaxOf
        <3>3. f[1 .. i] = Joins(Separated(f[1 .. i - 1]), FieldStrings(fields[i]))
            BY <1>6, <3>1, <3>2 DEF Separated
        <3> QED BY <1>3, <2>2, <3>1, <3>3
    <2> HIDE DEF Is
    <2>3. Follows(f, Strings, Sendable, G, b, fields)
        BY <1>1, <1>2, <2>1, <2>2 DEF Follows
    <2>4. f[1 .. Len(fields)] = RunTo(G, b, fields)
        BY <2>3, IterRun
    <2>5. DOMAIN fields = 1 .. Len(fields)
        OBVIOUS
    <2> QED BY <2>4, <2>5
<1> QED BY <1>2, <1>7, <1>8 DEF G, b

-----------------------------------------------------------------------------
(* Where the fields are in a decoded query string.                         *)

\* The places i to j of s are a longest stretch without a separator.
IsStretch(s, i, j) ==
    /\ i \in 1 .. Len(s) /\ j \in i .. Len(s) /\ \A n \in i .. j : s[n] # Amp
    /\ i = 1 \/ s[i - 1] = Amp
    /\ j = Len(s) \/ s[j + 1] = Amp

\* Stretches, of which ParamsMatchQuery speaks, are these.
LEMMA StretchesAre ==
    ASSUME NEW s \in Seq(Text)
    PROVE  \A x : x \in Stretches(s) <=>
                    /\ x \in Nat \X Nat /\ x = <<x[1], x[2]>> /\ IsStretch(s, x[1], x[2])
<1>1. DOMAIN s = 1 .. Len(s) /\ Len(s) \in Nat
    OBVIOUS
<1> DEFINE n == Len(s)
<1>2. ASSUME NEW x PROVE x \in (1 .. n) \X (1 .. n) /\ x[1] <= x[2] <=>
          x \in Nat \X Nat /\ x = <<x[1], x[2]>> /\ x[1] \in 1 .. n /\ x[2] \in x[1] .. n
    BY <1>1
<1> HIDE DEF n
<1> QED BY <1>1, <1>2 DEF Stretches, IsStretch, n

\* A text without a separator is one stretch,
LEMMA StretchOne ==
    ASSUME NEW t \in Seq(Text), t # <<>>, \A i \in 1 .. Len(t) : t[i] # Amp
    PROVE  \A i, j : IsStretch(t, i, j) <=> i = 1 /\ j = Len(t)
<1>1. Len(t) \in Nat \ {0}
    OBVIOUS
<1>2. ASSUME NEW i, NEW j, IsStretch(t, i, j) PROVE i = 1 /\ j = Len(t)
    <2>1. i \in 1 .. Len(t) /\ j \in i .. Len(t)
        BY <1>2 DEF IsStretch
    <2>2. i # 1 => i - 1 \in 1 .. Len(t)
        BY <2>1
    <2>3. j # Len(t) => j + 1 \in 1 .. Len(t)
        BY <2>1
    <2> QED BY <1>2, <2>2, <2>3 DEF IsStretch
<1>3. IsStretch(t, 1, Len(t))
    BY <1>1 DEF IsStretch
<1> QED BY <1>2, <1>3

\* t comes after d, and an "&" between them.
Extends(s, d, t) ==
    /\ d \in Seq(Text) /\ d # <<>>
    /\ t \in Seq(Text) /\ t # <<>> /\ \A i \in 1 .. Len(t) : t[i] # Amp
    /\ s = d \o (<<Amp>> \o t)

\* and t adds one to those of d.
LEMMA StretchJoin ==
    ASSUME NEW s, NEW d, NEW t, Extends(s, d, t)
    PROVE  /\ \A i, j : IsStretch(s, i, j) <=>
                 IsStretch(d, i, j) \/ (i = Len(d) + 2 /\ j = Len(s))
           /\ \A i, j : IsStretch(d, i, j) => SubSeq(s, i, j) = SubSeq(d, i, j)
           /\ SubSeq(s, Len(d) + 2, Len(s)) = t
           /\ s \in Seq(Text) /\ Len(s) = Len(d) + 1 + Len(t)
<1>0. /\ d \in Seq(Text) /\ d # <<>> /\ t \in Seq(Text) /\ t # <<>>
      /\ \A i \in 1 .. Len(t) : t[i] # Amp
      /\ s = d \o (<<Amp>> \o t)
    BY DEF Extends
<1>1. Len(t) \in Nat \ {0} /\ Len(d) \in Nat \ {0} /\ Amp \in Text
    BY <1>0 DEF Amp, Text, Byte, NUL
<1>2. /\ s \in Seq(Text) /\ Len(s) = Len(d) + 1 + Len(t)
      /\ \A i \in 1 .. Len(d) : s[i] = d[i]
      /\ s[Len(d) + 1] = Amp
      /\ \A i \in 1 .. Len(t) : s[Len(d) + 1 + i] = t[i]
    BY <1>0, <1>1
<1>3. ASSUME NEW i, NEW j, IsStretch(s, i, j)
      PROVE  IsStretch(d, i, j) \/ (i = Len(d) + 2 /\ j = Len(s))
    <2>1. i \in 1 .. Len(s) /\ j \in i .. Len(s)
        BY <1>3 DEF IsStretch
    <2>2. i # Len(d) + 1 /\ ~(i <= Len(d) + 1 /\ Len(d) + 1 <= j)
        BY <1>1, <1>2, <1>3, <2>1 DEF IsStretch
    <2>3. CASE j <= Len(d)
        <3>1. i \in 1 .. Len(d) /\ j \in i .. Len(d)
            BY <1>1, <2>1, <2>3
        <3>2. \A n \in i .. j : d[n] # Amp
            <4>1. \A n \in i .. j : n \in 1 .. Len(d)
                BY <3>1
            <4> QED BY <1>2, <1>3, <4>1 DEF IsStretch
        <3>3. i = 1 \/ d[i - 1] = Amp
            <4>1. i # 1 => i - 1 \in 1 .. Len(d)
                BY <3>1
            <4> QED BY <1>2, <1>3, <4>1 DEF IsStretch
        <3>4. j = Len(d) \/ d[j + 1] = Amp
            <4>1. j # Len(d) => j + 1 \in 1 .. Len(d) /\ j # Len(s)
                BY <1>1, <1>2, <3>1
            <4> QED BY <1>2, <1>3, <4>1 DEF IsStretch
        <3> QED BY <3>1, <3>2, <3>3, <3>4 DEF IsStretch
    <2>4. CASE ~(j <= Len(d))
        <3>1. i > Len(d) + 1 /\ i \in Nat /\ j \in Nat /\ i <= j /\ j <= Len(s)
            BY <1>1, <2>1, <2>2, <2>4
        <3>2. i = Len(d) + 2
            <4> SUFFICES ASSUME i # Len(d) + 2 PROVE FALSE
                OBVIOUS
            <4> DEFINE k == i - 1 - (Len(d) + 1)
            <4>1. k \in 1 .. Len(t) /\ i - 1 = Len(d) + 1 + k /\ i # 1
                BY <1>1, <1>2, <3>1
            <4>2. s[i - 1] = t[k] /\ s[i - 1] = Amp
                BY <1>2, <1>3, <4>1 DEF IsStretch
            <4> QED BY <1>0, <4>1, <4>2
        <3>3. j = Len(s)
            <4> SUFFICES ASSUME j # Len(s) PROVE FALSE
                OBVIOUS
            <4> DEFINE k == j + 1 - (Len(d) + 1)
            <4>5. Len(s) \in Nat
                BY <1>1, <1>2
            <4> DEFINE l == Len(s)
            <4>6. l \in Nat /\ j \in Nat /\ j <= l /\ j # l
                BY <3>1, <4>5
            <4>7. j < l
                <5> HIDE DEF l
                <5> QED BY <4>6
            <4>2. j \in Nat /\ j < Len(s) /\ Len(s) \in Nat
                BY <4>6, <4>7
            <4>3. Len(d) + 1 < j
                BY <1>1, <3>1
            <4>0. j \in Int /\ j < Len(d) + 1 + Len(t) /\ Len(d) + 1 < j
                BY <1>2, <4>2, <4>3
            <4>1. k \in 1 .. Len(t) /\ j + 1 = Len(d) + 1 + k
                BY <1>1, <4>0
            <4>4. s[j + 1] = t[k] /\ s[j + 1] = Amp
                BY <1>2, <1>3, <4>1 DEF IsStretch
            <4> QED BY <1>0, <4>1, <4>4
        <3> QED BY <3>2, <3>3
    <2> QED BY <2>3, <2>4
<1>4. ASSUME NEW i, NEW j, IsStretch(d, i, j)
      PROVE  IsStretch(s, i, j) /\ SubSeq(s, i, j) = SubSeq(d, i, j)
    <2>1. i \in 1 .. Len(d) /\ j \in i .. Len(d)
        BY <1>4 DEF IsStretch
    <2>2. i \in 1 .. Len(s) /\ j \in i .. Len(s) /\ \A n \in i .. j : n \in 1 .. Len(d)
        BY <1>1, <1>2, <2>1
    <2>3. \A n \in i .. j : s[n] = d[n] /\ s[n] # Amp
        BY <1>2, <1>4, <2>2 DEF IsStretch
    <2>4. i = 1 \/ s[i - 1] = Amp
        <3>1. i # 1 => i - 1 \in 1 .. Len(d)
            BY <2>1
        <3> QED BY <1>2, <1>4, <3>1 DEF IsStretch
    <2>5. s[j + 1] = Amp
        <3>1. j # Len(d) => j + 1 \in 1 .. Len(d)
            BY <2>1
        <3> QED BY <1>2, <1>4, <3>1 DEF IsStretch
    <2>6. SubSeq(s, i, j) = SubSeq(d, i, j)
        <3> DEFINE x == SubSeq(s, i, j)
                   y == SubSeq(d, i, j)
        <3>1. x \in Seq(Text) /\ y \in Seq(Text) /\ Len(x) = j - i + 1 /\ Len(y) = j - i + 1
            BY <1>0, <1>2, <2>1, <2>2
        <3>2. \A n \in 1 .. j - i + 1 : x[n] = s[i + n - 1] /\ y[n] = d[i + n - 1] /\ i + n - 1 \in i .. j
            BY <1>0, <1>2, <2>1, <2>2
        <3>3. \A n \in 1 .. j - i + 1 : x[n] = y[n]
            BY <2>3, <3>2
        <3>4. j - i + 1 \in Nat
            BY <2>1
        <3> HIDE DEF x, y
        <3>5. x = y
            BY <3>1, <3>3, <3>4
        <3> QED BY <3>5 DEF x, y
    <2> QED BY <2>2, <2>3, <2>4, <2>5, <2>6 DEF IsStretch
<1>5. IsStretch(s, Len(d) + 2, Len(s))
    <2> DEFINE i == Len(d) + 2
    <2>1. i \in 1 .. Len(s) /\ Len(s) \in i .. Len(s) /\ i - 1 = Len(d) + 1
        BY <1>1, <1>2
    <2>2. ASSUME NEW n \in i .. Len(s) PROVE s[n] # Amp
        <3> DEFINE k == n - (Len(d) + 1)
        <3>1. k \in 1 .. Len(t) /\ n = Len(d) + 1 + k
            BY <1>1, <1>2
        <3> QED BY <1>0, <1>2, <3>1
    <2> QED BY <1>2, <2>1, <2>2 DEF IsStretch
<1>6. SubSeq(s, Len(d) + 2, Len(s)) = t
    <2> DEFINE r == SubSeq(s, Len(d) + 2, Len(s))
    <2>1. r \in Seq(Text) /\ Len(r) = Len(t)
        BY <1>1, <1>2
    <2>2. \A i \in 1 .. Len(t) : r[i] = s[Len(d) + 1 + i]
        BY <1>1, <1>2
    <2> HIDE DEF r
    <2>3. \A i \in 1 .. Len(t) : r[i] = t[i]
        BY <1>2, <2>2
    <2>4. r = t
        BY <1>0, <2>1, <2>3, SeqEqual
    <2> QED BY <2>4 DEF r
<1> QED BY <1>2, <1>3, <1>4, <1>5, <1>6

\* a says where in d the first n fields are, in their order, and there is nothing else.
Layout(d, fields, n, a) ==
    /\ a \in [1 .. n -> Nat \X Nat]
    /\ \A i \in 1 .. n : /\ IsStretch(d, a[i][1], a[i][2])
                         /\ SubSeq(d, a[i][1], a[i][2]) = FieldText(fields[i])
    /\ \A i, j \in 1 .. n : i < j => a[i][1] < a[j][1]
    /\ \A i, j : IsStretch(d, i, j) => \E k \in 1 .. n : a[k][1] = i /\ a[k][2] = j

LEMMA LayoutOne ==
    ASSUME NEW fields, NEW f \in Sendable, fields[1] = f
    PROVE  \E a : Layout(FieldText(f), fields, 1, a)
<1> DEFINE t == FieldText(f)
           e == <<1, Len(t)>>
           a == [i \in 1 .. 1 |-> e]
<1>1. t \in Seq(Text) /\ t # <<>> /\ \A i \in 1 .. Len(t) : t[i] # Amp
    BY SendableIs
<1> HIDE DEF t
<1>2. \A i, j : IsStretch(t, i, j) <=> i = 1 /\ j = Len(t)
    BY <1>1, StretchOne
<1>3. SubSeq(t, 1, Len(t)) = t /\ Len(t) \in Nat
    BY <1>1
<1>4. e \in Nat \X Nat /\ e[1] = 1 /\ e[2] = Len(t)
    BY <1>3
<1> HIDE DEF e
<1>5. a \in [1 .. 1 -> Nat \X Nat] /\ a[1] = e /\ \A i \in 1 .. 1 : i = 1
    BY <1>4
<1> HIDE DEF a
<1>6. Layout(t, fields, 1, a)
    BY <1>2, <1>3, <1>4, <1>5 DEF Layout, t
<1> QED BY <1>6 DEF t

\* One field more is one stretch more, after the others.
LEMMA LayoutNext ==
    ASSUME NEW fields, NEW f \in Sendable, NEW n \in Nat \ {0}, fields[n + 1] = f,
           NEW d \in Seq(Text), d # <<>>, NEW a, Layout(d, fields, n, a)
    PROVE  \E h : Layout(d \o (<<Amp>> \o FieldText(f)), fields, n + 1, h)
<1> DEFINE t == FieldText(f)
           s == d \o (<<Amp>> \o t)
           e == <<Len(d) + 2, Len(s)>>
           h == [i \in 1 .. n + 1 |-> IF i <= n THEN a[i] ELSE e]
<1>1. t \in Seq(Text) /\ t # <<>> /\ \A i \in 1 .. Len(t) : t[i] # Amp
    BY SendableIs
<1>2. /\ \A i, j : IsStretch(s, i, j) <=> IsStretch(d, i, j) \/ (i = Len(d) + 2 /\ j = Len(s))
      /\ \A i, j : IsStretch(d, i, j) => SubSeq(s, i, j) = SubSeq(d, i, j)
      /\ SubSeq(s, Len(d) + 2, Len(s)) = t
      /\ s \in Seq(Text) /\ Len(s) = Len(d) + 1 + Len(t)
    <2>1. s = d \o (<<Amp>> \o t)
        OBVIOUS
    <2> HIDE DEF s, t
    <2>2. Extends(s, d, t)
        BY <1>1, <2>1 DEF Extends
    <2> HIDE DEF e, h
    <2> QED BY <2>2, StretchJoin, ZenonT(40)
<1>3. Len(s) \in Nat /\ Len(d) \in Nat
    <2> HIDE DEF s
    <2> QED BY <1>2
<1> HIDE DEF s, t
<1>4. e \in Nat \X Nat /\ e[1] = Len(d) + 2 /\ e[2] = Len(s)
    BY <1>3
<1> HIDE DEF e
<1>5. \A i \in 1 .. n : /\ a[i] \in Nat \X Nat /\ IsStretch(d, a[i][1], a[i][2])
                        /\ SubSeq(d, a[i][1], a[i][2]) = FieldText(fields[i])
    BY DEF Layout
<1>6. /\ \A i \in 1 .. n : i \in 1 .. n + 1 /\ h[i] = a[i]
      /\ n + 1 \in 1 .. n + 1 /\ h[n + 1] = e
      /\ \A i \in 1 .. n + 1 : i \in 1 .. n \/ i = n + 1
    OBVIOUS
<1>7. h \in [1 .. n + 1 -> Nat \X Nat]
    BY <1>4, <1>5
<1> HIDE DEF h
<1>8. ASSUME NEW i \in 1 .. n + 1
      PROVE  IsStretch(s, h[i][1], h[i][2]) /\ SubSeq(s, h[i][1], h[i][2]) = FieldText(fields[i])
    <2>1. CASE i \in 1 .. n
        <3>1. h[i] = a[i] /\ IsStretch(d, a[i][1], a[i][2])
            BY <1>5, <1>6, <2>1
        <3>2. SubSeq(d, a[i][1], a[i][2]) = FieldText(fields[i])
            BY <1>5, <2>1
        <3> DEFINE k == a[i][1]
                   l == a[i][2]
        <3> HIDE DEF k, l
        <3>3. IsStretch(s, k, l) /\ SubSeq(s, k, l) = SubSeq(d, k, l)
            BY <1>2, <3>1 DEF k, l
        <3> QED BY <3>1, <3>2, <3>3 DEF k, l
    <2>2. CASE i = n + 1
        BY <1>2, <1>4, <1>6, <2>2 DEF t
    <2> QED BY <1>6, <2>1, <2>2
<1>9. ASSUME NEW i \in 1 .. n + 1, NEW j \in 1 .. n + 1, i < j PROVE h[i][1] < h[j][1]
    <2>0. i \in 1 .. n
        BY <1>9
    <2>1. CASE j \in 1 .. n
        BY <1>6, <1>9, <2>0, <2>1 DEF Layout
    <2>2. CASE j = n + 1
        <3>1. h[i] = a[i] /\ h[j][1] = Len(d) + 2
            BY <1>4, <1>6, <2>0, <2>2
        <3>2. a[i][1] \in 1 .. Len(d)
            BY <1>5, <2>0 DEF IsStretch
        <3> QED BY <1>3, <3>1, <3>2
    <2> QED BY <1>6, <2>1, <2>2
<1>10. ASSUME NEW i, NEW j, IsStretch(s, i, j) PROVE \E k \in 1 .. n + 1 : h[k][1] = i /\ h[k][2] = j
    <2>1. CASE IsStretch(d, i, j)
        <3>1. PICK k \in 1 .. n : a[k][1] = i /\ a[k][2] = j
            BY <2>1 DEF Layout
        <3> QED BY <1>6, <3>1
    <2>2. CASE i = Len(d) + 2 /\ j = Len(s)
        BY <1>4, <1>6, <2>2
    <2> QED BY <1>2, <1>10, <2>1, <2>2
<1>11. Layout(s, fields, n + 1, h)
    BY <1>7, <1>8, <1>9, <1>10 DEF Layout
<1> QED BY <1>11 DEF s, t

\* Every query string of a client is decoded to its fields, one stretch each.
THEOREM QueryLayout ==
    ASSUME NEW fields \in Seq(Sendable), NEW x \in QueryStrings(fields)
    PROVE  \E d, a : DecodesTo(x, d) /\ Layout(d, fields, Len(fields), a)
<1>1. PICK p \in [0 .. Len(fields) -> Strings] : IsRun(p, QueryStep, {<<>>}, fields)
    <2>1. {<<>>} \in Strings
        BY <<>> \in Seq(Text) DEF Strings
    <2> QED BY <2>1, QueryRun, RunExists
<1>2. x \in p[Len(fields)]
    BY <1>1, QueryRun, RunIs
<1> DEFINE Laid(z, n) == \E d, a : DecodesTo(z, d) /\ Layout(d, fields, n, a)
           T == {n \in 0 .. Len(fields) : \A z \in p[n] : Laid(z, n)}
<1>3. 0 \in T
    <2>1. p[0] = {<<>>} /\ 0 \in 0 .. Len(fields)
        BY <1>1 DEF IsRun
    <2> DEFINE a == [i \in 1 .. 0 |-> <<1, 1>>]
    <2>2. \A i, j : ~IsStretch(<<>>, i, j)
        BY Len(<<>>) = 0 DEF IsStretch
    <2>3. Layout(<<>>, fields, 0, a)
        BY <2>2 DEF Layout
    <2> HIDE DEF a
    <2>4. Laid(<<>>, 0)
        BY <2>3, DecodesNothing
    <2> HIDE DEF Laid
    <2> QED BY <2>1, <2>4
<1>4. ASSUME NEW n \in 0 .. Len(fields) - 1, n \in T PROVE n + 1 \in T
    <2> DEFINE f == fields[n + 1]
    <2>1. n + 1 \in 1 .. Len(fields) /\ (n + 1) - 1 = n /\ n + 1 \in 0 .. Len(fields) /\ n \in 0 .. Len(fields)
        OBVIOUS
    <2>2. p[n + 1] = QueryStep[<<p[n], f>>] /\ p[n] \in Strings /\ f \in Sendable
        BY <1>1, <2>1 DEF IsRun
    <2>3. p[n + 1] = Joins(Separated(p[n]), FieldStrings(f))
        BY <2>2 DEF QueryStep
    <2>4. ASSUME NEW z \in p[n + 1] PROVE Laid(z, n + 1)
        <3> DEFINE A == Separated(p[n])
                   B == FieldStrings(f)
                   t == FieldText(f)
        <3>0. z \in Joins(A, B)
            BY <2>3
        <3> HIDE DEF A, B
        <3>1. PICK v \in A, y \in B : z = v \o y
            BY <3>0, JoinsOf
        <3>2. DecodesTo(y, t) /\ t \in Seq(Text)
            BY <2>2, FieldDecodes, SendableIs DEF B
        <3>3. CASE n = 0
            <4>1. v = <<>>
                BY <1>1, <3>3 DEF IsRun, A, Separated
            <4>2. DecodesTo(z, <<>> \o t)
                BY <3>1, <3>2, <4>1, DecodesNothing, DecodesJoin
            <4>3. <<>> \o t = t
                BY <3>2
            <4>4. \E a : Layout(t, fields, 1, a)
                BY <2>2, <3>3, LayoutOne
            <4> QED BY <3>3, <4>2, <4>3, <4>4
        <3>4. CASE n # 0
            <4>1. \A u \in p[n] : Laid(u, n)
                BY <1>4
            <4>2. n \in Nat \ {0} /\ 1 \in 1 .. n
                BY <3>4
            <4>3. ASSUME NEW d, NEW a, Layout(d, fields, n, a) PROVE d # <<>>
                BY <4>2, <4>3, Len(<<>>) = 0 DEF Layout, IsStretch
            <4>4. p[n] # {<<>>}
                <5> SUFFICES ASSUME <<>> \in p[n] PROVE FALSE
                    OBVIOUS
                <5>1. PICK d, a : DecodesTo(<<>>, d) /\ Layout(d, fields, n, a)
                    BY <4>1
                <5>2. d \in Seq(Text) /\ Len(d) <= Len(<<>>)
                    BY <5>1 DEF DecodesTo
                <5>3. d = <<>>
                    BY <5>2
                <5> QED BY <4>3, <5>1, <5>3
            <4> DEFINE m == {<<Amp>>}
                       q == p[n]
            <4>5. v \in Joins(q, m)
                BY <3>1, <4>4 DEF A, Separated
            <4> HIDE DEF m, q
            <4>6. PICK u \in q, w \in m : v = u \o w
                BY <4>5, JoinsOf
            <4>7. w = <<Amp>> /\ u \in p[n]
                BY <4>6 DEF m, q
            <4>8. PICK d, a : DecodesTo(u, d) /\ Layout(d, fields, n, a)
                BY <4>1, <4>7
            <4>9. d \in Seq(Text) /\ d # <<>>
                BY <4>3, <4>8 DEF DecodesTo
            <4>10. DecodesTo(<<Amp>>, <<Amp>>) /\ Amp \in Text
                <5>1. Amp \in Text /\ Amp # Percent
                    BY DEF Amp, Text, Byte, NUL, Percent
                <5>2. <<Amp>> \in Escapes(Amp)
                    BY <5>1 DEF Escapes
                <5> QED BY <5>1, <5>2, DecodesOne
            <4>11. DecodesTo(v, d \o <<Amp>>)
                BY <4>6, <4>7, <4>8, <4>10, DecodesJoin
            <4>12. DecodesTo(z, (d \o <<Amp>>) \o t)
                BY <3>1, <3>2, <4>11, DecodesJoin
            <4> DEFINE s == d \o (<<Amp>> \o t)
            <4>13. (d \o <<Amp>>) \o t = s
                BY <3>2, <4>9, <4>10
            <4> HIDE DEF t
            <4>14. \E h : Layout(s, fields, n + 1, h)
                BY <2>2, <4>2, <4>8, <4>9, LayoutNext DEF t
            <4> HIDE DEF s
            <4> QED BY <4>12, <4>13, <4>14
        <3> QED BY <3>3, <3>4
    <2> HIDE DEF Laid
    <2> QED BY <2>1, <2>4
<1> HIDE DEF T
<1>5. Len(fields) \in T
    <2>1. Len(fields) \in Nat
        OBVIOUS
    <2>2. 0 .. Len(fields) \subseteq T
        BY <1>3, <1>4, <2>1, InductionUpTo
    <2> QED BY <2>1, <2>2
<1> QED BY <1>2, <1>5 DEF T

-----------------------------------------------------------------------------
(* The calls of fcgi_strtok_s find the stretches, one after the other.     *)

\* The token that begins at i.
TokenAt(s, i) == Until(Amp, SubSeq(s, i, Len(s)))

\* It goes on to the next separator.
LEMMA TokenIs ==
    ASSUME NEW s \in Seq(Text), NEW i \in 1 .. Len(s), s[i] # Amp
    PROVE  \E j \in i .. Len(s) :
              /\ TokenAt(s, i) = SubSeq(s, i, j) /\ TokenAt(s, i) \in Seq(Text)
              /\ Len(TokenAt(s, i)) = j - i + 1
              /\ \A n \in i .. j : s[n] # Amp
              /\ j = Len(s) \/ s[j + 1] = Amp
<1> DEFINE r == SubSeq(s, i, Len(s))
           t == TokenAt(s, i)
<1>1. /\ r \in Seq(Text) /\ Len(r) = Len(s) - i + 1 /\ Len(s) \in Nat
      /\ \A n \in 1 .. Len(s) - i + 1 : r[n] = s[i + n - 1]
    OBVIOUS
<1>2. t = Until(Amp, r)
    BY DEF TokenAt
<1> HIDE DEF r, t
<1>3. PICK n \in 0 .. Len(r) :
          /\ t = SubSeq(r, 1, n) /\ t \in Seq(Text) /\ Len(t) = n
          /\ \A k \in 1 .. n : r[k] # Amp
          /\ n < Len(r) => r[n + 1] = Amp
    BY <1>1, <1>2, UntilIs
<1>4. n >= 1
    <2> SUFFICES ASSUME n = 0 PROVE FALSE
        BY <1>3
    <2>1. r[1] = s[i] /\ 0 < Len(r)
        BY <1>1
    <2> QED BY <1>3, <2>1
<1> DEFINE j == i + n - 1
<1>5. j \in i .. Len(s) /\ n = j - i + 1
    BY <1>1, <1>3, <1>4
<1>6. t = SubSeq(s, i, j)
    <2> DEFINE u == SubSeq(s, i, j)
    <2>1. u \in Seq(Text) /\ Len(u) = n /\ \A k \in 1 .. n : u[k] = s[i + k - 1]
        BY <1>1, <1>5, SMTT(40)
    <2>2. \A k \in 1 .. n : t[k] = s[i + k - 1]
        BY <1>1, <1>3
    <2> HIDE DEF u
    <2>3. t = u
        BY <1>3, <2>1, <2>2, SeqEqual
    <2> QED BY <2>3 DEF u
<1>7. \A m \in i .. j : s[m] # Amp
    <2> SUFFICES ASSUME NEW m \in i .. j PROVE s[m] # Amp
        OBVIOUS
    <2> DEFINE k == m - i + 1
    <2>1. k \in 1 .. n /\ k \in 1 .. Len(s) - i + 1 /\ m = i + k - 1
        BY <1>1, <1>3, <1>5
    <2> QED BY <1>1, <1>3, <2>1
<1>8. j = Len(s) \/ s[j + 1] = Amp
    <2>1. CASE n < Len(r)
        <3>1. n + 1 \in 1 .. Len(s) - i + 1 /\ j + 1 = i + (n + 1) - 1
            BY <1>1, <1>3, <2>1
        <3> QED BY <1>1, <1>3, <2>1, <3>1
    <2>2. CASE ~(n < Len(r))
        <3>0. Len(r) \in Int /\ n \in Int /\ n <= Len(r)
            BY <1>1, <1>3
        <3> DEFINE l == Len(r)
        <3>3. l \in Int /\ n \in Int /\ n <= l /\ ~(n < l)
            BY <2>2, <3>0
        <3>4. n = l
            <4> HIDE DEF l
            <4> QED BY <3>3
        <3>1. n = Len(s) - i + 1
            BY <1>1, <3>4
        <3>2. j = Len(s)
            BY <1>1, <3>1
        <3> QED BY <3>2
    <2> QED BY <2>1, <2>2
<1> HIDE DEF j
<1> QED BY <1>3, <1>5, <1>6, <1>7, <1>8 DEF t

\* a says where in s these texts are: all that begin there or later, in their order.
Lists(s, from, texts, a) ==
    /\ texts \in Seq(Seq(Text)) /\ a \in [1 .. Len(texts) -> Nat \X Nat]
    /\ \A k \in 1 .. Len(texts) : /\ IsStretch(s, a[k][1], a[k][2]) /\ from <= a[k][1]
                                  /\ SubSeq(s, a[k][1], a[k][2]) = texts[k]
    /\ \A k, l \in 1 .. Len(texts) : k < l => a[k][1] < a[l][1]
    /\ \A i, j : IsStretch(s, i, j) /\ from <= i =>
          \E k \in 1 .. Len(texts) : a[k][1] = i /\ a[k][2] = j

\* Beyond the end there is none,
LEMMA ListsNone ==
    ASSUME NEW s \in Seq(Text), NEW from \in Nat, from > Len(s)
    PROVE  \E a : Lists(s, from, <<>>, a)
<1> DEFINE a == [k \in 1 .. 0 |-> <<1, 1>>]
<1>1. <<>> \in Seq(Seq(Text)) /\ Len(<<>>) = 0
    OBVIOUS
<1>2. a \in [1 .. 0 -> Nat \X Nat]
    OBVIOUS
<1>3. \A i, j : IsStretch(s, i, j) => ~(from <= i)
    BY DEF IsStretch
<1> HIDE DEF a
<1>4. Lists(s, from, <<>>, a)
    BY <1>1, <1>2, <1>3 DEF Lists
<1> QED BY <1>4

\* none begins at a separator,
LEMMA ListsSkip ==
    ASSUME NEW s \in Seq(Text), NEW i \in 1 .. Len(s), s[i] = Amp, NEW texts, NEW a,
           Lists(s, i + 1, texts, a)
    PROVE  Lists(s, i, texts, a)
<1>1. \A k, l : IsStretch(s, k, l) /\ i <= k => i + 1 <= k
    <2>1. ASSUME NEW k, NEW l, IsStretch(s, k, l), i <= k PROVE i + 1 <= k
        <3>1. k \in 1 .. Len(s) /\ l \in k .. Len(s) /\ s[k] # Amp
            BY <2>1 DEF IsStretch
        <3>2. k # i
            BY <3>1
        <3> QED BY <2>1, <3>1, <3>2
    <2> QED BY <2>1
<1>2. \A k \in 1 .. Len(texts) : i <= a[k][1]
    <2>1. \A k \in 1 .. Len(texts) : a[k][1] \in Nat /\ i + 1 <= a[k][1]
        BY DEF Lists
    <2> QED BY <2>1
<1> QED BY <1>1, <1>2 DEF Lists

\* and what begins elsewhere is followed by those after it.
LEMMA ListsMore ==
    ASSUME NEW s \in Seq(Text), NEW i \in 1 .. Len(s), NEW j \in i .. Len(s),
           IsStretch(s, i, j), NEW texts, NEW a, Lists(s, j + 2, texts, a)
    PROVE  \E h : Lists(s, i, <<SubSeq(s, i, j)>> \o texts, h)
<1> DEFINE t == SubSeq(s, i, j)
           m == Len(texts)
           u == <<t>> \o texts
           e == <<i, j>>
           h == [k \in 1 .. m + 1 |-> IF k = 1 THEN e ELSE a[k - 1]]
<1>0. texts \in Seq(Seq(Text))
    BY DEF Lists
<1>1. texts \in Seq(Seq(Text)) /\ t \in Seq(Text)
    <2>1. t \in Seq(Text)
        OBVIOUS
    <2> QED BY <1>0, <2>1
<1> HIDE DEF t
<1>2. /\ u \in Seq(Seq(Text)) /\ Len(u) = m + 1 /\ m \in Nat /\ u[1] = t
      /\ \A k \in 1 .. m : u[k + 1] = texts[k]
    <2>1. m \in Nat
        BY <1>1
    <2> DEFINE X == Seq(Text)
    <2>2. t \in X /\ texts \in Seq(X)
        BY <1>1
    <2> HIDE DEF X
    <2>3. u \in Seq(X) /\ Len(u) = m + 1 /\ u[1] = t /\ \A k \in 1 .. m : u[k + 1] = texts[k]
        BY <2>2
    <2> QED BY <2>1, <2>3 DEF X
<1>3. e \in Nat \X Nat /\ e[1] = i /\ e[2] = j
    OBVIOUS
<1> HIDE DEF e, u
<1>4. \A k \in 1 .. m : /\ a[k] \in Nat \X Nat /\ IsStretch(s, a[k][1], a[k][2])
                        /\ SubSeq(s, a[k][1], a[k][2]) = texts[k] /\ j + 2 <= a[k][1]
    BY DEF Lists
<1> HIDE DEF m
<1>5. \A k \in 1 .. m + 1 : k = 1 \/ k - 1 \in 1 .. m
    BY <1>2
<1>6. h \in [1 .. m + 1 -> Nat \X Nat]
    <2>1. \A k \in 1 .. m + 1 : h[k] \in Nat \X Nat
        BY <1>3, <1>4, <1>5
    <2> QED BY <2>1
<1>7. /\ 1 \in 1 .. m + 1 /\ h[1] = e
      /\ \A k \in 1 .. m : k + 1 \in 1 .. m + 1 /\ h[k + 1] = a[k]
    <2>1. \A k \in 1 .. m : k + 1 \in 1 .. m + 1 /\ k + 1 # 1 /\ (k + 1) - 1 = k
        BY <1>2
    <2> QED BY <1>2, <2>1
<1> HIDE DEF h
<1>8. \A k \in 1 .. m + 1 : k = 1 \/ \E l \in 1 .. m : k = l + 1
    <2>1. ASSUME NEW k \in 1 .. m + 1, k # 1 PROVE \E l \in 1 .. m : k = l + 1
        <3>1. k - 1 \in 1 .. m /\ k = (k - 1) + 1
            BY <1>2, <2>1
        <3> QED BY <3>1
    <2> QED BY <2>1
<1>9. ASSUME NEW k \in 1 .. m + 1
      PROVE  IsStretch(s, h[k][1], h[k][2]) /\ i <= h[k][1] /\ SubSeq(s, h[k][1], h[k][2]) = u[k]
    <2>1. CASE k = 1
        BY <1>2, <1>3, <1>7, <2>1, SMTT(40) DEF t
    <2>2. ASSUME NEW l \in 1 .. m, k = l + 1
          PROVE  IsStretch(s, h[k][1], h[k][2]) /\ i <= h[k][1] /\ SubSeq(s, h[k][1], h[k][2]) = u[k]
        <3>1. h[k] = a[l] /\ u[k] = texts[l]
            BY <1>2, <1>7, <2>2
        <3>2. a[l][1] \in Nat /\ j + 2 <= a[l][1]
            BY <1>4
        <3> QED BY <1>4, <3>1, <3>2
    <2> QED BY <1>8, <2>1, <2>2
<1>10. ASSUME NEW k \in 1 .. m + 1, NEW l \in 1 .. m + 1, k < l PROVE h[k][1] < h[l][1]
    <2>1. PICK y \in 1 .. m : l = y + 1
        <3>1. l # 1
            BY <1>2, <1>10
        <3> QED BY <1>8, <3>1
    <2>2. h[l] = a[y] /\ a[y][1] \in Nat /\ j + 2 <= a[y][1]
        BY <1>4, <1>7, <2>1
    <2>3. CASE k = 1
        <3>1. h[k][1] = i
            BY <1>3, <1>7, <2>3
        <3> QED BY <2>2, <3>1
    <2>4. CASE k # 1
        <3>1. PICK x \in 1 .. m : k = x + 1
            BY <1>8, <2>4
        <3>2. x < y /\ h[k] = a[x]
            BY <1>2, <1>7, <1>10, <2>1, <3>1
        <3>3. a[x][1] < a[y][1]
            BY <3>2 DEF Lists, m
        <3> QED BY <2>2, <3>2, <3>3
    <2> QED BY <2>3, <2>4
<1>11. ASSUME NEW x, NEW y, IsStretch(s, x, y), i <= x
       PROVE  \E k \in 1 .. m + 1 : h[k][1] = x /\ h[k][2] = y
    <2>1. /\ x \in 1 .. Len(s) /\ y \in x .. Len(s) /\ \A n \in x .. y : s[n] # Amp
          /\ x = 1 \/ s[x - 1] = Amp
          /\ y = Len(s) \/ s[y + 1] = Amp
        BY <1>11 DEF IsStretch
    <2>2. /\ \A n \in i .. j : s[n] # Amp
          /\ j = Len(s) \/ s[j + 1] = Amp
        BY DEF IsStretch
    <2>3. CASE x = i
        <3>1. y = j
            <4>0. y \in Int /\ j \in Int /\ x = i /\ Len(s) \in Nat
                BY <2>1, <2>3
            <4>1. CASE y < j
                <5>1. y + 1 \in i .. j /\ y # Len(s)
                    BY <2>1, <2>3, <4>0, <4>1
                <5> QED BY <2>1, <2>2, <5>1
            <4>2. CASE j < y
                <5>1. j + 1 \in x .. y /\ j # Len(s)
                    BY <2>1, <2>3, <4>0, <4>2
                <5> QED BY <2>1, <2>2, <5>1
            <4> QED BY <4>0, <4>1, <4>2
        <3> QED BY <1>3, <1>7, <2>3, <3>1
    <2>4. CASE x # i
        <3>1. j + 2 <= x
            <4> SUFFICES ASSUME ~(j + 2 <= x) PROVE FALSE
                OBVIOUS
            <4>1. x \in Nat /\ i < x /\ x <= j + 1 /\ j \in Nat /\ i \in Nat
                BY <1>11, <2>1, <2>4
            <4>2. CASE x = j + 1
                <5>1. j # Len(s) /\ x \in x .. y
                    BY <2>1, <4>1, <4>2
                <5>2. s[x] = Amp /\ s[x] # Amp
                    BY <2>1, <2>2, <4>2, <5>1
                <5> QED BY <5>2
            <4>3. CASE x # j + 1
                <5>1. x - 1 \in i .. j /\ x # 1
                    BY <4>1, <4>3
                <5> QED BY <2>1, <2>2, <5>1
            <4> QED BY <4>2, <4>3
        <3>2. PICK k \in 1 .. m : a[k][1] = x /\ a[k][2] = y
            BY <1>11, <3>1 DEF Lists, m
        <3> QED BY <1>7, <3>2
    <2> QED BY <2>3, <2>4
<1>12. Lists(s, i, u, h)
    <2>1. 1 .. Len(u) = 1 .. m + 1
        BY <1>2
    <2>2. u \in Seq(Seq(Text))
        BY <1>2
    <2>3. \A k \in 1 .. Len(u) : /\ IsStretch(s, h[k][1], h[k][2]) /\ i <= h[k][1]
                                 /\ SubSeq(s, h[k][1], h[k][2]) = u[k]
        BY <1>9, <2>1
    <2>4. \A k, l \in 1 .. Len(u) : k < l => h[k][1] < h[l][1]
        BY <1>10, <2>1
    <2>5. ASSUME NEW x, NEW y, IsStretch(s, x, y), i <= x
          PROVE  \E k \in 1 .. Len(u) : h[k][1] = x /\ h[k][2] = y
        <3>1. PICK k \in 1 .. m + 1 : h[k][1] = x /\ h[k][2] = y
            BY <1>11, <2>5
        <3>2. k \in 1 .. Len(u)
            BY <2>1
        <3> QED BY <3>1, <3>2
    <2>6. h \in [1 .. Len(u) -> Nat \X Nat]
        BY <1>6, <2>1
    <2> QED BY <2>2, <2>3, <2>4, <2>5, <2>6 DEF Lists
<1> QED BY <1>12 DEF u, t

\* The calls of fcgi_strtok_s from the place i on.
Tokenizing(s) ==
    CHOOSE f : f = [i \in 1 .. Len(s) + 2 |->
        IF i > Len(s) THEN <<>> ELSE
        IF s[i] = Amp THEN f[i + 1] ELSE
        LET token == Until(Amp, SubSeq(s, i, Len(s)))
        IN  <<token>> \o f[i + Len(token) + 1]]

LEMMA TokenizingIs ==
    ASSUME NEW s \in Seq(Text)
    PROVE  \A i \in 1 .. Len(s) + 2 : Tokenizing(s)[i] =
              IF i > Len(s) THEN <<>> ELSE
              IF s[i] = Amp THEN Tokenizing(s)[i + 1]
              ELSE <<TokenAt(s, i)>> \o Tokenizing(s)[i + Len(TokenAt(s, i)) + 1]
<1> DEFINE n     == Len(s) + 2
           V     == Seq(Seq(Text))
           stop  == {i \in 1 .. n : i > Len(s)}
           next  == [i \in 1 .. n |-> IF s[i] = Amp THEN i + 1 ELSE i + Len(TokenAt(s, i)) + 1]
           G     == [x \in (1 .. n) \X V |->
                       IF s[x[1]] = Amp \/ x[1] > Len(s) THEN x[2] ELSE <<TokenAt(s, x[1])>> \o x[2]]
           Is(f) == f = [i \in 1 .. Len(s) + 2 |->
                       IF i > Len(s) THEN <<>> ELSE
                       IF s[i] = Amp THEN f[i + 1] ELSE
                       LET token == Until(Amp, SubSeq(s, i, Len(s)))
                       IN  <<token>> \o f[i + Len(token) + 1]]
           D     == Tokenizing(s)
<1>1. n \in Nat /\ Len(s) \in Nat /\ <<>> \in V
    OBVIOUS
<1>2. \A i \in 1 .. Len(s) : s[i] # Amp =>
          TokenAt(s, i) \in Seq(Text) /\ Len(TokenAt(s, i)) \in 1 .. Len(s) - i + 1
    <2> SUFFICES ASSUME NEW i \in 1 .. Len(s), s[i] # Amp
                 PROVE  TokenAt(s, i) \in Seq(Text) /\ Len(TokenAt(s, i)) \in 1 .. Len(s) - i + 1
        OBVIOUS
    <2>1. PICK j \in i .. Len(s) : TokenAt(s, i) \in Seq(Text) /\ Len(TokenAt(s, i)) = j - i + 1
        BY TokenIs
    <2> QED BY <1>1, <2>1
<1>3. \A i \in (1 .. n) \ stop : i \in 1 .. Len(s) /\ next[i] \in i + 1 .. n
    <2> SUFFICES ASSUME NEW i \in (1 .. n) \ stop
                 PROVE  i \in 1 .. Len(s) /\ next[i] \in i + 1 .. n
        OBVIOUS
    <2>1. i \in 1 .. Len(s) /\ i \in 1 .. n
        BY <1>1
    <2>2. CASE s[i] = Amp
        <3>1. next[i] = i + 1
            BY <2>1, <2>2
        <3> QED BY <1>1, <2>1, <3>1
    <2>3. CASE s[i] # Amp
        <3> DEFINE l == Len(TokenAt(s, i))
        <3>1. l \in 1 .. Len(s) - i + 1
            BY <1>2, <2>1, <2>3
        <3>2. next[i] = i + l + 1
            BY <2>1, <2>3
        <3> HIDE DEF l, next
        <3> QED BY <1>1, <2>1, <3>1, <3>2
    <2> QED BY <2>2, <2>3
<1>4. G \in [(1 .. n) \X V -> V]
    <2>1. ASSUME NEW i \in 1 .. n, NEW v \in V
          PROVE  (IF s[i] = Amp \/ i > Len(s) THEN v ELSE <<TokenAt(s, i)>> \o v) \in V
        <3>1. CASE s[i] = Amp \/ i > Len(s)
            BY <3>1
        <3>2. CASE ~(s[i] = Amp \/ i > Len(s))
            <4>1. TokenAt(s, i) \in Seq(Text)
                BY <1>1, <1>2, <3>2
            <4> DEFINE X == Seq(Text)
            <4>2. TokenAt(s, i) \in X /\ v \in Seq(X)
                BY <4>1
            <4> HIDE DEF X, V
            <4>3. <<TokenAt(s, i)>> \o v \in Seq(X)
                BY <4>2
            <4> QED BY <3>2, <4>3 DEF V, X
        <3> QED BY <3>1, <3>2
    <2> HIDE DEF V, n
    <2> QED BY <2>1
<1>5. PICK f \in [1 .. n -> V] : IsScan(f, n, stop, <<>>, next, G)
    <2> HIDE DEF stop, next, G, V, n
    <2> QED BY <1>1, <1>3, <1>4, ScanExists
<1>6. \A i \in 1 .. n : f[i] = IF i \in stop THEN <<>> ELSE G[<<i, f[next[i]]>>]
    <2> HIDE DEF stop, next, G, V, n
    <2> QED BY <1>5 DEF IsScan
<1>7. ASSUME NEW i \in 1 .. n
      PROVE  f[i] = IF i > Len(s) THEN <<>> ELSE
                    IF s[i] = Amp THEN f[i + 1] ELSE
                    <<TokenAt(s, i)>> \o f[i + Len(TokenAt(s, i)) + 1]
    <2>1. CASE i > Len(s)
        <3>1. i \in stop
            BY <2>1
        <3> HIDE DEF stop, next, G
        <3> QED BY <1>6, <2>1, <3>1
    <2>2. CASE ~(i > Len(s))
        <3>1. i \notin stop
            BY <2>2
        <3>2. next[i] \in 1 .. n
            BY <1>3, <3>1
        <3> DEFINE v == f[next[i]]
        <3>3. v \in V
            BY <3>2
        <3>4. f[i] = G[<<i, v>>]
            <4> HIDE DEF stop, next, G
            <4> QED BY <1>6, <3>1
        <3> HIDE DEF v
        <3>5. G[<<i, v>>] = IF s[i] = Amp THEN v ELSE <<TokenAt(s, i)>> \o v
            <4> HIDE DEF V, n
            <4> QED BY <2>2, <3>3
        <3>6. v = f[IF s[i] = Amp THEN i + 1 ELSE i + Len(TokenAt(s, i)) + 1]
            BY DEF v
        <3> HIDE DEF G, n, V, next, stop
        <3> QED BY <2>2, <3>4, <3>5, <3>6
    <2> QED BY <2>1, <2>2
<1>8. Is(f)
    <2>1. f = [i \in 1 .. n |-> f[i]]
        OBVIOUS
    <2>2. f = [i \in 1 .. n |-> IF i > Len(s) THEN <<>> ELSE
                    IF s[i] = Amp THEN f[i + 1] ELSE
                    <<TokenAt(s, i)>> \o f[i + Len(TokenAt(s, i)) + 1]]
        <3> HIDE DEF n, V
        <3> QED BY <1>7, <2>1
    <2> QED BY <2>2 DEF TokenAt
<1>9. Is(D)
    <2> HIDE DEF Is
    <2>1. D = CHOOSE f1 : Is(f1)
        BY DEF Tokenizing, Is
    <2> HIDE DEF D
    <2> QED BY <1>8, <2>1
<1> QED BY <1>9 DEF TokenAt, D

\* They find all the stretches of any string, each once and in order.
THEOREM TokensList ==
    ASSUME NEW s \in Seq(Text)
    PROVE  \E a : Lists(s, 1, Tokens(s), a)
<1> DEFINE n == Len(s) + 2
           D == Tokenizing(s)
           T == {i \in 1 .. n : (i = 1 \/ i > Len(s) \/ s[i - 1] = Amp) => \E a : Lists(s, i, D[i], a)}
<1>1. n \in Nat /\ Len(s) \in Nat
    OBVIOUS
<1>2. \A i \in 1 .. n : D[i] =
          IF i > Len(s) THEN <<>> ELSE
          IF s[i] = Amp THEN D[i + 1] ELSE <<TokenAt(s, i)>> \o D[i + Len(TokenAt(s, i)) + 1]
    BY TokenizingIs
<1> HIDE DEF D
<1>3. ASSUME NEW i \in 1 .. n, \A j \in i + 1 .. n : j \in T PROVE i \in T
    <2> SUFFICES ASSUME i = 1 \/ i > Len(s) \/ s[i - 1] = Amp
                 PROVE  \E a : Lists(s, i, D[i], a)
        OBVIOUS
    <2>1. CASE i > Len(s)
        <3>0. D[i] = <<>>
            <4> HIDE DEF n
            <4> QED BY <1>2, <2>1
        <3>1. D[i] = <<>> /\ i \in Nat
            BY <3>0
        <3> QED BY <2>1, <3>1, ListsNone
    <2>2. CASE ~(i > Len(s)) /\ s[i] = Amp
        <3>0. D[i] = D[i + 1]
            <4> HIDE DEF n
            <4> QED BY <1>2, <2>2
        <3>1. i \in 1 .. Len(s) /\ D[i] = D[i + 1]
            BY <1>1, <2>2, <3>0
        <3>2. i + 1 \in T /\ (i + 1) - 1 = i
            BY <1>1, <1>3, <3>1
        <3>3. PICK a : Lists(s, i + 1, D[i + 1], a)
            BY <2>2, <3>2
        <3> QED BY <2>2, <3>1, <3>3, ListsSkip
    <2>3. CASE ~(i > Len(s)) /\ s[i] # Amp
        <3>1. i \in 1 .. Len(s)
            BY <1>1, <2>3
        <3>2. PICK j \in i .. Len(s) :
                  /\ TokenAt(s, i) = SubSeq(s, i, j) /\ TokenAt(s, i) \in Seq(Text)
                  /\ Len(TokenAt(s, i)) = j - i + 1
                  /\ \A m \in i .. j : s[m] # Amp
                  /\ j = Len(s) \/ s[j + 1] = Amp
            BY <2>3, <3>1, TokenIs
        <3>3. IsStretch(s, i, j)
            BY <2>3, <3>1, <3>2 DEF IsStretch
        <3>4. /\ j + 2 \in i + 1 .. n /\ j + 2 \in Nat /\ (j + 2) - 1 = j + 1
              /\ i + (j - i + 1) + 1 = j + 2 /\ (j = Len(s) => j + 2 > Len(s))
            BY <1>1, <3>1, <3>2
        <3>5. D[i] = <<SubSeq(s, i, j)>> \o D[j + 2]
            <4>1. D[i] = <<TokenAt(s, i)>> \o D[i + Len(TokenAt(s, i)) + 1]
                BY <1>2, <2>3
            <4>2. i + Len(TokenAt(s, i)) + 1 = j + 2
                BY <3>2, <3>4
            <4> QED BY <3>2, <4>1, <4>2
        <3>6. j + 2 \in T
            BY <1>3, <3>4
        <3>7. PICK a : Lists(s, j + 2, D[j + 2], a)
            BY <3>2, <3>4, <3>6
        <3> QED BY <3>1, <3>3, <3>5, <3>7, ListsMore, SMTT(40)
    <2> QED BY <2>1, <2>2, <2>3
<1> HIDE DEF T
<1>4. 1 \in T
    <2>1. 1 .. n \subseteq T
        BY <1>1, <1>3, FromTheRight
    <2> QED BY <1>1, <2>1
<1>5. Tokens(s) = D[1]
    BY DEF Tokens, D, Tokenizing
<1> QED BY <1>4, <1>5 DEF T

-----------------------------------------------------------------------------
(* The map that setQueryString fills.                                      *)

\* What m_params may be, and one call of set.
Maps    == UNION {[D -> Seq(Text)] : D \in SUBSET Seq(Text)}
MapStep == [x \in Maps \X Seq(Text) |-> With(x[1], x[2])]

LEMMA MapsAre ==
    \A m : m \in Maps <=> /\ DOMAIN m \subseteq Seq(Text) /\ m = [k \in DOMAIN m |-> m[k]]
                          /\ \A k \in DOMAIN m : m[k] \in Seq(Text)
<1>1. ASSUME NEW m \in Maps
      PROVE  /\ DOMAIN m \subseteq Seq(Text) /\ m = [k \in DOMAIN m |-> m[k]]
             /\ \A k \in DOMAIN m : m[k] \in Seq(Text)
    <2>1. PICK D \in SUBSET Seq(Text) : m \in [D -> Seq(Text)]
        BY DEF Maps
    <2> QED BY <2>1
<1>2. ASSUME NEW m, DOMAIN m \subseteq Seq(Text), m = [k \in DOMAIN m |-> m[k]],
             \A k \in DOMAIN m : m[k] \in Seq(Text)
      PROVE  m \in Maps
    <2>1. m \in [DOMAIN m -> Seq(Text)]
        BY <1>2
    <2> QED BY <1>2, <2>1 DEF Maps
<1> QED BY <1>1, <1>2

\* set overwrites one entry and keeps the others.
LEMMA WithIs ==
    ASSUME NEW m \in Maps, NEW t \in Seq(Text)
    PROVE  /\ With(m, t) \in Maps
           /\ DOMAIN With(m, t) = {Until(Eq, t)} \cup DOMAIN m
           /\ With(m, t)[Until(Eq, t)] = After(Eq, t)
           /\ \A k \in DOMAIN m : k # Until(Eq, t) => With(m, t)[k] = m[k]
<1> DEFINE key == Until(Eq, t)
           val == After(Eq, t)
           w   == With(m, t)
<1>1. key \in Seq(Text) /\ val \in Seq(Text)
    BY UntilIs, AfterIs
<1>2. w = [k \in {key} \cup DOMAIN m |-> IF k = key THEN val ELSE m[k]]
    BY DEF With
<1> HIDE DEF key, val, w
<1>3. DOMAIN w = {key} \cup DOMAIN m /\ w[key] = val /\ \A k \in DOMAIN m : k # key => w[k] = m[k]
    BY <1>2
<1>4. DOMAIN m \subseteq Seq(Text) /\ \A k \in DOMAIN m : m[k] \in Seq(Text)
    BY MapsAre
<1>5. DOMAIN w \subseteq Seq(Text) /\ \A k \in DOMAIN w : w[k] \in Seq(Text)
    BY <1>1, <1>3, <1>4
<1>6. w = [k \in DOMAIN w |-> w[k]]
    BY <1>2
<1>7. w \in Maps
    BY <1>5, <1>6, MapsAre
<1> QED BY <1>3, <1>7 DEF key, val, w

\* setQueryString goes through the tokens from the left.
LEMMA MapRun ==
    ASSUME NEW toks \in Seq(Seq(Text))
    PROVE  /\ MapStep \in [Maps \X Seq(Text) -> Maps] /\ <<>> \in Maps
           /\ FoldLeft(With, <<>>, toks) = RunTo(MapStep, <<>>, toks)
<1> DEFINE G     == MapStep
           b     == <<>>
           X     == Seq(Text)
           Is(f) == f = [d \in SUBSET DOMAIN toks |->
                       IF d = {} THEN b ELSE With(f[d \ {Max(d)}], toks[Max(d)])]
           f     == CHOOSE f : Is(f)
<1>1. b \in Maps
    <2>1. b \in [{} -> Seq(Text)]
        OBVIOUS
    <2> QED BY <2>1 DEF Maps
<1>2. G \in [Maps \X X -> Maps]
    <2>1. \A m \in Maps, u \in X : With(m, u) \in Maps
        BY WithIs
    <2> HIDE DEF X
    <2> QED BY <2>1 DEF MapStep, X
<1>3. \A m \in Maps, u \in X : G[<<m, u>>] = With(m, u)
    BY DEF MapStep
<1>4. toks \in Seq(X)
    OBVIOUS
<1> HIDE DEF G, b, X
<1>5. PICK h \in [SUBSET DOMAIN toks -> Maps] : IsIter(h, G, b, toks)
    BY <1>1, <1>2, <1>4, IterExists
<1>6. Is(h)
    <2>1. ASSUME NEW d \in SUBSET DOMAIN toks, d # {}
          PROVE  G[<<h[d \ {Max(d)}], toks[Max(d)]>>] = With(h[d \ {Max(d)}], toks[Max(d)])
        BY <1>3, <1>4, <1>5, <2>1, IterTakes
    <2> QED BY <1>5, <2>1 DEF IsIter
<1>7. Is(f)
    <2> HIDE DEF Is
    <2> QED BY <1>6
<1>8. FoldLeft(With, <<>>, toks) = f[DOMAIN toks]
    BY DEF FoldLeft, MapThenFoldSet, b
<1> HIDE DEF f
<1>9. f[DOMAIN toks] = RunTo(G, b, toks)
    <2>1. f[{}] = b
        BY <1>7
    <2>2. ASSUME NEW i \in 1 .. Len(toks), f[1 .. i - 1] \in Maps
          PROVE  f[1 .. i] = G[<<f[1 .. i - 1], toks[i]>>]
        <3>1. i \in Nat \ {0} /\ toks[i] \in X /\ 1 .. i \in SUBSET DOMAIN toks
            BY <1>4
        <3>2. 1 .. i # {} /\ Max(1 .. i) = i /\ (1 .. i) \ {Max(1 .. i)} = 1 .. i - 1
            BY <3>1, MaxOf
        <3>3. f[1 .. i] = With(f[1 .. i - 1], toks[i])
            BY <1>7, <3>1, <3>2
        <3> QED BY <1>3, <2>2, <3>1, <3>3
    <2> HIDE DEF Is
    <2>3. Follows(f, Maps, X, G, b, toks)
        BY <1>1, <1>2, <1>4, <2>1, <2>2 DEF Follows
    <2>4. f[1 .. Len(toks)] = RunTo(G, b, toks)
        BY <2>3, IterRun
    <2>5. DOMAIN toks = 1 .. Len(toks)
        BY <1>4
    <2> QED BY <2>4, <2>5
<1> QED BY <1>1, <1>2, <1>8, <1>9 DEF G, b, X

\* What m is after the first n entries.
Filled(m, toks, n) ==
    /\ m \in Maps /\ IsFiniteSet(DOMAIN m)
    /\ \A k : k \in DOMAIN m <=> \E i \in 1 .. n : k = Until(Eq, toks[i])
    /\ \A i \in 1 .. n : \/ m[Until(Eq, toks[i])] = After(Eq, toks[i])
                         \/ \E j \in 1 .. n : i < j /\ Until(Eq, toks[j]) = Until(Eq, toks[i])

\* After all of them the map has their keys, and the last value of each.
LEMMA MapFilled ==
    ASSUME NEW toks \in Seq(Seq(Text))
    PROVE  Filled(FoldLeft(With, <<>>, toks), toks, Len(toks))
<1> DEFINE X == Seq(Text)
<1>0. toks \in Seq(X) /\ MapStep \in [Maps \X X -> Maps] /\ <<>> \in Maps
    BY MapRun
<1> HIDE DEF X
<1>1. PICK p \in [0 .. Len(toks) -> Maps] : IsRun(p, MapStep, <<>>, toks)
    BY <1>0, RunExists
<1>2. FoldLeft(With, <<>>, toks) = p[Len(toks)]
    BY <1>0, <1>1, MapRun, RunIs
<1> DEFINE T == {n \in 0 .. Len(toks) : Filled(p[n], toks, n)}
<1>3. 0 \in T
    <2>1. p[0] = <<>> /\ 0 \in 0 .. Len(toks) /\ DOMAIN p[0] = {}
        BY <1>0, <1>1 DEF IsRun
    <2>2. Filled(p[0], toks, 0)
        BY <1>0, <2>1, FS_EmptySet DEF Filled
    <2> QED BY <2>1, <2>2
<1>4. ASSUME NEW n \in 0 .. Len(toks) - 1, n \in T PROVE n + 1 \in T
    <2> DEFINE t == toks[n + 1]
               m == p[n]
               w == With(m, t)
    <2>1. n + 1 \in 1 .. Len(toks) /\ (n + 1) - 1 = n /\ n + 1 \in 0 .. Len(toks) /\ n \in 0 .. Len(toks)
        BY <1>0
    <2>11. p[n + 1] = MapStep[<<m, t>>] /\ m \in Maps
        BY <1>1, <2>1 DEF IsRun
    <2>12. t \in X
        BY <1>0, <2>1
    <2>2. p[n + 1] = MapStep[<<m, t>>] /\ m \in Maps /\ t \in X
        BY <2>11, <2>12
    <2>3. p[n + 1] = w
        BY <2>2 DEF MapStep, X
    <2>4. Filled(m, toks, n)
        BY <1>4
    <2> HIDE DEF m, w, t
    <2>5. /\ w \in Maps /\ DOMAIN w = {Until(Eq, t)} \cup DOMAIN m
          /\ w[Until(Eq, t)] = After(Eq, t)
          /\ \A k \in DOMAIN m : k # Until(Eq, t) => w[k] = m[k]
        BY <2>2, WithIs DEF w, X
    <2>6. IsFiniteSet(DOMAIN w)
        <3>1. IsFiniteSet(DOMAIN m \cup {Until(Eq, t)})
            BY <2>4, FS_AddElement DEF Filled
        <3>2. DOMAIN w = DOMAIN m \cup {Until(Eq, t)}
            BY <2>5
        <3> QED BY <3>1, <3>2
    <2>7. /\ \A i \in 1 .. n + 1 : i \in 1 .. n \/ i = n + 1
          /\ \A i \in 1 .. n : i \in 1 .. n + 1 /\ i < n + 1
          /\ n + 1 \in 1 .. n + 1
        BY <2>1
    <2>8. \A k : k \in DOMAIN w <=> \E i \in 1 .. n + 1 : k = Until(Eq, toks[i])
        <3>1. ASSUME NEW k \in DOMAIN w PROVE \E i \in 1 .. n + 1 : k = Until(Eq, toks[i])
            <4>1. CASE k = Until(Eq, t)
                BY <2>7, <4>1 DEF t
            <4>2. CASE k \in DOMAIN m
                <5>1. PICK i \in 1 .. n : k = Until(Eq, toks[i])
                    BY <2>4, <4>2 DEF Filled
                <5> QED BY <2>7, <5>1
            <4> QED BY <2>5, <4>1, <4>2
        <3>2. ASSUME NEW i \in 1 .. n + 1 PROVE Until(Eq, toks[i]) \in DOMAIN w
            <4>1. CASE i \in 1 .. n
                <5>1. Until(Eq, toks[i]) \in DOMAIN m
                    BY <2>4, <4>1 DEF Filled
                <5> QED BY <2>5, <5>1
            <4>2. CASE i = n + 1
                BY <2>5, <4>2 DEF t
            <4> QED BY <2>7, <4>1, <4>2
        <3> QED BY <3>1, <3>2
    <2>9. ASSUME NEW i \in 1 .. n + 1
          PROVE  \/ w[Until(Eq, toks[i])] = After(Eq, toks[i])
                 \/ \E j \in 1 .. n + 1 : i < j /\ Until(Eq, toks[j]) = Until(Eq, toks[i])
        <3>1. CASE i = n + 1
            BY <2>5, <3>1 DEF t
        <3>2. CASE i \in 1 .. n /\ Until(Eq, toks[i]) = Until(Eq, t)
            BY <2>7, <3>2 DEF t
        <3>3. CASE i \in 1 .. n /\ Until(Eq, toks[i]) # Until(Eq, t)
            <4>1. Until(Eq, toks[i]) \in DOMAIN m
                BY <2>4, <3>3 DEF Filled
            <4>2. w[Until(Eq, toks[i])] = m[Until(Eq, toks[i])]
                BY <2>5, <3>3, <4>1
            <4>3. \/ m[Until(Eq, toks[i])] = After(Eq, toks[i])
                  \/ \E j \in 1 .. n : i < j /\ Until(Eq, toks[j]) = Until(Eq, toks[i])
                BY <2>4, <3>3 DEF Filled
            <4> QED BY <2>7, <4>2, <4>3
        <3> QED BY <2>7, <3>1, <3>2, <3>3
    <2>10. Filled(w, toks, n + 1)
        BY <2>5, <2>6, <2>8, <2>9 DEF Filled
    <2> QED BY <2>1, <2>3, <2>10
<1> HIDE DEF T
<1>5. Len(toks) \in T
    <2>1. Len(toks) \in Nat
        BY <1>0
    <2>2. 0 .. Len(toks) \subseteq T
        BY <1>3, <1>4, <2>1, InductionUpTo
    <2> QED BY <2>1, <2>2
<1> QED BY <1>2, <1>5 DEF T
-----------------------------------------------------------------------------
\* The map of a request has finitely many entries.
FiniteMap == IsFiniteSet(DOMAIN params)

\* What one call of next() returns.
Entry(k) == <<k, params[k]>>
Entries  == {Entry(k) : k \in DOMAIN params}

\* order goes through the keys once each, seen is what comes before pos in it, and
\* next() returns false only at its end.
OrderInv ==
    /\ order \in Seq(DOMAIN params)
    /\ \A i, j \in 1 .. Len(order) : i # j => order[i] # order[j]
    /\ \A k \in DOMAIN params : \E i \in 1 .. Len(order) : order[i] = k
SeenInv ==
    /\ pos \in 1 .. Len(order) + 1
    /\ seen = [i \in 1 .. pos - 1 |-> Entry(order[i])]
    /\ done => pos = Len(order) + 1
IterInv == OrderInv /\ SeenInv

LEMMA IterInit == Init => IterInv
<1> SUFFICES ASSUME Init PROVE IterInv
    OBVIOUS
<1>1. order = <<>> /\ DOMAIN params = {} /\ Len(order) = 0
    BY DEF Init
<1>2. seen = [i \in 1 .. pos - 1 |-> Entry(order[i])]
    BY DEF Init
<1> QED BY <1>1, <1>2 DEF Init, IterInv, OrderInv, SeenInv

\* A sequence from SetToSeqs has every element of a finite set, once.
LEMMA OrderOfSet ==
    ASSUME NEW S, IsFiniteSet(S), NEW o \in SetToSeqs(S)
    PROVE  /\ o \in Seq(S)
           /\ \A i, j \in 1 .. Len(o) : i # j => o[i] # o[j]
           /\ \A k \in S : \E i \in 1 .. Len(o) : o[i] = k
<1> DEFINE n == Cardinality(S)
<1>1. n \in Nat
    BY FS_CardinalityType
<1>2. /\ o \in [1 .. n -> S]
      /\ \A i, j \in 1 .. n : i # j => o[i] # o[j]
    BY DEF SetToSeqs
<1>3. o \in Seq(S) /\ Len(o) = n
    BY <1>1, <1>2
<1>4. o \in Injection(1 .. n, S)
    BY <1>2 DEF Injection, IsInjective
<1>5. IsFiniteSet(1 .. n) /\ Cardinality(1 .. n) = n
    BY <1>1, FS_Interval
<1>6. o \in Surjection(1 .. n, S)
    BY <1>4, <1>5, FS_Injection
<1> QED BY <1>2, <1>3, <1>6 DEF Surjection

\* setQueryString starts an iteration over the new parameters.
LEMMA ServeIter ==
    ASSUME IterInv, FiniteMap', NEW q, NEW fields, Serve(q, fields)
    PROVE  IterInv'
<1>1. CASE UNCHANGED <<query, params, iterVars, meant>>
    BY <1>1 DEF IterInv, OrderInv, SeenInv, Entry, iterVars
<1>2. ASSUME NEW mem, NEW junk, SetQueryString(mem, junk) PROVE IterInv'
    <2>1. order' \in SetToSeqs(DOMAIN params')
        BY <1>2 DEF SetQueryString
    <2>2. OrderInv'
        BY <2>1, OrderOfSet DEF OrderInv, FiniteMap
    <2>3. pos' = 1 /\ seen' = <<>> /\ ~done'
        BY <1>2 DEF SetQueryString
    <2>4. Len(order') \in Nat
        BY <2>2 DEF OrderInv
    <2>5. SeenInv'
        BY <2>3, <2>4 DEF SeenInv
    <2> QED BY <2>2, <2>5 DEF IterInv
<1> QED BY <1>1, <1>2 DEF Serve

LEMMA NextIter ==
    ASSUME IterInv, IterNext
    PROVE  IterInv'
<1>1. OrderInv'
    BY DEF IterInv, OrderInv, IterNext
<1>2. Len(order) \in Nat /\ pos \in Nat
    BY DEF IterInv, OrderInv, SeenInv
<1>3. CASE /\ pos <= Len(order) /\ pos' = pos + 1
           /\ seen' = Append(seen, <<order[pos], params[order[pos]]>>)
           /\ UNCHANGED done
    <2>1. \A i \in 1 .. Len(order) : Entry(order[i]) \in Entries
        BY DEF IterInv, OrderInv, Entries
    <2>2. seen \in Seq(Entries) /\ Len(seen) = pos - 1
        BY <1>2, <1>3, <2>1 DEF IterInv, SeenInv
    <2>3. seen' = Append(seen, Entry(order[pos]))
        BY <1>3 DEF Entry
    <2>4. Entry(order[pos]) \in Entries /\ pos \in 1 .. Len(order)
        BY <1>2, <1>3, <2>1 DEF IterInv, SeenInv
    <2>5. seen' \in Seq(Entries) /\ Len(seen') = pos
        BY <2>2, <2>3, <2>4, <1>2
    <2>6. \A i \in 1 .. pos : seen'[i] = Entry(order[i])
        BY <2>2, <2>3, <2>4, <1>2 DEF IterInv, SeenInv
    <2>7. seen' = [i \in 1 .. pos |-> Entry(order[i])]
        BY <2>5, <2>6
    <2>8. UNCHANGED <<order, params>>
        BY DEF IterNext
    <2>9. seen' = [i \in 1 .. pos' - 1 |-> Entry(order[i])']
        BY <2>7, <2>8, <1>3, <1>2 DEF Entry
    <2>10. SeenInv'
        <3>1. pos' \in 1 .. Len(order') + 1 /\ (done' => pos' = Len(order') + 1)
            BY <1>2, <1>3, <2>8 DEF IterInv, SeenInv
        <3> QED BY <2>9, <3>1 DEF SeenInv
    <2> QED BY <1>1, <2>10 DEF IterInv
<1>4. CASE pos > Len(order) /\ done' = TRUE /\ UNCHANGED <<pos, seen>>
    <2>1. SeenInv'
        BY <1>2, <1>4 DEF IterInv, SeenInv, IterNext, Entry
    <2> QED BY <1>1, <2>1 DEF IterInv
<1> QED BY <1>3, <1>4 DEF IterNext

LEMMA IterStep ==
    IterInv /\ FiniteMap' /\ [Next]_vars => IterInv'
<1> SUFFICES ASSUME IterInv, FiniteMap', [Next]_vars PROVE IterInv'
    OBVIOUS
<1>1. ASSUME NEW q, NEW fields, Serve(q, fields) PROVE IterInv'
    BY <1>1, ServeIter
<1>2. CASE IterNext
    BY <1>2, NextIter
<1>3. CASE IterReset
    <2>1. OrderInv' /\ Len(order') \in Nat
        BY <1>3 DEF IterInv, OrderInv, IterReset
    <2>2. SeenInv'
        BY <1>3, <2>1 DEF IterReset, SeenInv
    <2> QED BY <2>1, <2>2 DEF IterInv
<1>4. CASE UNCHANGED vars
    BY <1>4 DEF vars, iterVars, IterInv, OrderInv, SeenInv, Entry
<1> QED BY <1>1, <1>2, <1>3, <1>4 DEF Next

-----------------------------------------------------------------------------
(* The request in query().                                                 *)

\* The map is that of the decoded string, which has room for its NUL.
ParamInv ==
    /\ query \in Seq(Text) /\ Len(query) < UrlMax
    /\ params = FoldLeft(With, <<>>, Tokens(query))
    /\ done \in BOOLEAN /\ reply \in {"none", "414", "query"} /\ meant \subseteq Sent

\* What a client has sent is there as it has meant it.
SentInv == \A fields \in meant : \E a : Layout(query, fields, Len(fields), a)

\* The inductive invariant.
RequestInv == ParamInv /\ SentInv /\ IterInv

\* What the invariant says of the map, by the places of its entries in the string.
Placed(a, toks) ==
    Lists(query, 1, toks, a) /\ Filled(params, toks, Len(toks))

LEMMA MapPlaced == ASSUME ParamInv PROVE \E a, toks : Placed(a, toks)
<1>1. query \in Seq(Text)
    BY DEF ParamInv
<1>2. PICK a : Lists(query, 1, Tokens(query), a)
    BY <1>1, TokensList
<1>3. Tokens(query) \in Seq(Seq(Text))
    BY <1>2 DEF Lists
<1>4. Filled(params, Tokens(query), Len(Tokens(query)))
    BY <1>3, MapFilled DEF ParamInv
<1> QED BY <1>2, <1>4 DEF Placed

LEMMA MapFinite == ParamInv => FiniteMap /\ params \in Maps
BY MapPlaced DEF Placed, Filled, FiniteMap

LEMMA MapFinitePrime == ParamInv' => FiniteMap'
BY MapFinite, PTL

LEMMA ParamInit == Init => ParamInv /\ SentInv
<1> SUFFICES ASSUME Init PROVE ParamInv /\ SentInv
    OBVIOUS
<1>1. query = <<>> /\ params = <<>> /\ <<>> \in Seq(Text) /\ Len(<<>>) = 0
    BY DEF Init
<1>2. PICK a : Lists(<<>>, 1, Tokens(<<>>), a)
    BY <1>1, TokensList
<1> DEFINE t == Tokens(<<>>)
<1>3. t = <<>>
    <2>1. t \in Seq(Seq(Text)) /\ \A k \in 1 .. Len(t) : IsStretch(<<>>, a[k][1], a[k][2])
        BY <1>2 DEF Lists
    <2>2. \A i, j : ~IsStretch(<<>>, i, j)
        BY <1>1 DEF IsStretch
    <2> HIDE DEF t
    <2>3. Len(t) = 0
        <3>1. Len(t) \in Nat /\ ~(1 \in 1 .. Len(t))
            BY <2>1, <2>2
        <3> QED BY <3>1
    <2> QED BY <2>1, <2>3
<1>4. FoldLeft(With, <<>>, t) = <<>>
    <2>1. <<>> \in Seq(Seq(Text))
        OBVIOUS
    <2>2. Filled(FoldLeft(With, <<>>, t), t, Len(t))
        BY <1>3, <2>1, MapFilled
    <2>3. MapStep \in [Maps \X Seq(Text) -> Maps] /\ <<>> \in Maps
        BY <2>1, MapRun
    <2>4. FoldLeft(With, <<>>, t) = RunTo(MapStep, <<>>, <<>>)
        BY <1>3, <2>1, MapRun
    <2> QED BY <2>3, <2>4, RunEmpty
<1>5. Len(query) < UrlMax
    BY <1>1, RequestAssumption
<1> HIDE DEF t
<1>6. params = FoldLeft(With, <<>>, Tokens(query))
    BY <1>1, <1>4 DEF t
<1>7. ParamInv
    BY <1>1, <1>5, <1>6 DEF Init, ParamInv
<1>8. SentInv
    BY DEF Init, SentInv
<1> QED BY <1>7, <1>8

\* setQueryString forgets the request before, and has decoded all of this one.
LEMMA ServeParam ==
    ASSUME ParamInv, NEW q \in Seq(Text), NEW fields, fields \subseteq Sent, Serve(q, fields)
    PROVE  /\ ParamInv'
           /\ \/ UNCHANGED <<query, meant>>
              \/ meant' = fields /\ \A d : DecodesTo(q, d) => query' = d
<1>1. CASE UNCHANGED <<query, params, iterVars, meant>> /\ reply' = "414"
    BY <1>1 DEF ParamInv, iterVars
<1>2. ASSUME NEW b \in Beyond, NEW j \in Junk, SetQueryString(q \o <<NUL>> \o b, j),
             Len(q) < UrlMax, reply' = "query", meant' = fields
      PROVE  ParamInv' /\ \A d : DecodesTo(q, d) => query' = d
    <2> DEFINE y   == <<NUL>> \o b
               mem == q \o y
               u   == UrlDecode(mem, UrlMax, j)
    <2>1. b \in Seq(Byte) /\ j \in Byte /\ UrlMax \in Nat \ {0} /\ NUL \in Byte
        BY RequestAssumption DEF NUL, Byte
    <2>2. q \in Seq(Byte)
        <3>1. Text \subseteq Byte
            BY DEF Text
        <3> QED BY <3>1
    <2>3. mem \in Seq(Byte) /\ q \o <<NUL>> \o b = mem
        BY <2>1, <2>2
    <2>4. u \in Seq(Byte) /\ Len(u) < UrlMax
        BY <2>1, <2>3, UrlDecodeIs
    <2>5. query' = Until(NUL, u) /\ params' = FoldLeft(With, <<>>, Tokens(query')) /\ done' = FALSE
        BY <1>2, <2>3 DEF SetQueryString
    <2> HIDE DEF u
    <2>6. PICK n \in 0 .. Len(u) :
              /\ query' = SubSeq(u, 1, n) /\ query' \in Seq(Byte) /\ Len(query') = n
              /\ \A i \in 1 .. n : u[i] # NUL
        BY <2>4, <2>5, UntilIs
    <2>7. query' \in Seq(Text) /\ Len(query') < UrlMax
        <3>1. Len(query') < UrlMax
            BY <2>1, <2>4, <2>6
        <3>2. \A i \in 1 .. Len(query') : query'[i] \in Text
            BY <2>4, <2>6 DEF Text
        <3> QED BY <2>6, <3>1, <3>2
    <2>8. ParamInv'
        BY <1>2, <2>5, <2>7 DEF ParamInv
    <2>9. ASSUME NEW d, DecodesTo(q, d) PROVE query' = d
        <3>1. Dec(mem, j) = d
            BY <2>1, <2>9, DecodesQuery
        <3>2. d \in Seq(Text) /\ Len(d) <= Len(q)
            BY <2>9 DEF DecodesTo
        <3>3. Len(d) < UrlMax
            BY <1>2, <2>1, <3>2
        <3>4. u = d
            BY <2>1, <2>3, <3>1, <3>3, UrlDecodeIs DEF u
        <3>5. \A i \in 1 .. Len(d) : d[i] # NUL
            BY <3>2 DEF Text
        <3>6. Len(d) \in 0 .. Len(d)
            BY <3>2
        <3>7. Until(NUL, d) = SubSeq(d, 1, Len(d))
            BY <3>2, <3>5, <3>6, UntilFirst
        <3>8. SubSeq(d, 1, Len(d)) = d
            BY <3>2
        <3> QED BY <2>5, <3>4, <3>7, <3>8
    <2> QED BY <2>8, <2>9
<1> QED BY <1>1, <1>2 DEF Serve

LEMMA RequestStep == RequestInv /\ [Next]_vars => RequestInv'
<1> SUFFICES ASSUME RequestInv, [Next]_vars PROVE RequestInv'
    OBVIOUS
<1>0. ParamInv /\ SentInv /\ IterInv
    BY DEF RequestInv
<1>1. ASSUME NEW q \in Raw, Serve(q, {}) PROVE ParamInv' /\ SentInv'
    <2>1. q \in Seq(Text)
        BY RequestAssumption DEF Text
    <2>2. /\ ParamInv'
          /\ UNCHANGED <<query, meant>> \/ meant' = {}
        BY <1>0, <1>1, <2>1, ServeParam
    <2> QED BY <1>0, <2>2 DEF SentInv
<1>2. ASSUME NEW fields \in Sent, NEW q \in QueryStrings(fields), Serve(q, {fields})
      PROVE  ParamInv' /\ SentInv'
    <2>1. fields \in Seq(Sendable)
        BY RequestAssumption
    <2>2. PICK d, a : DecodesTo(q, d) /\ Layout(d, fields, Len(fields), a)
        BY <2>1, QueryLayout
    <2>3. q \in Seq(Text) /\ {fields} \subseteq Sent
        BY <2>2 DEF DecodesTo
    <2>4. /\ ParamInv'
          /\ \/ UNCHANGED <<query, meant>>
             \/ meant' = {fields} /\ query' = d
        BY <1>0, <1>2, <2>2, <2>3, ServeParam
    <2> QED BY <1>0, <2>2, <2>4 DEF SentInv
<1>3. ASSUME UNCHANGED <<query, params, reply, meant>>, done' \in BOOLEAN
      PROVE  ParamInv' /\ SentInv'
    BY <1>0, <1>3 DEF ParamInv, SentInv
<1>4. ParamInv' /\ SentInv'
    <2>1. CASE IterNext
        BY <1>0, <1>3, <2>1 DEF IterNext, ParamInv
    <2>2. CASE IterReset
        BY <1>3, <2>2 DEF IterReset
    <2>3. CASE UNCHANGED vars
        BY <1>0, <1>3, <2>3 DEF vars, iterVars, ParamInv
    <2> QED BY <1>1, <1>2, <2>1, <2>2, <2>3 DEF Next
<1>5. FiniteMap'
    BY <1>4, MapFinitePrime
<1> QED BY <1>0, <1>4, <1>5, IterStep DEF RequestInv

LEMMA RequestAlways == Spec => []RequestInv
<1>1. Init => RequestInv
    BY IterInit, ParamInit DEF RequestInv
<1> QED BY <1>1, RequestStep, PTL DEF Spec

-----------------------------------------------------------------------------
(* The properties.                                                         *)

\* The entries of the map are the stretches of the string.
LEMMA StretchKeys ==
    ASSUME ParamInv
    PROVE  ParamsMatchQuery
<1> DEFINE text(x) == SubSeq(query, x[1], x[2])
           key(x)  == Until(Eq, text(x))
<1>1. PICK a, toks : Placed(a, toks)
    BY MapPlaced
<1>2. /\ toks \in Seq(Seq(Text)) /\ a \in [1 .. Len(toks) -> Nat \X Nat]
      /\ \A k \in 1 .. Len(toks) : IsStretch(query, a[k][1], a[k][2]) /\ text(a[k]) = toks[k]
      /\ \A k, l \in 1 .. Len(toks) : k < l => a[k][1] < a[l][1]
      /\ \A i, j : IsStretch(query, i, j) /\ 1 <= i =>
            \E k \in 1 .. Len(toks) : a[k][1] = i /\ a[k][2] = j
    BY <1>1 DEF Placed, Lists
<1>3. /\ \A k : k \in DOMAIN params <=> \E i \in 1 .. Len(toks) : k = Until(Eq, toks[i])
      /\ \A i \in 1 .. Len(toks) :
            \/ params[Until(Eq, toks[i])] = After(Eq, toks[i])
            \/ \E j \in 1 .. Len(toks) : i < j /\ Until(Eq, toks[j]) = Until(Eq, toks[i])
    BY <1>1 DEF Placed, Filled
<1> DEFINE S == Stretches(query)
<1>4. \A k \in 1 .. Len(toks) : a[k] \in S
    <2>1. ASSUME NEW k \in 1 .. Len(toks) PROVE a[k] \in S
        <3>1. a[k] \in Nat \X Nat /\ IsStretch(query, a[k][1], a[k][2])
            BY <1>2
        <3>2. a[k] = <<a[k][1], a[k][2]>>
            BY <3>1
        <3>3. query \in Seq(Text)
            BY DEF ParamInv
        <3> QED BY <3>1, <3>2, <3>3, StretchesAre
    <2> QED BY <2>1
<1>5. \A x \in S : \E k \in 1 .. Len(toks) : a[k] = x
    <2>1. ASSUME NEW x \in S PROVE \E k \in 1 .. Len(toks) : a[k] = x
        <3>1. query \in Seq(Text)
            BY DEF ParamInv
        <3>2. x \in Nat \X Nat /\ x = <<x[1], x[2]>> /\ IsStretch(query, x[1], x[2])
            BY <3>1, StretchesAre
        <3>3. 1 <= x[1]
            BY <3>2 DEF IsStretch
        <3>4. PICK k \in 1 .. Len(toks) : a[k][1] = x[1] /\ a[k][2] = x[2]
            BY <1>2, <3>2, <3>3
        <3>5. a[k] \in Nat \X Nat
            BY <1>2
        <3>6. a[k] = x
            BY <3>2, <3>4, <3>5
        <3> QED BY <3>6
    <2> QED BY <2>1
<1>6. \A k \in 1 .. Len(toks) : key(a[k]) = Until(Eq, toks[k])
    BY <1>2
<1> HIDE DEF S
<1>7. DOMAIN params = {key(x) : x \in S}
    <2>1. ASSUME NEW k \in DOMAIN params PROVE \E x \in S : k = key(x)
        <3>1. PICK i \in 1 .. Len(toks) : k = Until(Eq, toks[i])
            BY <1>3
        <3> QED BY <1>4, <1>6, <3>1
    <2>2. ASSUME NEW x \in S PROVE key(x) \in DOMAIN params
        <3>1. PICK k \in 1 .. Len(toks) : a[k] = x
            BY <1>5
        <3>2. key(x) = Until(Eq, toks[k])
            BY <1>6, <3>1
        <3> HIDE DEF key
        <3> QED BY <1>3, <3>2
    <2> HIDE DEF key
    <2> QED BY <2>1, <2>2
<1>8. ASSUME NEW x \in S
      PROVE  \/ params[key(x)] = After(Eq, text(x))
             \/ \E y \in S : y[1] > x[1] /\ key(y) = key(x)
    <2>1. PICK i \in 1 .. Len(toks) : a[i] = x
        BY <1>5
    <2>2. key(x) = Until(Eq, toks[i]) /\ text(x) = toks[i]
        BY <1>2, <2>1
    <2>3. CASE params[Until(Eq, toks[i])] = After(Eq, toks[i])
        BY <2>2, <2>3
    <2>4. ASSUME NEW j \in 1 .. Len(toks), i < j, Until(Eq, toks[j]) = Until(Eq, toks[i])
          PROVE  \E y \in S : y[1] > x[1] /\ key(y) = key(x)
        <3>1. a[j] \in S /\ key(a[j]) = key(x)
            BY <1>4, <1>6, <2>2, <2>4
        <3>2. a[i][1] < a[j][1] /\ a[i] \in Nat \X Nat /\ a[j] \in Nat \X Nat
            BY <1>2, <2>4
        <3>3. a[j][1] > x[1]
            BY <2>1, <3>2
        <3> HIDE DEF key
        <3> QED BY <3>1, <3>3
    <2> QED BY <1>3, <2>3, <2>4
<1> QED BY <1>7, <1>8 DEF ParamsMatchQuery, S

\* Every variable has its type: the decoded string is shorter than the buffer and
\* without a NUL, the map has strings only, and the iterator stands between the
\* first entry and the end.
THEOREM TypeCorrect == Spec => []TypeOK
<1>1. RequestInv => TypeOK
    <2> SUFFICES ASSUME RequestInv PROVE TypeOK
        OBVIOUS
    <2>0. ParamInv /\ OrderInv /\ SeenInv
        BY DEF RequestInv, IterInv
    <2> DEFINE S == Seq(Byte)
    <2>1. Text = Byte \ {NUL} /\ \A t \in Seq(Text) : t \in S
        BY DEF Text
    <2>2. \A k \in DOMAIN params : k \in S /\ params[k] \in S
        <3>1. params \in Maps
            BY <2>0, MapFinite
        <3> QED BY <2>1, <3>1, MapsAre
    <2> HIDE DEF S
    <2>3. DOMAIN params \subseteq S /\ Range(params) \subseteq S
        BY <2>2 DEF Range
    <2>4. Range(order) = DOMAIN params
        <3>1. order \in Seq(DOMAIN params) /\ DOMAIN order = 1 .. Len(order)
            BY <2>0 DEF OrderInv
        <3>2. \A i \in 1 .. Len(order) : order[i] \in DOMAIN params
            BY <3>1
        <3>3. \A k \in DOMAIN params : \E i \in 1 .. Len(order) : order[i] = k
            BY <2>0 DEF OrderInv
        <3> QED BY <3>1, <3>2, <3>3 DEF Range
    <2>5. seen \in Seq(S \X S)
        <3>1. \A i \in 1 .. pos - 1 : Entry(order[i]) \in S \X S
            BY <2>0, <2>2, SMTT(40) DEF OrderInv, SeenInv, Entry
        <3>2. pos - 1 \in Nat
            BY <2>0 DEF OrderInv, SeenInv
        <3> DEFINE e == [i \in 1 .. pos - 1 |-> Entry(order[i])]
                   P == S \X S
        <3> HIDE DEF P
        <3>3. e \in Seq(P)
            BY <3>1, <3>2 DEF P
        <3> QED BY <2>0, <3>3 DEF SeenInv, P
    <2>6. pos \in 1 .. Len(order) + 1
        BY <2>0 DEF SeenInv
    <2>7. query \in Seq(Byte \ {NUL}) /\ Len(query) < UrlMax
        BY <2>0, <2>1 DEF ParamInv
    <2>8. done \in BOOLEAN /\ reply \in {"none", "414", "query"} /\ meant \subseteq Sent
        BY <2>0 DEF ParamInv
    <2> QED BY <2>3, <2>4, <2>5, <2>6, <2>7, <2>8 DEF TypeOK, S
<1> QED BY <1>1, RequestAlways, PTL

\* The parameters are what the decoded string says, whatever bytes were received and
\* whatever lay beyond them: fcgi_strtok_s finds every stretch between separators,
\* and of two with one key the last one counts.
THEOREM ParamsAreRight == Spec => []ParamsMatchQuery
<1>1. RequestInv => ParamsMatchQuery
    BY StretchKeys DEF RequestInv
<1> QED BY <1>1, RequestAlways, PTL

\* Where the fields are laid out in the string, the last one with a key is found.
LEMMA Found ==
    ASSUME ParamInv, NEW fields \in Seq(Sendable), NEW a, Layout(query, fields, Len(fields), a),
           NEW k
    PROVE  LET is == {i \in DOMAIN fields : fields[i].key = k}
           IN  ParameterForNameWithDefault(k, "NULL") =
                   IF is = {} THEN "NULL"
                   ELSE fields[CHOOSE i \in is : \A j \in is : j <= i].value
<1> DEFINE text(x) == SubSeq(query, x[1], x[2])
           key(x)  == Until(Eq, text(x))
           n       == Len(fields)
           S       == Stretches(query)
           is      == {i \in DOMAIN fields : fields[i].key = k}
           last    == CHOOSE i \in is : \A j \in is : j <= i
<1>1. /\ DOMAIN params = {key(x) : x \in S}
      /\ \A x \in S : \/ params[key(x)] = After(Eq, text(x))
                      \/ \E y \in S : y[1] > x[1] /\ key(y) = key(x)
    BY StretchKeys DEF ParamsMatchQuery
<1>2. /\ a \in [1 .. n -> Nat \X Nat]
      /\ \A i \in 1 .. n : IsStretch(query, a[i][1], a[i][2])
      /\ \A i \in 1 .. n : text(a[i]) = FieldText(fields[i])
      /\ \A i, j \in 1 .. n : i < j => a[i][1] < a[j][1]
      /\ \A i, j : IsStretch(query, i, j) => \E m \in 1 .. n : a[m][1] = i /\ a[m][2] = j
    BY DEF Layout
<1>3. DOMAIN fields = 1 .. n /\ n \in Nat /\ query \in Seq(Text)
    BY DEF ParamInv
<1>4. \A i \in 1 .. n : key(a[i]) = fields[i].key /\ After(Eq, text(a[i])) = fields[i].value
    <2>1. ASSUME NEW i \in 1 .. n
          PROVE  key(a[i]) = fields[i].key /\ After(Eq, text(a[i])) = fields[i].value
        <3>1. fields[i] \in Sendable
            BY <1>3
        <3> QED BY <1>2, <3>1, SendableIs
    <2> QED BY <2>1
<1>5. \A i \in 1 .. n : a[i] \in S
    <2>1. ASSUME NEW i \in 1 .. n PROVE a[i] \in S
        <3>1. a[i] \in Nat \X Nat /\ IsStretch(query, a[i][1], a[i][2])
            BY <1>2
        <3>2. a[i] = <<a[i][1], a[i][2]>>
            BY <3>1
        <3> QED BY <1>3, <3>1, <3>2, StretchesAre
    <2> QED BY <2>1
<1>6. \A x \in S : \E i \in 1 .. n : a[i] = x
    <2>1. ASSUME NEW x \in S PROVE \E i \in 1 .. n : a[i] = x
        <3>1. x \in Nat \X Nat /\ x = <<x[1], x[2]>> /\ IsStretch(query, x[1], x[2])
            BY <1>3, StretchesAre
        <3>2. PICK i \in 1 .. n : a[i][1] = x[1] /\ a[i][2] = x[2]
            BY <1>2, <3>1
        <3>3. a[i] \in Nat \X Nat
            BY <1>2
        <3> QED BY <3>1, <3>2, <3>3
    <2> QED BY <2>1
<1> HIDE DEF S
<1>7. k \in DOMAIN params <=> is # {}
    <2>1. ASSUME k \in DOMAIN params PROVE is # {}
        <3>1. PICK x \in S : k = key(x)
            BY <1>1, <2>1
        <3>2. PICK i \in 1 .. n : a[i] = x
            BY <1>6
        <3>3. i \in is
            BY <1>3, <1>4, <3>1, <3>2
        <3> QED BY <3>3
    <2>2. ASSUME NEW i \in is PROVE k \in DOMAIN params
        <3>1. i \in 1 .. n /\ key(a[i]) = k /\ a[i] \in S
            BY <1>3, <1>4, <1>5
        <3> HIDE DEF key
        <3> QED BY <1>1, <3>1
    <2> QED BY <2>1, <2>2
<1>8. ASSUME is # {} PROVE params[k] = fields[last].value
    <2>1. is \subseteq 0 .. n
        BY <1>3
    <2>2. \E x \in is : \A y \in is : y <= x
        <3> HIDE DEF is, n
        <3> QED BY <1>3, <1>8, <2>1, Greatest
    <2>3. last \in is /\ \A j \in is : j <= last
        BY <2>2
    <2> HIDE DEF last
    <2>4. last \in 1 .. n /\ a[last] \in S /\ key(a[last]) = k /\ After(Eq, text(a[last])) = fields[last].value
        BY <1>3, <1>4, <1>5, <2>3
    <2>5. ASSUME NEW y \in S, y[1] > a[last][1], key(y) = k PROVE FALSE
        <3>1. PICK i \in 1 .. n : a[i] = y
            BY <1>6
        <3>2. i \in is
            BY <1>3, <1>4, <2>5, <3>1
        <3>3. i <= last /\ i \in Int /\ last \in Int
            BY <2>3, <2>4, <3>2
        <3>4. CASE i = last
            <4>1. a[last] \in Nat \X Nat
                BY <1>2, <2>4
            <4> QED BY <2>5, <3>1, <3>4, <4>1
        <3>5. CASE i < last
            <4>1. a[i][1] < a[last][1] /\ a[i] \in Nat \X Nat /\ a[last] \in Nat \X Nat
                BY <1>2, <2>4, <3>5
            <4> QED BY <2>5, <3>1, <4>1
        <3> QED BY <3>3, <3>4, <3>5
    <2> HIDE DEF key
    <2> QED BY <1>1, <2>4, <2>5
<1> QED BY <1>7, <1>8 DEF ParameterForNameWithDefault

\* What a client has sent is what the application finds, for any list of fields and
\* any way to escape them.
THEOREM SentIsFoundAlways == Spec => []SentIsFound
<1>1. RequestInv => SentIsFound
    <2> SUFFICES ASSUME RequestInv PROVE SentIsFound
        OBVIOUS
    <2>0. ParamInv /\ SentInv
        BY DEF RequestInv
    <2>1. ASSUME NEW fields \in meant, NEW k
          PROVE  LET is == {i \in DOMAIN fields : fields[i].key = k}
                 IN  ParameterForNameWithDefault(k, "NULL") =
                         IF is = {} THEN "NULL"
                         ELSE fields[CHOOSE i \in is : \A j \in is : j <= i].value
        <3>1. fields \in Seq(Sendable)
            BY <2>0, RequestAssumption DEF ParamInv
        <3>2. PICK a : Layout(query, fields, Len(fields), a)
            BY <2>0 DEF SentInv
        <3> QED BY <2>0, <3>1, <3>2, Found
    <2> QED BY <2>1 DEF SentIsFound
<1> QED BY <1>1, RequestAlways, PTL

\* An iteration that next() has ended has shown every parameter of the request once
\* and no other, for every query string and after any unfinished iteration or
\* refused request before it.
THEOREM IterationShowsAll == Spec => []IterationIsComplete
<1>1. RequestInv => IterationIsComplete
    <2> SUFFICES ASSUME IterInv PROVE IterationIsComplete
        BY DEF RequestInv
    <2>1. Len(order) \in Nat /\ pos \in 1 .. Len(order) + 1 /\ DOMAIN seen = 1 .. pos - 1
        BY DEF IterInv, OrderInv, SeenInv
    <2>2. \A i \in DOMAIN seen : i \in 1 .. Len(order) /\ seen[i] = Entry(order[i])
        BY <2>1 DEF IterInv, SeenInv
    <2>3. \A i, j \in DOMAIN seen : i # j => seen[i][1] # seen[j][1]
        <3>1. \A i \in DOMAIN seen : i \in 1 .. Len(order) /\ seen[i][1] = order[i]
            BY <2>2 DEF Entry
        <3>2. \A i, j \in 1 .. Len(order) : i # j => order[i] # order[j]
            BY DEF IterInv, OrderInv
        <3> QED BY <3>1, <3>2
    <2>4. ASSUME done PROVE Range(seen) = Entries
        <3>1. DOMAIN seen = 1 .. Len(order)
            BY <2>1, <2>4 DEF IterInv, SeenInv
        <3>2. \A k \in DOMAIN params : \E i \in DOMAIN seen : seen[i] = Entry(k)
            BY <3>1, <2>2 DEF IterInv, OrderInv
        <3>3. \A i \in DOMAIN seen : seen[i] \in Entries
            BY <2>2 DEF IterInv, OrderInv, Entries
        <3> QED BY <3>2, <3>3 DEF Range, Entries
    <2> QED BY <2>3, <2>4 DEF IterationIsComplete, Entries, Entry
<1> QED BY <1>1, RequestAlways, PTL
=============================================================================
