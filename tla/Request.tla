------------------------------- MODULE Request -------------------------------
(***************************************************************************)
(* The Request object of a worker: NcServer::serve hands it one query string *)
(* after the other (src/ncserver.cpp); setQueryString decodes it (util.cpp), *)
(* splits it (stdafx.cpp) and fills the map and the iterator that the        *)
(* application reads (static_string_map.cpp).                               *)
(*                                                                         *)
(* Bytes are numbers.  Strings are sequences without the final NUL; memory   *)
(* that is read as a C string is a sequence with NULs in it.                 *)
(***************************************************************************)
EXTENDS Integers, Sequences, SequencesExt

CONSTANTS
    UrlMax,    \* URL_MAX_LENGTH
    Raw,       \* query strings of no particular meaning
    Sent,      \* lists of fields a client may encode: key, value, with "=" or not
    Beyond,    \* what may lie in memory after the NUL of the query string
    Junk       \* what an uninitialized digit may decode to

NUL     == 0
Percent == 37
Amp     == 38
Eq      == 61
Byte    == 0 .. 255

\* setQueryString decodes before it splits, so that an "&" in a field, or a "=" in
\* a key, is not what its client has meant; nor is there a field without anything.
Sendable == {f \in [key : Seq(Byte \ {NUL, Amp, Eq}), value : Seq(Byte \ {NUL, Amp}),
                    eq : BOOLEAN] : f.eq \/ (f.key # <<>> /\ f.value = <<>>)}

ASSUME RequestAssumption ==
    /\ UrlMax \in Nat \ {0}
    /\ Raw \subseteq Seq(Byte \ {NUL}) /\ Sent \subseteq Seq(Sendable)
    /\ Beyond \subseteq Seq(Byte) /\ Junk \subseteq Byte

VARIABLES
    query,     \* m_queryString
    params,    \* m_params
    order,     \* the order in which the map is iterated
    pos,       \* m_i of the iterator, an index of order
    seen,      \* what next() has returned since _init or reset
    done,      \* has next() returned false since then?
    reply,     \* what became of the last request
    meant      \* the fields its client has sent, if there was such a client

iterVars == <<order, pos, seen, done>>
vars     == <<query, params, iterVars, reply, meant>>

\* In particular the iterator stays between the first entry and the end.
TypeOK ==
    /\ query \in Seq(Byte \ {NUL}) /\ Len(query) < UrlMax
    /\ DOMAIN params \subseteq Seq(Byte) /\ Range(params) \subseteq Seq(Byte)
    /\ Range(order) = DOMAIN params /\ pos \in 1 .. Len(order) + 1
    /\ seen \in Seq(Seq(Byte) \X Seq(Byte)) /\ done \in BOOLEAN
    /\ reply \in {"none", "414", "query"}
    /\ meant \subseteq Sent

Init ==
    /\ query = <<>> /\ params = <<>> /\ order = <<>> /\ pos = 1 /\ seen = <<>>
    /\ done = FALSE /\ reply = "none" /\ meant = {}

-----------------------------------------------------------------------------
(* Strings.                                                                *)

\* What comes before and after the first c (strchr).
Until(c, s) == LET hits == {i \in DOMAIN s : s[i] = c}
               IN  IF hits = {} THEN s
                   ELSE SubSeq(s, 1, (CHOOSE i \in hits : \A j \in hits : i <= j) - 1)
After(c, s) == SubSeq(s, Len(Until(c, s)) + 2, Len(s))

Hex(c) == CASE c \in 48 .. 57  -> c - 48
            [] c \in 97 .. 102 -> c - 87
            [] c \in 65 .. 70  -> c - 55
            [] OTHER           -> -1

Unescape(hi, lo, junk) ==
    IF Hex(hi) >= 0 /\ Hex(lo) >= 0 THEN 16 * Hex(hi) + Hex(lo) ELSE junk

\* urlDecode into a buffer of that size: a "%" consumes two more bytes, even the
\* NUL; the last byte that fits gives way to the NUL.
UrlDecode(mem, size, junk) ==
    LET At(i) == IF i <= Len(mem) THEN mem[i] ELSE NUL
        Decoded[i \in 1 .. Len(mem) + 3] ==
            IF At(i) = NUL THEN <<>> ELSE
            IF At(i) = Percent
            THEN <<Unescape(At(i + 1), At(i + 2), junk)>> \o Decoded[i + 3]
            ELSE <<At(i)>> \o Decoded[i + 1]
        d == Decoded[1]
    IN  IF Len(d) < size THEN d ELSE SubSeq(d, 1, size - 1)

\* An empty token ends the loop.
TokensNoSkip(s) ==
    LET From[i \in 1 .. Len(s) + 2] ==
            IF i > Len(s) \/ s[i] = Amp THEN <<>> ELSE
            LET token == Until(Amp, SubSeq(s, i, Len(s)))
            IN  <<token>> \o From[i + Len(token) + 1]
    IN  From[1]

\* The calls of fcgi_strtok_s: separators before a token are skipped.
Tokens(s) ==
    LET From[i \in 1 .. Len(s) + 2] ==
            IF i > Len(s) THEN <<>> ELSE
            IF s[i] = Amp THEN From[i + 1] ELSE
            LET token == Until(Amp, SubSeq(s, i, Len(s)))
            IN  <<token>> \o From[i + Len(token) + 1]
    IN  From[1]

\* The map with one more entry: "key=value", or "key" alone.
With(map, token) ==
    [k \in {Until(Eq, token)} \cup DOMAIN map |->
        IF k = Until(Eq, token) THEN After(Eq, token) ELSE map[k]]

-----------------------------------------------------------------------------
(* One request after the other.                                            *)

SetQueryString(mem, junk) ==
    /\ query' = Until(NUL, UrlDecode(mem, UrlMax, junk))
    /\ params' = FoldLeft(With, <<>>, Tokens(query'))
    /\ order' \in SetToSeqs(DOMAIN params')
    /\ pos' = 1 /\ seen' = <<>> /\ done' = FALSE

\* The length check forgets the NUL that has to fit as well.
ServeOffByOne(q, fields) ==
    \/ /\ Len(q) > UrlMax /\ reply' = "414"
       /\ UNCHANGED <<query, params, iterVars, meant>>
    \/ /\ Len(q) <= UrlMax /\ reply' = "query" /\ meant' = fields
       /\ \E b \in Beyond, j \in Junk : SetQueryString(q \o <<NUL>> \o b, j)

\* One round of the loop in serve: the length check, then setQueryString.
Serve(q, fields) ==
    \/ /\ Len(q) >= UrlMax /\ reply' = "414"
       /\ UNCHANGED <<query, params, iterVars, meant>>
    \/ /\ Len(q) < UrlMax /\ reply' = "query" /\ meant' = fields
       /\ \E b \in Beyond, j \in Junk : SetQueryString(q \o <<NUL>> \o b, j)

\* A client escapes what it wants, "%" always, and joins the fields with "&".
HexDigit(n) == IF n < 10 THEN 48 + n ELSE 87 + n
Escapes(b)  == {<<Percent, HexDigit(b \div 16), HexDigit(b % 16)>>}
                   \cup {s \in {<<b>>} : b # Percent}
Joins(A, B) == {x[1] \o x[2] : x \in A \X B}
Encodings(text) == FoldLeft(LAMBDA acc, b : Joins(acc, Escapes(b)), {<<>>}, text)
FieldStrings(f) ==
    Joins(Encodings(f.key), IF f.eq THEN Joins({<<Eq>>}, Encodings(f.value)) ELSE {<<>>})
QueryStrings(fields) ==
    FoldLeft(LAMBDA acc, f : Joins(IF acc = {<<>>} THEN acc ELSE Joins(acc, {<<Amp>>}),
                                   FieldStrings(f)), {<<>>}, fields)

-----------------------------------------------------------------------------
(* What the application does with the request in query().                  *)

ParameterForNameWithDefault(k, default) ==
    IF k \in DOMAIN params THEN params[k] ELSE default

\* next() moves on even when it has reached the end.
IterNextPast ==
    /\ reply = "query" /\ pos' = pos + 1
    /\ IF pos <= Len(order)
       THEN /\ seen' = Append(seen, <<order[pos], params[order[pos]]>>)
            /\ UNCHANGED done
       ELSE done' = TRUE /\ UNCHANGED seen
    /\ UNCHANGED <<query, params, order, reply, meant>>

IterNext ==
    /\ reply = "query"
    /\ \/ /\ pos <= Len(order) /\ pos' = pos + 1
          /\ seen' = Append(seen, <<order[pos], params[order[pos]]>>)
          /\ UNCHANGED done
       \/ pos > Len(order) /\ done' = TRUE /\ UNCHANGED <<pos, seen>>
    /\ UNCHANGED <<query, params, order, reply, meant>>

\* reset goes back by one entry only.
IterResetOne ==
    /\ reply = "query"
    /\ pos' = (IF pos > 1 THEN pos - 1 ELSE 1) /\ seen' = <<>> /\ done' = FALSE
    /\ UNCHANGED <<query, params, order, reply, meant>>

IterReset ==
    /\ reply = "query"
    /\ pos' = 1 /\ seen' = <<>> /\ done' = FALSE
    /\ UNCHANGED <<query, params, order, reply, meant>>

Next ==
    \/ \E q \in Raw : Serve(q, {})
    \/ \E fields \in Sent : \E q \in QueryStrings(fields) : Serve(q, {fields})
    \/ IterNext \/ IterReset

Spec == Init /\ [][Next]_vars

-----------------------------------------------------------------------------
(* Properties.                                                             *)

\* What a client has sent is what parameterForName finds, however it escaped it:
\* the value of the last field with that key, "" for a key without a value, and
\* nothing for a key it did not send.  It needs the length check of serve (or
\* the last byte is cut off), the end of the string (nothing beyond the NUL is
\* read), and a map that forgets the request before.  An "&" in a field, or a
\* "=" in a key, is beyond it: setQueryString decodes before it splits.
SentIsFound ==
    \A fields \in meant : \A k \in {f.key : f \in UNION {Range(l) : l \in Sent}} :
        LET is == {i \in DOMAIN fields : fields[i].key = k}
        IN  ParameterForNameWithDefault(k, "NULL") =
                IF is = {} THEN "NULL"
                ELSE fields[CHOOSE i \in is : \A j \in is : j <= i].value

\* Whatever was received, the parameters are the longest stretches of the
\* decoded string without an "&"; of two with one key the last one counts.
Stretches(s) ==
    {x \in (DOMAIN s) \X (DOMAIN s) :
        /\ x[1] <= x[2] /\ \A n \in x[1] .. x[2] : s[n] # Amp
        /\ x[1] = 1 \/ s[x[1] - 1] = Amp
        /\ x[2] = Len(s) \/ s[x[2] + 1] = Amp}
ParamsMatchQuery ==
    LET text(x) == SubSeq(query, x[1], x[2])
        key(x)  == Until(Eq, text(x))
    IN  /\ DOMAIN params = {key(x) : x \in Stretches(query)}
        /\ \A x \in Stretches(query) :
              \/ params[key(x)] = After(Eq, text(x))
              \/ \E y \in Stretches(query) : y[1] > x[1] /\ key(y) = key(x)

\* An iteration that next() has ended, since the request came or since reset(),
\* has shown every parameter of this request once, and no other.
IterationIsComplete ==
    /\ \A i, j \in DOMAIN seen : i # j => seen[i][1] # seen[j][1]
    /\ done => Range(seen) = {<<k, params[k]>> : k \in DOMAIN params}
=============================================================================
