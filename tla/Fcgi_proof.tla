------------------------------ MODULE Fcgi_proof ------------------------------
(***************************************************************************)
(* The streams of a request.  First their buffers: for every size of them,   *)
(* every request, however it is cut into records, reads and writes, and      *)
(* under every fault, none is overrun.  Then the reader: where in the        *)
(* requests it is after any steps, and what it has got from them.            *)
(***************************************************************************)
EXTENDS Fcgi, Induction, SequenceTheorems, TLAPS

OutUnit == Unit \cup {<<"room">>}
Phases  == {"accept", "begin", "params", "serve", "finish"}
Readers == [buf : Seq(Unit), avail : Nat, len : Nat, pad : Nat, skip : BOOLEAN,
            closed : BOOLEAN, err : BOOLEAN, sub : {"none", "body", "values"},
            at : {"top", "padding", "header", "process"}, hdr : Seq(Unit)]
Writers == [buf : Seq(OutUnit), raw : BOOLEAN, any : BOOLEAN, err : BOOLEAN]
Counts  == [id : Nat, keep : BOOLEAN, begun : BOOLEAN, writers : 0 .. 2]

\* What has been handed to the caller is in the buffer, and a header that is to be
\* processed is complete.
Fits(b, n, h, at) ==
    /\ n <= Len(b) /\ Len(b) <= BuffLen
    /\ Len(h) <= HeaderLen /\ (at = "process" => Len(h) = HeaderLen)
Sound(r) == r \in Readers /\ Fits(r.buf, r.avail, r.hdr, r.at)
ReaderInv == Sound(in) /\ wire \in Seq(Unit) /\ req \in Counts

\* Who may be at work in which phase.
PhaseInv ==
    /\ phase \in Phases /\ want \in 0 .. MaxWanted
    /\ wpc \in {"idle", "put", "empty", "write", "end"}
    /\ in.sub = "body" => phase = "begin"
    /\ phase = "accept" => in.sub = "none"
    /\ phase \in {"params", "serve", "finish"} => req.begun
    /\ want > 0 => phase = "serve"
    /\ wpc # "idle" => phase \in {"serve", "finish"}
    /\ wpc = "end" => phase = "finish"

\* Each buffer keeps room for its header until it is written raw; the writers that
\* are counted are those that have not been closed.
Roomy(s, o, writing) ==
    /\ o \in Writers /\ Len(o.buf) <= BuffLen
    /\ ~o.raw => Len(o.buf) >= HeaderLen \/ (writing /\ Len(o.buf) = 0)
WriterInv ==
    /\ DOMAIN out = Streams
    /\ \A s \in Streams : Roomy(s, out[s], s = w /\ wpc = "write")
    /\ w \in Streams /\ todo \in Seq(OutUnit) /\ pos \in Nat
    /\ handed \in [Streams -> Nat]

Unclosed(s) == IF out[s].raw THEN 0 ELSE 1
CountInv ==
    /\ phase # "finish" => \A s \in Streams : ~out[s].raw
    /\ phase \in {"serve", "finish"} => req.writers = Unclosed("err") + Unclosed("out")

TalkInv ==
    /\ count \in Nat /\ conn \in {"none", "open", "cut", "closed"}
    /\ conn # "none" => count \in 1 .. Len(Talks) /\ talk \in Talks[count]
    /\ phase # "accept" => conn # "none"

FcgiInv == ReaderInv /\ PhaseInv /\ WriterInv /\ CountInv /\ TalkInv

-----------------------------------------------------------------------------
(* Sequences and records.                                                  *)

LEMMA RestIs ==
    ASSUME NEW S, NEW s \in Seq(S), NEW n \in 0 .. Len(s)
    PROVE  Rest(s, n) \in Seq(S) /\ Len(Rest(s, n)) = Len(s) - n
BY DEF Rest

LEMMA FirstIs ==
    ASSUME NEW S, NEW s \in Seq(S), NEW n \in 0 .. Len(s)
    PROVE  SubSeq(s, 1, n) \in Seq(S) /\ Len(SubSeq(s, 1, n)) = n
OBVIOUS

LEMMA JoinIs ==
    ASSUME NEW S, NEW s \in Seq(S), NEW t \in Seq(S)
    PROVE  s \o t \in Seq(S) /\ Len(s \o t) = Len(s) + Len(t)
OBVIOUS

LEMMA HeaderIs ==
    ASSUME NEW type \in Types, NEW id \in Nat, NEW len \in Nat, NEW pad \in Nat
    PROVE  /\ Header(type, id, len, pad) \in Seq(OutUnit)
           /\ Len(Header(type, id, len, pad)) = HeaderLen
BY DEF Header, OutUnit, Unit, HeaderLen

LEMMA ContentIs ==
    ASSUME NEW d \in Seq(Nat)
    PROVE  Content(d) \in Seq(OutUnit) /\ Len(Content(d)) = Len(d)
BY DEF Content, OutUnit, Unit

LEMMA PaddingIs ==
    ASSUME NEW n \in Nat
    PROVE  Padding(n) \in Seq(OutUnit) /\ Len(Padding(n)) = n
BY DEF Padding, OutUnit, Unit

LEMMA NewIs == Sound(NewReader) /\ \A s \in Streams, b \in BOOLEAN : Roomy(s, NewWriter, b)
<1>1. BuffLen \in Nat /\ BuffLen > 2
    BY FcgiAssumption
<1>2. <<>> \in Seq(Unit) /\ Len(<<>>) = 0
    OBVIOUS
<1>3. Room \in Seq(OutUnit) /\ Len(Room) = HeaderLen
    BY DEF Room, HeaderLen, OutUnit
<1>4. Sound(NewReader)
    BY <1>1, <1>2 DEF Sound, Fits, NewReader, Readers, HeaderLen
<1>5. NewWriter \in Writers
    BY <1>3 DEF NewWriter, Writers
<1>6. Len(NewWriter.buf) = HeaderLen
    BY <1>3 DEF NewWriter
<1>7. ASSUME NEW s, NEW b \in BOOLEAN PROVE Roomy(s, NewWriter, b)
    BY <1>1, <1>5, <1>6 DEF Roomy, HeaderLen
<1> QED BY <1>4, <1>7

-----------------------------------------------------------------------------
(* The reader.                                                             *)

LEMMA FcgiInit == Init => FcgiInv
<1> SUFFICES ASSUME Init PROVE FcgiInv
    OBVIOUS
<1>1. ReaderInv
    BY NewIs DEF Init, ReaderInv, Counts
<1>2. PhaseInv
    BY TalkAssumption DEF Init, PhaseInv, Phases, NewReader
<1>3. WriterInv
    <2>1. /\ DOMAIN out = Streams /\ \A s \in Streams : out[s] = NewWriter
          /\ handed \in [Streams -> Nat]
        BY DEF Init
    <2>2. w \in Streams /\ todo \in Seq(OutUnit) /\ pos \in Nat
        BY DEF Init, Streams
    <2>3. \A s \in Streams : Roomy(s, out[s], s = w /\ wpc = "write")
        BY <2>1, NewIs
    <2> QED BY <2>1, <2>2, <2>3 DEF WriterInv
<1>4. CountInv /\ TalkInv
    BY DEF Init, CountInv, TalkInv, NewWriter
<1> QED BY <1>1, <1>2, <1>3, <1>4 DEF FcgiInv

\* A step that leaves the writers alone keeps what holds of them.
LEMMA WritersKept ==
    ASSUME WriterInv, UNCHANGED writeVars
    PROVE  WriterInv'
BY DEF WriterInv, writeVars

\* An error ends the stream.
LEMMA FailedSound ==
    ASSUME NEW r, Sound(r)
    PROVE  Sound(Failed(r)) /\ Failed(r).sub = r.sub
<1>1. Failed(r) \in Readers /\ Failed(r).sub = r.sub
    BY <<>> \in Seq(Unit) DEF Failed, Readers, Sound
<1>2. Failed(r).buf = r.buf /\ Failed(r).avail = r.avail
    BY DEF Failed, Readers, Sound
<1>3. Failed(r).hdr = <<>> /\ Failed(r).at = "top"
    BY DEF Failed, Readers, Sound
<1>4. Fits(r.buf, r.avail, <<>>, "top")
    BY Len(<<>>) = 0 DEF Fits, Sound, HeaderLen
<1> QED BY <1>1, <1>2, <1>3, <1>4 DEF Sound

\* What a step of the reader keeps that may go on with what it was reading, or give it up.
LEMMA ReaderKept ==
    ASSUME FcgiInv, Sound(in'), in'.sub \in {in.sub, "none"} \/ (in'.sub = "values" /\ phase # "accept"),
           wire' \in Seq(Unit),
           UNCHANGED <<phase, want, req, writeVars, conn, talk, count>>
    PROVE  FcgiInv'
<1>1. ReaderInv'
    BY DEF FcgiInv, ReaderInv
<1>2. PhaseInv'
    BY DEF FcgiInv, PhaseInv, writeVars
<1>3. CountInv' /\ TalkInv'
    BY DEF FcgiInv, CountInv, TalkInv, Unclosed, writeVars
<1> QED BY <1>1, <1>2, <1>3, WritersKept DEF FcgiInv

LEMMA ReadKeeps == ASSUME FcgiInv, Read PROVE FcgiInv'
<1>1. /\ in \in Readers /\ in.avail = 0 /\ Len(in.hdr) <= HeaderLen /\ in.at = "top"
      /\ BuffLen \in Nat
    BY FcgiAssumption DEF FcgiInv, ReaderInv, Sound, Fits, Read, Filling
<1>2. ASSUME NEW n \in OneOrAll(Smaller(BuffLen, Len(wire))),
             in' = [in EXCEPT !.buf = SubSeq(wire, 1, n)], wire' = Rest(wire, n)
      PROVE  Sound(in') /\ in'.sub = in.sub /\ wire' \in Seq(Unit)
    <2>1. wire \in Seq(Unit) /\ Len(wire) \in Nat
        BY DEF FcgiInv, ReaderInv
    <2>2. n \in 0 .. Len(wire) /\ n <= BuffLen
        BY <1>1, <2>1 DEF OneOrAll, Smaller
    <2> DEFINE b == SubSeq(wire, 1, n)
    <2>3. b \in Seq(Unit) /\ Len(b) = n
        BY <2>1, <2>2, FirstIs
    <2>4. in' = [in EXCEPT !.buf = b]
        BY <1>2
    <2> HIDE DEF b
    <2>5. /\ in' \in Readers /\ in'.sub = in.sub /\ in'.buf = b /\ in'.avail = in.avail
          /\ in'.hdr = in.hdr /\ in'.at = in.at
        BY <1>1, <2>3, <2>4 DEF Readers
    <2>6. Fits(b, in.avail, in.hdr, in.at)
        BY <1>1, <2>2, <2>3 DEF Fits
    <2>7. wire' \in Seq(Unit)
        BY <1>2, <2>1, <2>2, RestIs
    <2> QED BY <2>5, <2>6, <2>7 DEF Sound
<1>3. ASSUME in' = Failed(in), UNCHANGED wire
      PROVE  Sound(in') /\ in'.sub = in.sub /\ wire' \in Seq(Unit)
    BY <1>3, FailedSound DEF FcgiInv, ReaderInv
<1>4. Sound(in') /\ in'.sub = in.sub /\ wire' \in Seq(Unit)
    BY <1>2, <1>3 DEF Read
<1> QED BY <1>4, ReaderKept DEF Read

\* A step that is the reader's alone.
LEMMA ReaderAlone ==
    ASSUME FcgiInv, NEW r, Sound(r), Reader(r),
           r.sub \in {in.sub, "none"} \/ (r.sub = "values" /\ phase # "accept")
    PROVE  FcgiInv'
BY ReaderKept DEF Reader, peerVars, FcgiInv, ReaderInv

\* A reader that is put together from sound parts.
Parts(r, b, n, l, p, h, at) ==
    /\ r \in Readers /\ r.sub = in.sub
    /\ r.buf = b /\ r.avail = n /\ r.len = l /\ r.pad = p /\ r.hdr = h /\ r.at = at

LEMMA PartsAlone ==
    ASSUME FcgiInv, NEW r, NEW b, NEW n, NEW l, NEW p, NEW h, NEW at,
           Parts(r, b, n, l, p, h, at), Fits(b, n, h, at), Reader(r)
    PROVE  FcgiInv'
<1>1. Sound(r)
    BY DEF Parts, Sound
<1> QED BY <1>1, ReaderAlone DEF Parts

\* FillBuffProc moves on within the record.
LEMMA FillKeeps ==
    ASSUME FcgiInv, FillContent \/ FillPadding \/ FillHeader
    PROVE  FcgiInv'
<1>1. /\ in \in Readers /\ in.buf \in Seq(Unit) /\ in.hdr \in Seq(Unit)
      /\ in.len \in Nat /\ in.pad \in Nat
    BY DEF FcgiInv, ReaderInv, Sound, Readers
<1>2. in.avail = 0 /\ in.at # "process"
    BY DEF Filling, FillContent, FillPadding, FillHeader
<1>3. Fits(in.buf, in.avail, in.hdr, in.at)
    BY DEF FcgiInv, ReaderInv, Sound
<1>4. /\ Len(in.buf) \in Nat /\ Len(in.hdr) \in Nat /\ BuffLen \in Nat
      /\ Len(in.buf) <= BuffLen /\ Len(in.hdr) <= HeaderLen
    BY <1>1, <1>3, FcgiAssumption DEF Fits
<1>5. \A n \in 0 .. Len(in.buf) :
          Rest(in.buf, n) \in Seq(Unit) /\ Len(Rest(in.buf, n)) = Len(in.buf) - n
    BY <1>1, RestIs
<1>6. CASE FillContent
    <2> DEFINE n  == Smaller(in.len, Len(in.buf))
               b  == Rest(in.buf, n)
               l  == in.len - n
               sk == n < in.len
               at == IF n < in.len THEN "top" ELSE "padding"
    <2>1. n \in 0 .. Len(in.buf) /\ l \in Nat /\ sk \in BOOLEAN /\ at \in {"top", "padding"}
        BY <1>1, <1>4 DEF Smaller
    <2>2. b \in Seq(Unit) /\ Len(b) = Len(in.buf) - n
        BY <1>5, <2>1
    <2>3. \/ Reader([in EXCEPT !.at = "padding"])
          \/ Reader([in EXCEPT !.avail = n, !.len = l])
          \/ Reader([in EXCEPT !.buf = b, !.len = l, !.skip = sk, !.at = at])
        BY <1>6 DEF FillContent
    <2>4. /\ Fits(in.buf, 0, in.hdr, "padding") /\ Fits(in.buf, n, in.hdr, in.at)
          /\ Fits(b, 0, in.hdr, at)
        BY <1>2, <1>4, <2>1, <2>2 DEF Fits
    <2>5. n \in Nat
        BY <2>1
    <2> HIDE DEF n, b, l, sk, at
    <2>6. Parts([in EXCEPT !.at = "padding"], in.buf, 0, in.len, in.pad, in.hdr, "padding")
        BY <1>1, <1>2 DEF Parts, Readers
    <2>7. Parts([in EXCEPT !.avail = n, !.len = l], in.buf, n, l, in.pad, in.hdr, in.at)
        BY <1>1, <2>1, <2>5 DEF Parts, Readers
    <2>8. Parts([in EXCEPT !.buf = b, !.len = l, !.skip = sk, !.at = at],
                b, 0, l, in.pad, in.hdr, at)
        BY <1>1, <1>2, <2>1, <2>2 DEF Parts, Readers
    <2> QED BY <2>3, <2>4, <2>6, <2>7, <2>8, PartsAlone
<1>7. CASE FillPadding
    <2> DEFINE n  == Smaller(in.pad, Len(in.buf))
               b  == Rest(in.buf, n)
               p  == in.pad - n
               at == IF n < in.pad THEN "top" ELSE "header"
    <2>1. n \in 0 .. Len(in.buf) /\ p \in Nat /\ at \in {"top", "header"}
        BY <1>1, <1>4 DEF Smaller
    <2>2. b \in Seq(Unit) /\ Len(b) = Len(in.buf) - n
        BY <1>5, <2>1
    <2>3. Reader([in EXCEPT !.buf = b, !.pad = p, !.at = at])
        BY <1>7 DEF FillPadding
    <2>4. Fits(b, 0, in.hdr, at)
        BY <1>4, <2>1, <2>2 DEF Fits
    <2> HIDE DEF n, b, p, at
    <2>5. Parts([in EXCEPT !.buf = b, !.pad = p, !.at = at], b, 0, in.len, p, in.hdr, at)
        BY <1>1, <1>2, <2>1, <2>2 DEF Parts, Readers
    <2> QED BY <2>3, <2>4, <2>5, PartsAlone
<1>8. CASE FillHeader
    <2> DEFINE m  == HeaderLen - Len(in.hdr)
               n  == Smaller(m, Len(in.buf))
               b  == Rest(in.buf, n)
               h  == in.hdr \o SubSeq(in.buf, 1, n)
               at == IF Len(in.hdr) + n < HeaderLen THEN "top" ELSE "process"
    <2>0. m \in Nat /\ Len(in.hdr) + m = HeaderLen
        BY <1>4 DEF HeaderLen
    <2>1. n \in 0 .. Len(in.buf) /\ Len(in.hdr) + n <= HeaderLen /\ at \in {"top", "process"}
        <3> HIDE DEF m
        <3>1. n \in 0 .. Len(in.buf) /\ n <= m
            BY <1>4, <2>0 DEF Smaller
        <3> HIDE DEF n
        <3> QED BY <1>4, <2>0, <3>1 DEF HeaderLen
    <2>2. b \in Seq(Unit) /\ Len(b) = Len(in.buf) - n
        BY <1>5, <2>1
    <2>3. h \in Seq(Unit) /\ Len(h) = Len(in.hdr) + n
        BY <1>1, <2>1, FirstIs, JoinIs
    <2>4. \/ Reader([in EXCEPT !.closed = TRUE, !.at = "top"])
          \/ Reader([in EXCEPT !.buf = b, !.hdr = h, !.at = at])
        BY <1>8 DEF FillHeader
    <2>5. Fits(in.buf, 0, in.hdr, "top") /\ Fits(b, 0, h, at)
        BY <1>4, <2>1, <2>2, <2>3 DEF Fits, HeaderLen
    <2> HIDE DEF n, b, h, at
    <2>6. Parts([in EXCEPT !.closed = TRUE, !.at = "top"], in.buf, 0, in.len, in.pad, in.hdr, "top")
        BY <1>1, <1>2 DEF Parts, Readers
    <2>7. Parts([in EXCEPT !.buf = b, !.hdr = h, !.at = at], b, 0, in.len, in.pad, h, at)
        BY <1>1, <1>2, <2>1, <2>2, <2>3 DEF Parts, Readers
    <2> QED BY <2>4, <2>5, <2>6, <2>7, PartsAlone
<1> QED BY <1>6, <1>7, <1>8

\* A header that is one has numbers where they belong.
LEMMA HeaderRead ==
    ASSUME FcgiInv, Filling("process"), IsHeader
    PROVE  HdrId \in Nat /\ in.hdr[2][2] \in Nat /\ in.hdr[2][3] \in Nat
<1>1. in.hdr \in Seq(Unit) /\ Len(in.hdr) = 2
    BY DEF FcgiInv, ReaderInv, Sound, Fits, Readers, Filling, HeaderLen
<1>2. in.hdr[1] \in Unit /\ in.hdr[2] \in Unit
    BY <1>1
<1>3. in.hdr[1] \in {"type"} \X Types \X Nat /\ in.hdr[2] \in {"len"} \X Nat \X Nat
    BY <1>2 DEF IsHeader, Unit
<1> QED BY <1>3 DEF HdrId

LEMMA AtHeaderSound ==
    ASSUME FcgiInv, Filling("process"), IsHeader, NEW b \in BOOLEAN,
           NEW s \in {"none", "body", "values"}
    PROVE  /\ Sound(AtHeader) /\ AtHeader.sub = in.sub
           /\ Sound([AtHeader EXCEPT !.skip = b]) /\ [AtHeader EXCEPT !.skip = b].sub = in.sub
           /\ Sound([AtHeader EXCEPT !.closed = b]) /\ [AtHeader EXCEPT !.closed = b].sub = in.sub
           /\ Sound([AtHeader EXCEPT !.sub = s]) /\ [AtHeader EXCEPT !.sub = s].sub = s
<1> DEFINE l == in.hdr[2][2]
           p == in.hdr[2][3]
           h == AtHeader
<1>1. in \in Readers /\ l \in Nat /\ p \in Nat /\ Len(in.buf) \in Nat
    BY HeaderRead DEF FcgiInv, ReaderInv, Sound, Readers
<1>2. Fits(in.buf, in.avail, <<>>, "top")
    BY Len(<<>>) = 0 DEF FcgiInv, ReaderInv, Sound, Fits, HeaderLen
<1>3. h = [in EXCEPT !.len = l, !.pad = p, !.hdr = <<>>, !.at = "top"]
    BY DEF AtHeader
<1> HIDE DEF l, p
<1>4. /\ h \in Readers /\ h.sub = in.sub
      /\ h.buf = in.buf /\ h.avail = in.avail /\ h.hdr = <<>> /\ h.at = "top"
    BY <1>1, <1>3, <<>> \in Seq(Unit) DEF Readers
<1> HIDE DEF h
<1> DEFINE Same(q) == /\ q \in Readers /\ q.buf = in.buf /\ q.avail = in.avail
                      /\ q.hdr = <<>> /\ q.at = "top"
<1>5. Same(h) /\ h.sub = in.sub
    BY <1>4
<1>6. Same([h EXCEPT !.skip = b]) /\ [h EXCEPT !.skip = b].sub = in.sub
    BY <1>4 DEF Readers
<1>7. Same([h EXCEPT !.closed = b]) /\ [h EXCEPT !.closed = b].sub = in.sub
    BY <1>4 DEF Readers
<1>8. Same([h EXCEPT !.sub = s]) /\ [h EXCEPT !.sub = s].sub = s
    BY <1>4 DEF Readers
<1>9. \A q : Same(q) => Sound(q)
    BY <1>2 DEF Sound
<1> HIDE DEF Same
<1> QED BY <1>5, <1>6, <1>7, <1>8, <1>9 DEF h

\* An answer of the library's own, or the error that it could not be sent.
LEMMA ReplyKeeps ==
    ASSUME FcgiInv, NEW r, Sound(r), r.sub \in {in.sub, "none"}, NEW units, Reply(r, units)
    PROVE  FcgiInv'
<1>1. Sound(Failed(in)) /\ Failed(in).sub = in.sub
    BY FailedSound DEF FcgiInv, ReaderInv
<1>2. Sound([Failed(in) EXCEPT !.sub = "none"]) /\ [Failed(in) EXCEPT !.sub = "none"].sub = "none"
    BY <1>1 DEF Sound, Readers
<1>3. Sound(in') /\ in'.sub \in {in.sub, "none"}
    BY <1>2 DEF Reply
<1>4. wire' \in Seq(Unit)
    BY DEF Reply, FcgiInv, ReaderInv
<1> QED BY <1>3, <1>4, ReaderKept DEF Reply

LEMMA ProcessKeeps == ASSUME FcgiInv, ProcessHeader PROVE FcgiInv'
<1>0. in.sub \in {in.sub, "none"} /\ Sound(in)
    BY DEF FcgiInv, ReaderInv
<1>1. CASE ProcessWrong
    BY <1>0, <1>1, FailedSound, ReaderAlone DEF ProcessWrong
<1>2. CASE ProcessBegin
    <2>1. Filling("process") /\ IsHeader /\ in.sub = in.sub
        BY <1>2 DEF ProcessBegin, IsRecord
    <2>2. Sound(in') /\ in'.sub = "body" /\ HdrId \in Nat
        BY <1>2, <2>1, AtHeaderSound, HeaderRead DEF ProcessBegin
    <2>3. req' \in Counts /\ req'.writers = req.writers /\ req'.begun = req.begun
        BY <1>2, <2>2 DEF ProcessBegin, FcgiInv, ReaderInv, Counts
    <2>4. ReaderInv'
        BY <1>2, <2>2, <2>3 DEF ProcessBegin, FcgiInv, ReaderInv, peerVars
    <2>5. phase = "begin"
        BY <1>2, <2>1 DEF ProcessBegin, Filling, Wanted, FcgiInv, PhaseInv, Phases
    <2>6. PhaseInv'
        BY <1>2, <2>2, <2>3, <2>5 DEF ProcessBegin, FcgiInv, PhaseInv, writeVars
    <2>7. CountInv' /\ TalkInv'
        BY <1>2, <2>3, <2>5 DEF ProcessBegin, FcgiInv, CountInv, TalkInv, writeVars, peerVars
    <2> QED BY <1>2, <2>4, <2>6, <2>7, WritersKept DEF ProcessBegin, FcgiInv
<1>3. CASE ProcessSecondBegin
    BY <1>0, <1>3, AtHeaderSound, ReplyKeeps DEF ProcessSecondBegin, IsRecord
<1>4. CASE ProcessOther
    BY <1>0, <1>4, AtHeaderSound, ReaderAlone DEF ProcessOther
<1>5. CASE ProcessValues
    <2>1. phase # "accept"
        BY <1>5 DEF ProcessValues, IsRecord, Filling, Wanted, FcgiInv, PhaseInv
    <2> QED BY <1>5, <2>1, AtHeaderSound, ReaderAlone DEF ProcessValues, IsRecord
<1>6. CASE ProcessUnknown
    BY <1>0, <1>6, AtHeaderSound, ReplyKeeps DEF ProcessUnknown
<1>7. CASE ProcessStream
    <2>1. (AtHeader.len = 0) \in BOOLEAN
        OBVIOUS
    <2> QED BY <1>0, <1>7, <2>1, AtHeaderSound, ReaderAlone DEF ProcessStream
<1> QED BY <1>1, <1>2, <1>3, <1>4, <1>5, <1>6, <1>7 DEF ProcessHeader

-----------------------------------------------------------------------------
(* FCGX_Accept_r, the application and the web server.                      *)

\* The caller has taken n units, of those that were there for it.
LEMMA TakenSound ==
    ASSUME FcgiInv, NEW n \in 0 .. in.avail,
           in' = [in EXCEPT !.buf = Rest(@, n), !.avail = in.avail - n]
    PROVE  Sound(in') /\ in'.sub = in.sub
<1> DEFINE b == Rest(in.buf, n)
           a == in.avail - n
<1>1. /\ in \in Readers /\ in.buf \in Seq(Unit) /\ Len(in.buf) \in Nat /\ in.avail \in Nat
      /\ Fits(in.buf, in.avail, in.hdr, in.at)
    BY DEF FcgiInv, ReaderInv, Sound, Readers
<1>2. in.avail <= Len(in.buf)
    BY <1>1 DEF Fits
<1>3. n \in 0 .. Len(in.buf) /\ a \in Nat
    BY <1>1, <1>2
<1>4. b \in Seq(Unit) /\ Len(b) = Len(in.buf) - n
    BY <1>1, <1>3, RestIs
<1>5. Fits(b, a, in.hdr, in.at)
    BY <1>1, <1>3, <1>4, FcgiAssumption DEF Fits
<1>6. in' = [in EXCEPT !.buf = b, !.avail = a]
    OBVIOUS
<1> HIDE DEF a, b
<1>7. /\ in' \in Readers /\ in'.buf = b /\ in'.avail = a /\ in'.hdr = in.hdr /\ in'.at = in.at
      /\ in'.sub = in.sub
    BY <1>1, <1>3, <1>4, <1>6 DEF Readers
<1> QED BY <1>5, <1>7 DEF Sound

\* The reader of the next stream has what the one before has left in the buffer.
LEMMA NextStreamSound ==
    ASSUME FcgiInv
    PROVE  Sound(SetReaderType(in)) /\ SetReaderType(in).sub = "none"
<1> DEFINE r == SetReaderType(in)
<1>1. in \in Readers /\ Len(in.buf) \in Nat /\ Fits(in.buf, in.avail, in.hdr, in.at)
    BY DEF FcgiInv, ReaderInv, Sound, Readers
<1>2. Fits(in.buf, 0, in.hdr, "top")
    BY <1>1 DEF Fits
<1>3. /\ r \in Readers /\ r.sub = "none" /\ r.buf = in.buf /\ r.avail = 0
      /\ r.hdr = in.hdr /\ r.at = "top"
    BY <1>1 DEF SetReaderType, Readers
<1> QED BY <1>2, <1>3 DEF Sound

\* The connection is closed and the worker starts again.
LEMMA TryAgainKeeps ==
    ASSUME FcgiInv, TryAgain, phase \in {"begin", "params"}
    PROVE  FcgiInv'
<1>1. req' \in Counts
    BY DEF TryAgain, Close, FcgiInv, ReaderInv, Counts
<1>2. ReaderInv'
    BY <1>1, NewIs, <<>> \in Seq(Unit) DEF TryAgain, Close, ReaderInv
<1>3. PhaseInv'
    BY DEF TryAgain, Close, FcgiInv, PhaseInv, NewReader, Phases, writeVars
<1>4. CountInv' /\ TalkInv'
    BY DEF TryAgain, Close, FcgiInv, CountInv, TalkInv, writeVars
<1> QED BY <1>2, <1>3, <1>4, WritersKept DEF FcgiInv, TryAgain

LEMMA AcceptKeeps == ASSUME FcgiInv, AcceptStep PROVE FcgiInv'
<1>1. CASE Accept
    <2>1. ReaderInv'
        BY <1>1 DEF Accept, FcgiInv, ReaderInv, readVars, peerVars
    <2>2. PhaseInv'
        BY <1>1 DEF Accept, FcgiInv, PhaseInv, Phases, readVars, writeVars
    <2>3. CountInv' /\ TalkInv'
        BY <1>1 DEF Accept, FcgiInv, CountInv, TalkInv, Unclosed, writeVars, peerVars
    <2> QED BY <1>1, <2>1, <2>2, <2>3, WritersKept DEF FcgiInv, Accept
<1>2. CASE Take
    <2>1. in.avail \in Nat /\ in.avail - in.avail = 0
        BY DEF FcgiInv, ReaderInv, Sound, Readers
    <2>2. in' = [in EXCEPT !.buf = Rest(@, in.avail), !.avail = in.avail - in.avail]
        BY <1>2, <2>1 DEF Take
    <2>3. in.avail \in 0 .. in.avail
        BY <2>1
    <2>4. Sound(in') /\ in'.sub = in.sub
        BY <2>2, <2>3, TakenSound
    <2> QED BY <1>2, <2>4, ReaderKept DEF Take, peerVars, FcgiInv, ReaderInv
<1>3. CASE Begun
    <2>1. phase = "begin"
        BY <1>3 DEF Begun, FcgiInv, PhaseInv
    <2>2. CASE TryAgain
        BY <2>1, <2>2, TryAgainKeeps
    <2>3. CASE /\ phase' = "params" /\ in' = SetReaderType(in)
               /\ req' = [req EXCEPT !.keep = got[2][2] = 1, !.begun = TRUE]
               /\ UNCHANGED <<want, params, writeVars, peerVars>>
        <3>1. req' \in Counts /\ req'.begun
            BY <2>3 DEF FcgiInv, ReaderInv, Counts
        <3>2. ReaderInv'
            BY <2>3, <3>1, NextStreamSound DEF FcgiInv, ReaderInv, peerVars
        <3>3. PhaseInv'
            BY <2>1, <2>3, <3>1, NextStreamSound DEF FcgiInv, PhaseInv, Phases, writeVars
        <3>4. CountInv' /\ TalkInv'
            BY <2>1, <2>3 DEF FcgiInv, CountInv, TalkInv, writeVars, peerVars
        <3> QED BY <2>3, <3>2, <3>3, <3>4, WritersKept DEF FcgiInv
    <2> QED BY <1>3, <2>2, <2>3 DEF Begun
<1>4. CASE NotBegun
    BY <1>4, TryAgainKeeps DEF NotBegun
<1>5. CASE ValuesRead
    <2>1. Sound(in) /\ in \in Readers
        BY DEF FcgiInv, ReaderInv, Sound
    <2>2. CASE \E units : Reply([in EXCEPT !.sub = "none", !.closed = FALSE], units)
        <3> DEFINE r == [in EXCEPT !.sub = "none", !.closed = FALSE]
        <3>1. Sound(r) /\ r.sub = "none"
            BY <2>1 DEF Sound, Readers
        <3> QED BY <2>2, <3>1, ReplyKeeps
    <2>3. CASE Reader([Failed(in) EXCEPT !.sub = "none"])
        <3> DEFINE r == [Failed(in) EXCEPT !.sub = "none"]
        <3>1. Sound(Failed(in))
            BY <2>1, FailedSound
        <3>2. Sound(r) /\ r.sub = "none"
            BY <3>1 DEF Sound, Readers
        <3> QED BY <2>3, <3>2, ReaderAlone
    <2> QED BY <1>5, <2>2, <2>3 DEF ValuesRead
<1>6. CASE ParamsRead
    <2>1. phase = "params"
        BY <1>6 DEF ParamsRead
    <2>2. CASE TryAgain
        BY <2>1, <2>2, TryAgainKeeps
    <2>3. CASE /\ phase' = "serve" /\ in' = SetReaderType(in)
               /\ req' = [req EXCEPT !.writers = 2]
               /\ UNCHANGED <<want, writeVars, peerVars>>
        <3>1. req' \in Counts /\ req'.begun = req.begun /\ req'.writers = 2
            BY <2>3 DEF FcgiInv, ReaderInv, Counts
        <3>2. ReaderInv'
            BY <2>3, <3>1, NextStreamSound DEF FcgiInv, ReaderInv, peerVars
        <3>3. PhaseInv'
            BY <2>1, <2>3, <3>1, NextStreamSound DEF FcgiInv, PhaseInv, Phases, writeVars
        <3>4. CountInv' /\ TalkInv'
            BY <2>1, <2>3, <3>1
            DEF FcgiInv, CountInv, TalkInv, Unclosed, Streams, writeVars, peerVars
        <3> QED BY <2>3, <3>2, <3>3, <3>4, WritersKept DEF FcgiInv
    <2> QED BY <1>6, <2>2, <2>3 DEF ParamsRead
<1> QED BY <1>1, <1>2, <1>3, <1>4, <1>5, <1>6 DEF AcceptStep

LEMMA PeerKeeps == ASSUME FcgiInv, Request \/ Cut PROVE FcgiInv'
<1>1. CASE Request
    <2>1. count' \in 1 .. Len(Talks) /\ talk' \in Talks[count'] /\ conn' = "open"
        BY <1>1, TalkAssumption DEF Request, FcgiInv, TalkInv
    <2>2. wire' \in Seq(Unit)
        BY <1>1, <2>1, TalkAssumption DEF Request, FcgiInv, ReaderInv
    <2>3. ReaderInv'
        BY <1>1, <2>2 DEF Request, FcgiInv, ReaderInv, readVars
    <2>4. PhaseInv'
        BY <1>1 DEF Request, FcgiInv, PhaseInv, readVars
    <2>5. WriterInv'
        BY <1>1 DEF Request, FcgiInv, WriterInv
    <2>6. CountInv' /\ TalkInv'
        BY <1>1, <2>1 DEF Request, FcgiInv, CountInv, TalkInv, Unclosed
    <2> QED BY <2>3, <2>4, <2>5, <2>6 DEF FcgiInv
<1>2. CASE Cut
    <2>1. wire' \in Seq(Unit)
        BY <1>2, <<>> \in Seq(Unit) DEF Cut, FcgiInv, ReaderInv
    <2>2. ReaderInv'
        BY <1>2, <2>1 DEF Cut, FcgiInv, ReaderInv, readVars
    <2>3. PhaseInv'
        BY <1>2 DEF Cut, FcgiInv, PhaseInv, readVars, writeVars
    <2>4. CountInv' /\ TalkInv'
        BY <1>2 DEF Cut, FcgiInv, CountInv, TalkInv, Unclosed, writeVars
    <2> QED BY <1>2, <2>2, <2>3, <2>4, WritersKept DEF FcgiInv, Cut
<1> QED BY <1>1, <1>2

LEMMA AppKeeps == ASSUME FcgiInv, AppStep PROVE FcgiInv'
<1>0. /\ Sound(in) /\ in \in Readers /\ in.avail \in Nat
      /\ want \in Nat /\ want <= MaxWanted /\ MaxWanted \in Nat
    BY TalkAssumption DEF FcgiInv, ReaderInv, PhaseInv, Sound, Readers
\* What none of them changes.
<1>1. ASSUME Sound(in'), in'.sub = in.sub, want' \in 0 .. MaxWanted, phase = "serve",
             UNCHANGED <<phase, params, req, writeVars, peerVars>>
      PROVE  FcgiInv'
    <2>1. ReaderInv'
        BY <1>1 DEF FcgiInv, ReaderInv, peerVars
    <2>2. PhaseInv'
        BY <1>1 DEF FcgiInv, PhaseInv, writeVars
    <2>3. CountInv' /\ TalkInv'
        BY <1>1 DEF FcgiInv, CountInv, TalkInv, Unclosed, writeVars, peerVars
    <2> QED BY <1>1, <2>1, <2>2, <2>3, WritersKept DEF FcgiInv
<1>2. CASE AppRead
    BY <1>0, <1>1, <1>2 DEF AppRead, Free
<1>3. CASE AppTakes
    <2> DEFINE n == Smaller(want, in.avail)
    <2>1. n \in 0 .. in.avail /\ want - n \in 0 .. MaxWanted
        BY <1>0 DEF Smaller
    <2>2. /\ in' = [in EXCEPT !.buf = Rest(@, n), !.avail = in.avail - n]
          /\ want' = want - n
        BY <1>0, <1>3 DEF AppTakes, Readers
    <2> HIDE DEF n
    <2>3. Sound(in') /\ in'.sub = in.sub
        BY <2>1, <2>2, TakenSound
    <2> QED BY <1>1, <1>3, <2>1, <2>2, <2>3 DEF AppTakes
<1>4. CASE AppEnd
    BY <1>0, <1>1, <1>4 DEF AppEnd
<1>5. CASE Finish
    <2>1. ReaderInv'
        BY <1>5 DEF Finish, FcgiInv, ReaderInv, readVars, peerVars
    <2>2. PhaseInv'
        BY <1>5 DEF Finish, Free, FcgiInv, PhaseInv, Phases, readVars
    <2>3. WriterInv'
        BY <1>5 DEF Finish, Free, FcgiInv, WriterInv, Streams, Roomy
    <2>4. CountInv' /\ TalkInv'
        BY <1>5 DEF Finish, Free, FcgiInv, CountInv, TalkInv, Unclosed, peerVars
    <2> QED BY <2>1, <2>2, <2>3, <2>4 DEF FcgiInv
<1> QED BY <1>2, <1>3, <1>4, <1>5 DEF AppStep

LEMMA AnswerKeeps ==
    ASSUME FcgiInv, NEW s \in Streams, AppWrite(s) \/ AppFlush(s)
    PROVE  FcgiInv'
<1>1. /\ phase = "serve" /\ wpc = "idle" /\ UNCHANGED <<phase, readVars, req, out, pos, peerVars>>
      /\ w' = s /\ wpc' \in {"put", "empty"}
    BY DEF AppWrite, AppFlush, Free
<1>2. todo' \in Seq(OutUnit) /\ handed' \in [Streams -> Nat]
    <2>1. CASE AppFlush(s)
        BY <2>1 DEF AppFlush, FcgiInv, WriterInv
    <2>2. CASE AppWrite(s)
        <3>1. MaxHanded[talk][s] \in Nat /\ handed \in [Streams -> Nat]
            BY <1>1, TalkAssumption DEF FcgiInv, TalkInv, WriterInv
        <3>2. PICK n \in 1 .. MaxHanded[talk][s] - handed[s] :
                  /\ todo' = Content(Numbered(handed[s], n))
                  /\ handed' = [handed EXCEPT ![s] = @ + n]
            BY <2>2 DEF AppWrite
        <3>3. n \in Nat /\ handed[s] \in Nat
            BY <3>1
        <3>4. Numbered(handed[s], n) \in Seq(Nat)
            BY <3>3 DEF Numbered
        <3> QED BY <3>1, <3>2, <3>3, <3>4, ContentIs
    <2> QED BY <2>1, <2>2
<1>3. ReaderInv'
    BY <1>1 DEF FcgiInv, ReaderInv, readVars, peerVars
<1>4. PhaseInv'
    BY <1>1 DEF FcgiInv, PhaseInv, readVars
<1>5. WriterInv'
    BY <1>1, <1>2 DEF FcgiInv, WriterInv, Roomy
<1>6. CountInv' /\ TalkInv'
    BY <1>1 DEF FcgiInv, CountInv, TalkInv, Unclosed, peerVars
<1> QED BY <1>3, <1>4, <1>5, <1>6 DEF FcgiInv

-----------------------------------------------------------------------------
(* The writer in use.                                                      *)

\* A step that puts o in its place, within EmptyBuffProc and what calls it.
LEMMA WriterKept ==
    ASSUME FcgiInv, NEW o, Writer(o), wpc # "idle", Roomy(w, o, wpc' = "write"),
           todo' \in Seq(OutUnit), pos' \in Nat,
           wpc' \in {"idle", "put", "empty", "write", "end"},
           wpc' = "end" => phase = "finish",
           \/ o.raw = out[w].raw /\ UNCHANGED req
           \/ /\ phase = "finish" /\ ~out[w].raw /\ o.raw
              /\ req' = [req EXCEPT !.writers = @ - 1]
    PROVE  FcgiInv'
<1>1. /\ out' = [out EXCEPT ![w] = o] /\ DOMAIN out = Streams /\ w \in Streams
      /\ UNCHANGED <<phase, in, want, w, handed, wire, conn, talk, count>>
      /\ phase \in {"serve", "finish"}
    BY DEF Writer, FcgiInv, WriterInv, PhaseInv, readVars
<1>2. DOMAIN out' = Streams /\ out'[w] = o /\ \A s \in Streams \ {w} : out'[s] = out[s]
    BY <1>1
<1>3. /\ o \in Writers /\ o.raw \in BOOLEAN
      /\ \A s \in Streams : out[s] \in Writers /\ out[s].raw \in BOOLEAN
    BY DEF Roomy, Writers, FcgiInv, WriterInv
<1>4. req \in Counts /\ req.writers = Unclosed("err") + Unclosed("out")
    BY <1>1 DEF FcgiInv, ReaderInv, CountInv
<1>5. /\ req' \in Counts /\ req'.begun = req.begun
      /\ req'.writers = Unclosed("err")' + Unclosed("out")'
    <2>1. CASE o.raw = out[w].raw /\ UNCHANGED req
        BY <1>1, <1>2, <1>4, <2>1 DEF Unclosed, Streams
    <2>2. CASE ~out[w].raw /\ o.raw /\ req' = [req EXCEPT !.writers = @ - 1]
        <3>1. Unclosed(w) = 1 /\ Unclosed(w)' = 0
            BY <1>1, <1>2, <2>2 DEF Unclosed
        <3>2. \A s \in Streams : Unclosed(s) \in {0, 1} /\ (s # w => Unclosed(s)' = Unclosed(s))
            BY <1>2 DEF Unclosed
        <3>3. w = "err" \/ w = "out"
            BY <1>1 DEF Streams
        <3>4. /\ Unclosed("err")' + Unclosed("out")' = Unclosed("err") + Unclosed("out") - 1
              /\ Unclosed("err") + Unclosed("out") \in 1 .. 2
            BY <3>1, <3>2, <3>3, <1>1 DEF Streams
        <3>5. req.writers \in 1 .. 2 /\ req.writers - 1 \in 0 .. 2
            BY <1>4, <3>4
        <3>6. req'.writers = req.writers - 1
            BY <1>4, <2>2 DEF Counts
        <3>7. req' \in Counts /\ req'.begun = req.begun
            BY <1>4, <2>2, <3>5 DEF Counts
        <3>8. req'.writers = Unclosed("err")' + Unclosed("out")'
            BY <1>4, <3>2, <3>4, <3>6 DEF Streams, Counts
        <3> QED BY <3>7, <3>8
    <2> QED BY <2>1, <2>2
<1>6. ReaderInv'
    BY <1>1, <1>5 DEF FcgiInv, ReaderInv
<1>7. PhaseInv'
    BY <1>1, <1>5 DEF FcgiInv, PhaseInv
<1>8. WriterInv'
    <2>1. \A s \in Streams : Roomy(s, out'[s], s = w /\ wpc' = "write")
        BY <1>2 DEF FcgiInv, WriterInv, Roomy
    <2> QED BY <1>1, <1>2, <2>1 DEF FcgiInv, WriterInv
<1>9. CountInv' /\ TalkInv'
    BY <1>1, <1>2, <1>5 DEF FcgiInv, CountInv, TalkInv
<1> QED BY <1>6, <1>7, <1>8, <1>9 DEF FcgiInv

\* What holds of the writer in use.
LEMMA InUse ==
    ASSUME FcgiInv
    PROVE  /\ w \in Streams /\ out[w] \in Writers /\ Buf \in Seq(OutUnit)
           /\ Len(Buf) \in Nat /\ Len(Buf) <= BuffLen /\ BuffLen \in Nat
           /\ todo \in Seq(OutUnit) /\ Len(todo) \in Nat
           /\ ~out[w].raw /\ wpc # "write" => Len(Buf) >= HeaderLen
BY FcgiAssumption DEF FcgiInv, WriterInv, Roomy, Writers, Buf

LEMMA PutKeeps == ASSUME FcgiInv, Put PROVE FcgiInv'
<1> DEFINE n    == Smaller(Len(todo), BuffLen - Len(Buf))
           left == Rest(todo, n)
           b    == Buf \o SubSeq(todo, 1, n)
           o    == [out[w] EXCEPT !.buf = b]
<1>1. n \in 0 .. Len(todo) /\ Len(Buf) + n <= BuffLen
    BY InUse DEF Smaller
<1>2. b \in Seq(OutUnit) /\ Len(b) = Len(Buf) + n /\ left \in Seq(OutUnit)
    BY <1>1, InUse, FirstIs, JoinIs, RestIs, SMTT(40)
<1>3. wpc = "put" /\ Writer(o) /\ UNCHANGED <<req, pos>>
    BY DEF Put, Buf
<1>4. /\ wpc' \in {"idle", "write", "empty"} /\ todo' \in {<<>>, left}
    BY DEF Put, Back
<1>5. Len(b) <= BuffLen /\ (Len(Buf) >= HeaderLen => Len(b) >= HeaderLen)
    BY <1>1, <1>2, InUse DEF HeaderLen
<1> HIDE DEF n, left, b
<1>6. o \in Writers /\ o.raw = out[w].raw /\ o.buf = b
    BY <1>2, InUse DEF Writers
<1>7. Roomy(w, o, wpc' = "write")
    BY <1>3, <1>5, <1>6, InUse DEF Roomy
<1>8. todo' \in Seq(OutUnit) /\ pos' \in Nat
    BY <1>2, <1>3, <1>4, <<>> \in Seq(OutUnit) DEF FcgiInv, WriterInv
<1> QED BY <1>3, <1>4, <1>6, <1>7, <1>8, WriterKept

\* What goes into a header.
LEMMA IdsAre == FcgiInv => req.id \in Nat /\ w \in Types
<1>1. FcgiInv => req.id \in Nat
    BY DEF FcgiInv, ReaderInv, Counts
<1>2. FcgiInv => w \in Types
    BY DEF FcgiInv, WriterInv, Types
<1> QED BY <1>1, <1>2

\* The header takes the room that was kept for it, and the padding an even buffer has.
LEMMA EncapsulatedIs ==
    ASSUME FcgiInv, wpc = "empty", ~out[w].raw
    PROVE  /\ Encapsulated(Buf) \in Seq(OutUnit)
           /\ Len(Encapsulated(Buf)) <= BuffLen
           /\ Len(Encapsulated(Buf)) = 0 \/ Len(Encapsulated(Buf)) >= HeaderLen
<1> DEFINE c == Len(Buf) - HeaderLen
           h == Header(w, req.id, c, c % 2)
           d == Rest(Buf, HeaderLen)
           p == Padding(c % 2)
<1>1. /\ Len(Buf) \in Nat /\ Len(Buf) >= HeaderLen /\ Len(Buf) <= BuffLen /\ Buf \in Seq(OutUnit)
      /\ BuffLen \in Nat /\ BuffLen % 2 = 0
    BY InUse, FcgiAssumption
<1>2. c \in Nat /\ c % 2 \in Nat /\ HeaderLen \in 0 .. Len(Buf) /\ c + 2 + (c % 2) <= BuffLen
    BY <1>1 DEF HeaderLen
<1>3. req.id \in Nat /\ w \in Types
    BY IdsAre
<1>4. h \in Seq(OutUnit) /\ Len(h) = HeaderLen
    BY <1>2, <1>3, HeaderIs
<1>5. d \in Seq(OutUnit) /\ Len(d) = c
    BY <1>1, <1>2, RestIs
<1>6. p \in Seq(OutUnit) /\ Len(p) = c % 2
    BY <1>2, PaddingIs
<1>7. Encapsulated(Buf) \in {<<>>, h \o d \o p}
    BY DEF Encapsulated
<1> HIDE DEF h, d, p
<1>8. h \o d \in Seq(OutUnit) /\ Len(h \o d) = HeaderLen + c
    BY <1>2, <1>4, <1>5, JoinIs
<1>9. h \o d \o p \in Seq(OutUnit) /\ Len(h \o d \o p) = HeaderLen + c + (c % 2)
    BY <1>6, <1>8, JoinIs, SMTT(40)
<1>10. <<>> \in Seq(OutUnit) /\ Len(<<>>) = 0
    OBVIOUS
<1>11. HeaderLen + c + (c % 2) <= BuffLen /\ HeaderLen + c + (c % 2) >= HeaderLen
    BY <1>1, <1>2 DEF HeaderLen
<1>12. CASE Encapsulated(Buf) = <<>>
    BY <1>1, <1>10, <1>12
<1>13. CASE Encapsulated(Buf) = h \o d \o p
    BY <1>9, <1>11, <1>13
<1> QED BY <1>7, <1>12, <1>13

LEMMA CloseRecordsIs == ASSUME FcgiInv, NEW b PROVE CloseRecords(b) \in Seq(OutUnit)
<1>0. "end" \in Types
    BY DEF Types
<1>1. req.id \in Nat /\ w \in Types
    BY IdsAre
<1>2. <<>> \in Seq(OutUnit) /\ <<0, 0>> \in Seq(Nat)
    OBVIOUS
<1>3. Header(w, req.id, 0, 0) \in Seq(OutUnit) /\ Header("end", req.id, 2, 0) \in Seq(OutUnit)
    BY <1>0, <1>1, HeaderIs
<1>4. Header("end", req.id, 2, 0) \o Content(<<0, 0>>) \in Seq(OutUnit)
    BY <1>2, <1>3, ContentIs, JoinIs
<1> DEFINE x == Header(w, req.id, 0, 0)
           y == Header("end", req.id, 2, 0) \o Content(<<0, 0>>)
<1>5. CloseRecords(b) \in {<<>> \o <<>>, <<>> \o y, x \o <<>>, x \o y}
    BY DEF CloseRecords
<1> HIDE DEF x, y
<1>6. x \in Seq(OutUnit) /\ y \in Seq(OutUnit)
    BY <1>3, <1>4 DEF x, y
<1> QED BY <1>2, <1>5, <1>6, JoinIs

LEMMA EmptyKeeps == ASSUME FcgiInv, Empty PROVE FcgiInv'
<1> DEFINE b == IF out[w].raw THEN Buf ELSE Encapsulated(Buf)
           o == [out[w] EXCEPT !.buf = b]
           r == [out[w] EXCEPT !.buf = b, !.raw = TRUE]
<1>1. wpc = "empty" /\ pos' = 0 /\ out[w] \in Writers /\ out[w].raw \in BOOLEAN
    BY InUse DEF Empty, Writers
<1>2. b \in Seq(OutUnit) /\ Len(b) <= BuffLen /\ (~out[w].raw => Len(b) = 0 \/ Len(b) >= HeaderLen)
    BY <1>1, InUse, EncapsulatedIs
<1>3. \/ /\ Closing /\ ~out[w].raw /\ Writer(r) /\ todo' = CloseRecords(b)
         /\ req' = [req EXCEPT !.writers = @ - 1] /\ wpc' = "put"
      \/ Writer(o) /\ wpc' = "write" /\ UNCHANGED <<todo, req>>
    BY DEF Empty
<1> HIDE DEF b
<1>4. o \in Writers /\ o.raw = out[w].raw /\ o.buf = b
    BY <1>1, <1>2 DEF Writers
<1>5. r \in Writers /\ r.raw /\ r.buf = b
    BY <1>1, <1>2 DEF Writers
<1>6. Roomy(w, o, TRUE) /\ Roomy(w, r, FALSE)
    BY <1>2, <1>4, <1>5 DEF Roomy
<1>7. todo' \in Seq(OutUnit) /\ pos' \in Nat
    BY <1>1, <1>3, CloseRecordsIs, InUse
<1>8. CASE Writer(o) /\ wpc' = "write" /\ UNCHANGED req
    BY <1>1, <1>4, <1>6, <1>7, <1>8, WriterKept
<1>9. CASE /\ Closing /\ ~out[w].raw /\ Writer(r)
           /\ req' = [req EXCEPT !.writers = @ - 1] /\ wpc' = "put"
    BY <1>1, <1>5, <1>6, <1>7, <1>9, WriterKept DEF Closing
<1> QED BY <1>3, <1>8, <1>9

LEMMA WriteKeeps == ASSUME FcgiInv, Write \/ WriteFails \/ WriteDone PROVE FcgiInv'
<1>1. wpc = "write" /\ pos \in Nat /\ UNCHANGED <<todo, req>>
    BY DEF Write, WriteFails, WriteDone, FcgiInv, WriterInv
<1>2. Written \in {"idle", "put", "end"} /\ (Written = "end" => phase = "finish")
    BY DEF Written, Back, Closing
<1>3. Roomy(w, out[w], TRUE) /\ out[w] \in Writers /\ out[w].raw \in BOOLEAN
    BY <1>1 DEF FcgiInv, WriterInv, Roomy, Writers
<1>4. CASE Write
    <2> DEFINE o == [out[w] EXCEPT !.any = TRUE]
    <2>1. Writer(o) /\ wpc' = "write"
        BY <1>1, <1>4 DEF Write
    <2>2. pos' \in Nat
        BY <1>1, <1>4, InUse DEF Write, OneOrAll
    <2>3. o \in Writers /\ o.raw = out[w].raw /\ o.buf = out[w].buf
        BY <1>3 DEF Writers
    <2>4. Roomy(w, o, wpc' = "write")
        BY <1>3, <2>1, <2>3 DEF Roomy
    <2> QED BY <1>1, <2>1, <2>2, <2>3, <2>4, InUse, WriterKept
<1>5. CASE WriteFails
    <2> DEFINE o == [out[w] EXCEPT !.any = TRUE, !.err = TRUE]
    <2>1. Writer(o) /\ wpc' = Written /\ pos' = 0 /\ pos < Len(Buf)
        BY <1>5 DEF WriteFails
    <2>2. o \in Writers /\ o.raw = out[w].raw /\ o.buf = out[w].buf
        BY <1>3 DEF Writers
    <2>3. Len(out[w].buf) # 0
        BY <1>1, <2>1 DEF Buf
    <2>4. Roomy(w, o, wpc' = "write")
        BY <1>3, <2>2, <2>3 DEF Roomy
    <2> QED BY <1>1, <1>2, <2>1, <2>2, <2>4, InUse, WriterKept
<1>6. CASE WriteDone
    <2> DEFINE b == IF out[w].raw THEN <<>> ELSE Room
               o == [out[w] EXCEPT !.buf = b]
    <2>1. Writer(o) /\ wpc' = Written /\ pos' = 0
        BY <1>6 DEF WriteDone
    <2>2. b \in Seq(OutUnit) /\ Len(b) <= BuffLen /\ (~out[w].raw => Len(b) = HeaderLen)
        <3>1. Room \in Seq(OutUnit) /\ Len(Room) = HeaderLen
            BY DEF Room, HeaderLen, OutUnit
        <3>2. <<>> \in Seq(OutUnit) /\ Len(<<>>) = 0
            OBVIOUS
        <3>3. HeaderLen <= BuffLen /\ 0 <= BuffLen
            BY FcgiAssumption DEF HeaderLen
        <3>4. CASE out[w].raw
            BY <3>2, <3>3, <3>4
        <3>5. CASE ~out[w].raw
            BY <3>1, <3>3, <3>5
        <3> QED BY <3>4, <3>5
    <2> HIDE DEF b
    <2>3. o \in Writers /\ o.raw = out[w].raw /\ o.buf = b
        BY <1>3, <2>2 DEF Writers
    <2> HIDE DEF o
    <2>4. Roomy(w, o, wpc' = "write")
        <3>1. BuffLen \in Nat /\ o.raw \in BOOLEAN /\ Len(o.buf) <= BuffLen
            BY <1>3, <2>2, <2>3, FcgiAssumption
        <3>2. ASSUME ~o.raw PROVE Len(o.buf) >= HeaderLen
            <4>1. ~out[w].raw
                BY <2>3, <3>2
            <4>2. Len(b) = HeaderLen
                BY <2>2, <4>1
            <4> QED BY <2>3, <4>2 DEF HeaderLen
        <3> QED BY <2>3, <3>1, <3>2 DEF Roomy
    <2> QED BY <1>1, <1>2, <2>1, <2>3, <2>4, InUse, WriterKept
<1> QED BY <1>4, <1>5, <1>6

LEMMA ClosedKeeps == ASSUME FcgiInv, StreamClosed \/ Finished PROVE FcgiInv'
<1>1. phase = "finish" /\ wpc = "end" /\ want = 0
    BY DEF StreamClosed, Finished, FcgiInv, PhaseInv
<1>2. CASE StreamClosed
    <2>1. ReaderInv'
        BY <1>2 DEF StreamClosed, FcgiInv, ReaderInv, readVars, peerVars
    <2>2. PhaseInv'
        BY <1>2, <1>1 DEF StreamClosed, FcgiInv, PhaseInv, readVars
    <2>3. WriterInv'
        BY <1>2 DEF StreamClosed, FcgiInv, WriterInv, Streams, Roomy
    <2>4. CountInv' /\ TalkInv'
        BY <1>2 DEF StreamClosed, FcgiInv, CountInv, TalkInv, Unclosed, peerVars
    <2> QED BY <2>1, <2>2, <2>3, <2>4 DEF FcgiInv
<1>3. CASE Finished
    <2>1. /\ phase' \in {"accept", "begin"} /\ in' = NewReader /\ want' = 0 /\ wpc' = "idle"
          /\ req' = [req EXCEPT !.begun = FALSE]
          /\ (wire' = <<>> /\ conn' = "closed") \/ UNCHANGED <<wire, conn>>
          /\ UNCHANGED <<w, todo, pos, handed, talk, count>>
        BY <1>1, <1>3 DEF Finished, Close
    <2>2. req' \in Counts
        BY <2>1 DEF FcgiInv, ReaderInv, Counts
    <2>3. ReaderInv'
        BY <2>1, <2>2, NewIs, <<>> \in Seq(Unit) DEF FcgiInv, ReaderInv
    <2>4. in'.sub = "none"
        BY <2>1 DEF NewReader
    <2>5. PhaseInv'
        BY <2>1, <2>4, TalkAssumption DEF PhaseInv, Phases
    <2>6. DOMAIN out' = Streams /\ \A s \in Streams : out'[s] = NewWriter
        BY <1>3 DEF Finished
    <2>7. \A s \in Streams : Roomy(s, out'[s], s = w' /\ wpc' = "write")
        BY <2>6, NewIs
    <2>8. WriterInv'
        BY <2>1, <2>6, <2>7 DEF FcgiInv, WriterInv
    <2>9. CountInv' /\ TalkInv'
        BY <1>1, <2>1, <2>6 DEF FcgiInv, CountInv, TalkInv, NewWriter
    <2> QED BY <2>3, <2>5, <2>8, <2>9 DEF FcgiInv
<1> QED BY <1>2, <1>3

-----------------------------------------------------------------------------
LEMMA FcgiStep == FcgiInv /\ [Next]_vars => FcgiInv'
<1> SUFFICES ASSUME FcgiInv, [Next]_vars PROVE FcgiInv'
    OBVIOUS
<1>1. CASE ReaderStep
    BY <1>1, ReadKeeps, FillKeeps, ProcessKeeps, AcceptKeeps DEF ReaderStep
<1>2. CASE AppStep
    BY <1>2, AppKeeps
<1>3. CASE WriterStep
    BY <1>3, PutKeeps, EmptyKeeps, WriteKeeps, ClosedKeeps DEF WriterStep
<1>4. CASE \E s \in Streams : AppWrite(s) \/ AppFlush(s)
    BY <1>4, AnswerKeeps
<1>5. CASE Request \/ Cut
    BY <1>5, PeerKeeps
<1>6. CASE UNCHANGED vars
    BY <1>6, WritersKept
    DEF vars, readVars, peerVars, writeVars, FcgiInv, ReaderInv, PhaseInv, CountInv, TalkInv, Unclosed
<1> QED BY <1>1, <1>2, <1>3, <1>4, <1>5, <1>6 DEF Next

\* No stream's buffer is overrun, no header is processed before it is complete and no
\* writer is closed more often than it was opened, whatever the size of the buffers, the
\* requests and the faults (FillBuffProc, EmptyBuffProc, FCGX_PutStr, FCGX_FClose).
THEOREM BuffersAreKept == Spec => []TypeOK
<1>1. Init => FcgiInv
    BY FcgiInit
<1>2. FcgiInv /\ [Next]_vars => FcgiInv'
    BY FcgiStep
<1>3. FcgiInv => TypeOK
    <2> SUFFICES ASSUME FcgiInv PROVE TypeOK
        OBVIOUS
    <2>1. /\ in.avail <= Len(in.buf) /\ Len(in.buf) <= BuffLen
          /\ in.len \in Nat /\ in.pad \in Nat /\ Len(in.hdr) <= HeaderLen
          /\ in.sub \in {"none", "body", "values"}
          /\ in.at \in {"top", "padding", "header", "process"}
          /\ req.writers \in 0 .. 2
        BY DEF FcgiInv, ReaderInv, Sound, Fits, Readers, Counts
    <2>2. \A s \in Streams : Len(out[s].buf) <= BuffLen
        BY DEF FcgiInv, WriterInv, Roomy
    <2> QED BY <2>1, <2>2 DEF TypeOK, FcgiInv, PhaseInv, Phases, WriterInv, TalkInv
<1> QED BY <1>1, <1>2, <1>3, PTL DEF Spec

-----------------------------------------------------------------------------
(* What is still to come of a sequence of sequences.                       *)

LEMMA SequencesEqual ==
    ASSUME NEW S, NEW s \in Seq(S), NEW t \in Seq(S), Len(s) = Len(t),
           \A i \in 1 .. Len(s) : s[i] = t[i]
    PROVE  s = t
OBVIOUS

LEMMA JoinAssoc ==
    ASSUME NEW S, NEW x \in Seq(S), NEW y \in Seq(S), NEW z \in Seq(S)
    PROVE  (x \o y) \o z = x \o (y \o z)
OBVIOUS

LEMMA JoinEmpty ==
    ASSUME NEW S, NEW x \in Seq(S)
    PROVE  <<>> \o x = x /\ x \o <<>> = x
OBVIOUS

\* FlattenSeq may begin with any element.
LEMMA FlattenFirst ==
    ASSUME NEW S, NEW ss \in Seq(Seq(S)), NEW x \in Seq(S)
    PROVE  FlattenSeq(<<x>> \o ss) = x \o FlattenSeq(ss) /\ FlattenSeq(ss) \in Seq(S)
<1> DEFINE X == Seq(S)
           G == Joining(S)
           e == <<>>
<1>1. e \in X /\ G \in [X \X X -> X] /\ \A y, z \in X : G[<<y, z>>] = y \o z
    <2>1. G \in [Seq(S) \X Seq(S) -> Seq(S)] /\ <<>> \in Seq(S)
        BY DEF Joining
    <2>2. \A y, z \in Seq(S) : G[<<y, z>>] = y \o z
        BY DEF Joining
    <2> QED BY <2>1, <2>2
<1>2. x \in X /\ ss \in Seq(X) /\ FlattenSeq(ss) = RunTo(G, e, ss)
    BY FlattenIs
<1>3. <<x>> \o ss \in Seq(X)
    BY <1>2
<1>4. FlattenSeq(<<x>> \o ss) = RunTo(G, e, <<x>> \o ss)
    BY <1>3, FlattenIs
<1>5. \A y, z, u \in X : (y \o z) \o u = y \o (z \o u)
    <2>1. ASSUME NEW y \in Seq(S), NEW z \in Seq(S), NEW u \in Seq(S)
          PROVE  (y \o z) \o u = y \o (z \o u)
        BY JoinAssoc, SMTT(40)
    <2> QED BY <2>1
<1>6. \A y \in X : e \o y = y /\ y \o e = y
    BY JoinEmpty
<1>61. \A y, z \in X : y \o z \in X
    OBVIOUS
<1> HIDE DEF X, G, e
<1>7. <<x>> \in Seq(X)
    BY <1>2
<1>71. IsStep(G, X, X) /\ e \in X
    BY <1>1 DEF IsStep
<1>72. ss \in Seq(X) /\ x \in X
    BY <1>2
<1>8. RunTo(G, e, <<x>> \o ss) = RunTo(G, RunTo(G, e, <<x>>), ss)
    <2> DEFINE u == <<x>>
    <2>1. u \in Seq(X)
        BY <1>7
    <2> HIDE DEF u
    <2>2. RunTo(G, e, u \o ss) = RunTo(G, RunTo(G, e, u), ss)
        BY <1>71, <1>72, <2>1, RunConcat
    <2> QED BY <2>2 DEF u
<1>9. RunTo(G, e, <<x>>) = x
    <2>1. RunTo(G, e, <<x>>) = G[<<e, x>>]
        BY RunOne
    <2> QED BY <1>1, <1>2, <1>6, <2>1
<1>10. PICK p \in [0 .. Len(ss) -> X] : IsRun(p, G, e, ss)
    BY <1>1, <1>2, RunExists
<1>11. RunTo(G, e, ss) = p[Len(ss)] /\ Len(ss) \in 0 .. Len(ss)
    <2>1. Len(ss) \in Nat
        BY <1>2
    <2> QED BY <1>2, <1>10, <2>1, RunIs
<1> DEFINE q == [i \in 0 .. Len(ss) |-> x \o p[i]]
<1>12. IsRun(q, G, x, ss)
    <2>1. DOMAIN q = 0 .. Len(ss) /\ q[0] = x
        <3>1. p[0] = e /\ 0 \in 0 .. Len(ss)
            BY <1>10, <1>11 DEF IsRun
        <3> QED BY <1>2, <1>6, <3>1
    <2>2. ASSUME NEW i \in 1 .. Len(ss) PROVE q[i] = G[<<q[i - 1], ss[i]>>]
        <3>1. /\ i \in 0 .. Len(ss) /\ i - 1 \in 0 .. Len(ss)
              /\ ss[i] \in X /\ p[i - 1] \in X /\ p[i] = G[<<p[i - 1], ss[i]>>]
            <4>1. Len(ss) \in Nat /\ ss[i] \in X
                BY <1>2
            <4>2. i \in 0 .. Len(ss) /\ i - 1 \in 0 .. Len(ss)
                BY <4>1
            <4> QED BY <1>10, <4>1, <4>2 DEF IsRun
        <3>2. p[i] = p[i - 1] \o ss[i]
            BY <1>1, <3>1
        <3>3. q[i] = x \o (p[i - 1] \o ss[i]) /\ q[i - 1] = x \o p[i - 1] /\ q[i - 1] \in X
            BY <1>2, <1>61, <3>1, <3>2
        <3>4. G[<<q[i - 1], ss[i]>>] = q[i - 1] \o ss[i]
            BY <1>1, <3>1, <3>3
        <3>5. (x \o p[i - 1]) \o ss[i] = x \o (p[i - 1] \o ss[i])
            BY <1>2, <1>5, <3>1
        <3> HIDE DEF q
        <3> QED BY <3>3, <3>4, <3>5
    <2> HIDE DEF q
    <2> QED BY <2>1, <2>2 DEF IsRun
<1>13. RunTo(G, x, ss) = x \o p[Len(ss)]
    <2>1. q[Len(ss)] = x \o p[Len(ss)]
        BY <1>11
    <2> HIDE DEF q
    <2> QED BY <1>2, <1>12, <2>1, RunIs
<1>14. FlattenSeq(ss) \in X
    BY <1>2, <1>10, <1>11 DEF e
<1> QED BY <1>2, <1>4, <1>8, <1>9, <1>11, <1>13, <1>14 DEF e, X

LEMMA RestOf ==
    ASSUME NEW S, NEW s \in Seq(S)
    PROVE  /\ Rest(s, 0) = s /\ Rest(s, Len(s)) = <<>>
           /\ \A n \in 0 .. Len(s) - 1 : Rest(s, n) = <<s[n + 1]>> \o Rest(s, n + 1)
           /\ \A n \in 0 .. Len(s) : Rest(s, n) \in Seq(S) /\ Len(Rest(s, n)) = Len(s) - n
           /\ \A n \in 0 .. Len(s) : \A i \in 1 .. Len(s) - n : Rest(s, n)[i] = s[n + i]
BY DEF Rest

Later(ss, k) == FlattenSeq(Rest(ss, k))

LEMMA LaterIs ==
    ASSUME NEW S, NEW ss \in Seq(Seq(S))
    PROVE  /\ Later(ss, 0) = FlattenSeq(ss) /\ Later(ss, Len(ss)) = <<>>
           /\ \A k \in 0 .. Len(ss) : Later(ss, k) \in Seq(S)
           /\ \A k \in 0 .. Len(ss) - 1 : Later(ss, k) = ss[k + 1] \o Later(ss, k + 1)
<1> DEFINE X == Seq(S)
<1>1. ss \in Seq(X)
    OBVIOUS
<1>2. \A u \in Seq(X), x \in X : FlattenSeq(<<x>> \o u) = x \o FlattenSeq(u) /\ FlattenSeq(u) \in X
    BY FlattenFirst
<1>21. <<>> \in X
    OBVIOUS
<1>3. FlattenSeq(<<>>) = <<>>
    BY DEF FlattenSeq
<1> HIDE DEF X
<1>4. /\ Rest(ss, 0) = ss /\ Rest(ss, Len(ss)) = <<>>
      /\ \A n \in 0 .. Len(ss) - 1 : Rest(ss, n) = <<ss[n + 1]>> \o Rest(ss, n + 1)
      /\ \A n \in 0 .. Len(ss) : Rest(ss, n) \in Seq(X)
    BY <1>1, RestOf
<1>5. \A k \in 0 .. Len(ss) : Later(ss, k) \in X
    <2>2. ASSUME NEW u \in Seq(X) PROVE FlattenSeq(u) \in X
        BY <1>2, <1>21
    <2> QED BY <1>4, <2>2 DEF Later
<1>6. ASSUME NEW k \in 0 .. Len(ss) - 1 PROVE Later(ss, k) = ss[k + 1] \o Later(ss, k + 1)
    <2>1. k + 1 \in 0 .. Len(ss) /\ ss[k + 1] \in X /\ Rest(ss, k + 1) \in Seq(X)
        BY <1>1, <1>4
    <2> QED BY <1>2, <1>4, <2>1 DEF Later
<1> QED BY <1>3, <1>4, <1>5, <1>6 DEF Later, X

\* If nothing comes after k, nothing is still to come.
LEMMA LaterNothing ==
    ASSUME NEW S, NEW ss \in Seq(Seq(S)), NEW k \in 0 .. Len(ss),
           \A i \in k + 1 .. Len(ss) : ss[i] = <<>>
    PROVE  Later(ss, k) = <<>>
<1> DEFINE n == Len(ss)
           T == {m \in 0 .. n : m >= k => Later(ss, m) = <<>>}
<1>1. n \in Nat /\ n \in T
    <2>1. n \in Nat /\ n \in 0 .. n
        OBVIOUS
    <2>2. Later(ss, n) = <<>>
        BY LaterIs
    <2> QED BY <2>1, <2>2
<1>2. ASSUME NEW m \in 1 .. n, m \in T PROVE m - 1 \in T
    <2>1. m - 1 \in 0 .. n - 1 /\ m - 1 \in 0 .. n /\ (m - 1) + 1 = m /\ m \in 0 .. n
        BY <1>1
    <2>2. Later(ss, m - 1) = ss[m] \o Later(ss, m) /\ Later(ss, m) \in Seq(S)
        BY <2>1, LaterIs
    <2>3. ASSUME m - 1 >= k PROVE Later(ss, m - 1) = <<>>
        <3>1. m \in k + 1 .. n /\ m >= k
            BY <1>1, <2>1, <2>3
        <3>2. ss[m] = <<>> /\ Later(ss, m) = <<>>
            BY <1>2, <3>1
        <3> QED BY <2>2, <3>2
    <2> QED BY <2>1, <2>3
<1> HIDE DEF T, n
<1>3. 0 .. n \subseteq T
    BY <1>1, <1>2, InductionDown
<1>4. k \in T
    BY <1>3 DEF n
<1> QED BY <1>4 DEF T

-----------------------------------------------------------------------------
(* What the reader has before it.                                          *)

LEMMA JoinAt ==
    ASSUME NEW S, NEW s \in Seq(S), NEW t \in Seq(S)
    PROVE  /\ s \o t \in Seq(S) /\ Len(s \o t) = Len(s) + Len(t)
           /\ \A i \in 1 .. Len(s) : (s \o t)[i] = s[i]
           /\ \A i \in 1 .. Len(t) : (s \o t)[Len(s) + i] = t[i]
<1>1. ASSUME NEW i \in 1 .. Len(s) PROVE (s \o t)[i] = s[i]
    OBVIOUS
<1>2. ASSUME NEW i \in 1 .. Len(t) PROVE (s \o t)[Len(s) + i] = t[i]
    <2> DEFINE j == Len(s) + i
    <2>1. j \in 1 .. Len(s) + Len(t) /\ j > Len(s) /\ j - Len(s) = i
        OBVIOUS
    <2> HIDE DEF j
    <2>2. (s \o t)[j] = t[j - Len(s)]
        BY <2>1
    <2> QED BY <2>1, <2>2 DEF j
<1> QED BY <1>1, <1>2

\* The same for what is on the wire.
LEMMA UnitsAssoc ==
    ASSUME NEW x \in Seq(Unit), NEW y \in Seq(Unit), NEW z \in Seq(Unit)
    PROVE  (x \o y) \o z = x \o (y \o z)
BY JoinAssoc

LEMMA UnitsJoin ==
    /\ \A x, y, z \in Seq(Unit) : (x \o y) \o z = x \o (y \o z)
    /\ \A x, y \in Seq(Unit) : x \o y \in Seq(Unit) /\ Len(x \o y) = Len(x) + Len(y)
    /\ \A x \in Seq(Unit) : <<>> \o x = x /\ x \o <<>> = x
    /\ <<>> \in Seq(Unit) /\ Len(<<>>) = 0
<1>1. ASSUME NEW x \in Seq(Unit), NEW y \in Seq(Unit), NEW z \in Seq(Unit)
      PROVE  (x \o y) \o z = x \o (y \o z)
    BY JoinAssoc
<1>2. ASSUME NEW x \in Seq(Unit), NEW y \in Seq(Unit)
      PROVE  x \o y \in Seq(Unit) /\ Len(x \o y) = Len(x) + Len(y)
    OBVIOUS
<1>3. ASSUME NEW x \in Seq(Unit) PROVE <<>> \o x = x /\ x \o <<>> = x
    OBVIOUS
<1>4. <<>> \in Seq(Unit) /\ Len(<<>>) = 0
    OBVIOUS
<1> QED BY <1>1, <1>2, <1>3, <1>4

\* What begins with a part of the buffer is taken from there.
LEMMA TakeFrom ==
    ASSUME NEW S, NEW b \in Seq(S), NEW v \in Seq(S), NEW c \in Seq(S), NEW a \in Seq(S),
           b \o v = c \o a, Len(c) <= Len(b)
    PROVE  SubSeq(b, 1, Len(c)) = c /\ Rest(b, Len(c)) \o v = a
<1> DEFINE n == Len(c)
           m == Len(b)
           s == b \o v
           x == SubSeq(b, 1, n)
           y == Rest(b, n) \o v
<1>1. n \in Nat /\ m \in Nat /\ n <= m /\ Len(v) \in Nat /\ Len(a) \in Nat
    OBVIOUS
<1>2. Len(s) = m + Len(v) /\ Len(s) = n + Len(a)
    <2>1. Len(b \o v) = Len(b) + Len(v)
        OBVIOUS
    <2>2. Len(c \o a) = Len(c) + Len(a)
        OBVIOUS
    <2> QED BY <2>1, <2>2
<1>3. /\ \A i \in 1 .. m : s[i] = b[i]
      /\ \A i \in 1 .. Len(v) : s[m + i] = v[i]
      /\ \A i \in 1 .. n : s[i] = c[i]
      /\ \A i \in 1 .. Len(a) : s[n + i] = a[i]
    <2>1. /\ \A i \in 1 .. Len(b) : (b \o v)[i] = b[i]
          /\ \A i \in 1 .. Len(v) : (b \o v)[Len(b) + i] = v[i]
        BY JoinAt, SMTT(40)
    <2>2. /\ \A i \in 1 .. Len(c) : (c \o a)[i] = c[i]
          /\ \A i \in 1 .. Len(a) : (c \o a)[Len(c) + i] = a[i]
        BY JoinAt
    <2> QED BY <2>1, <2>2
<1>4. x \in Seq(S) /\ Len(x) = n /\ \A i \in 1 .. n : x[i] = b[i]
    <2>1. n \in 0 .. Len(b)
        BY <1>1
    <2> HIDE DEF n
    <2>2. x \in Seq(S) /\ Len(x) = n
        BY <2>1
    <2>3. \A i \in 1 .. n : x[i] = b[i]
        BY <2>1
    <2> QED BY <2>2, <2>3
<1>5. /\ y \in Seq(S) /\ Len(y) = (m - n) + Len(v)
      /\ \A i \in 1 .. m - n : y[i] = b[n + i]
      /\ \A i \in 1 .. Len(v) : y[(m - n) + i] = v[i]
    <2> DEFINE r == Rest(b, n)
    <2>1. n \in 0 .. Len(b)
        BY <1>1
    <2> HIDE DEF n
    <2>2. r \in Seq(S) /\ Len(r) = m - n /\ \A i \in 1 .. m - n : r[i] = b[n + i]
        BY <2>1, RestOf
    <2> HIDE DEF r, m
    <2>3. /\ r \o v \in Seq(S) /\ Len(r \o v) = Len(r) + Len(v)
          /\ \A i \in 1 .. Len(r) : (r \o v)[i] = r[i]
          /\ \A i \in 1 .. Len(v) : (r \o v)[Len(r) + i] = v[i]
        <3>1. r \in Seq(S)
            BY <2>2
        <3> QED BY <3>1, JoinAt
    <2> QED BY <2>2, <2>3 DEF r
<1>51. m + Len(v) = n + Len(a)
    BY <1>2
<1>52. y \in Seq(S) /\ Len(y) = (m - n) + Len(v)
    BY <1>5
<1> HIDE DEF x, y, s, n, m
<1>6. x = c
    <2>1. \A i \in 1 .. n : x[i] = c[i]
        <3>1. \A i \in 1 .. n : i \in 1 .. m
            BY <1>1
        <3> QED BY <1>3, <1>4, <3>1
    <2>2. Len(c) = n
        BY DEF n
    <2> QED BY <1>4, <2>1, <2>2, SequencesEqual
<1>7. y = a
    <2>1. Len(y) = Len(a)
        <3>1. (m - n) + Len(v) = Len(a)
            BY <1>1, <1>51
        <3> QED BY <1>52, <3>1
    <2>2. ASSUME NEW i \in 1 .. Len(y) PROVE y[i] = a[i]
        <3>1. CASE i \in 1 .. m - n
            <4>1. n + i \in 1 .. m /\ i \in 1 .. Len(a)
                BY <1>1, <2>1, <2>2, <3>1
            <4> QED BY <1>3, <1>5, <3>1, <4>1
        <3>2. CASE i \notin 1 .. m - n
            <4> DEFINE j == i - (m - n)
            <4>1. j \in 1 .. Len(v) /\ i = (m - n) + j /\ n + i = m + j /\ i \in 1 .. Len(a)
                BY <1>1, <1>5, <2>1, <2>2, <3>2
            <4> HIDE DEF j
            <4>2. y[i] = v[j] /\ s[m + j] = v[j] /\ s[n + i] = a[i]
                BY <1>3, <1>5, <4>1
            <4> QED BY <4>1, <4>2
        <3> QED BY <3>1, <3>2
    <2> QED BY <1>5, <2>1, <2>2, SequencesEqual
<1> QED BY <1>6, <1>7 DEF x, y, n

NoType(s) == \A i \in 1 .. Len(s) : s[i][1] # "type"

Body(t, k)       == IF k = 0 THEN <<>> ELSE Content(t[k].data)
Records(t)       == [i \in DOMAIN t |-> Bytes(t[i])]
Ahead(t, k, n, p) == Rest(Body(t, k), Len(Body(t, k)) - n) \o (Padding(p) \o Later(Records(t), k))

LEMMA UnitsAre ==
    /\ \A type \in Types, id, len, pad \in Nat :
          Header(type, id, len, pad) \in Seq(Unit) /\ Len(Header(type, id, len, pad)) = HeaderLen
    /\ \A d \in Seq(Nat) : Content(d) \in Seq(Unit) /\ Len(Content(d)) = Len(d) /\ NoType(Content(d))
    /\ \A n \in Nat : Padding(n) \in Seq(Unit) /\ Len(Padding(n)) = n /\ NoType(Padding(n))
<1>1. ASSUME NEW type \in Types, NEW id \in Nat, NEW len \in Nat, NEW pad \in Nat
      PROVE  Header(type, id, len, pad) \in Seq(Unit) /\ Len(Header(type, id, len, pad)) = HeaderLen
    BY DEF Header, Unit, HeaderLen
<1>2. ASSUME NEW d \in Seq(Nat)
      PROVE  Content(d) \in Seq(Unit) /\ Len(Content(d)) = Len(d) /\ NoType(Content(d))
    <2>1. Content(d) \in Seq(Unit) /\ Len(Content(d)) = Len(d)
        BY SMTT(40) DEF Content, Unit
    <2>2. \A i \in 1 .. Len(d) : Content(d)[i][1] = "data"
        BY DEF Content
    <2> QED BY <2>1, <2>2 DEF NoType
<1>3. ASSUME NEW n \in Nat
      PROVE  Padding(n) \in Seq(Unit) /\ Len(Padding(n)) = n /\ NoType(Padding(n))
    <2>1. Padding(n) \in Seq(Unit) /\ Len(Padding(n)) = n
        BY DEF Padding, Unit
    <2>2. \A i \in 1 .. n : Padding(n)[i][1] = "pad"
        BY DEF Padding
    <2> QED BY <2>1, <2>2 DEF NoType
<1> QED BY <1>1, <1>2, <1>3

LEMMA BytesAre ==
    ASSUME NEW r \in Record
    PROVE  /\ Bytes(r) \in Seq(Unit)
           /\ Bytes(r) = Header(r.type, r.id, Len(r.data), r.pad)
                             \o (Content(r.data) \o Padding(r.pad))
<1>1. r.type \in Types /\ r.id \in Nat /\ r.data \in Seq(Nat) /\ r.pad \in Nat /\ Len(r.data) \in Nat
    BY DEF Record
<1> DEFINE h == Header(r.type, r.id, Len(r.data), r.pad)
           c == Content(r.data)
           p == Padding(r.pad)
<1>2. h \in Seq(Unit) /\ c \in Seq(Unit) /\ p \in Seq(Unit)
    BY <1>1, UnitsAre
<1>3. Bytes(r) = (h \o c) \o p
    BY DEF Bytes
<1> HIDE DEF h, c, p
<1>4. (h \o c) \o p = h \o (c \o p) /\ (h \o c) \o p \in Seq(Unit)
    BY <1>2, JoinAssoc, SMTT(40)
<1> QED BY <1>3, <1>4 DEF h, c, p

LEMMA RecordsAre ==
    ASSUME NEW t \in Seq(Record)
    PROVE  /\ Records(t) \in Seq(Seq(Unit)) /\ Len(Records(t)) = Len(t)
           /\ \A k \in 1 .. Len(t) : t[k] \in Record /\ Records(t)[k] = Bytes(t[k])
           /\ AllBytes(t) = FlattenSeq(Records(t))
<1>1. \A k \in 1 .. Len(t) : t[k] \in Record /\ Bytes(t[k]) \in Seq(Unit)
    BY BytesAre
<1>2. DOMAIN t = 1 .. Len(t) /\ Len(t) \in Nat
    OBVIOUS
<1> DEFINE X == Seq(Unit)
<1> HIDE DEF X
<1>3. [i \in 1 .. Len(t) |-> Bytes(t[i])] \in Seq(X)
    BY <1>1, <1>2 DEF X
<1>4. Records(t) = [i \in 1 .. Len(t) |-> Bytes(t[i])]
    BY <1>2 DEF Records
<1>5. Len(Records(t)) = Len(t)
    BY <1>2, <1>4
<1> QED BY <1>1, <1>3, <1>4, <1>5 DEF X, AllBytes, Records

LEMMA BodyIs ==
    ASSUME NEW t \in Seq(Record), NEW k \in 0 .. Len(t)
    PROVE  /\ Body(t, k) \in Seq(Unit) /\ NoType(Body(t, k)) /\ Len(Body(t, k)) \in Nat
           /\ k > 0 => t[k] \in Record /\ Len(Body(t, k)) = Len(t[k].data)
           /\ k = 0 => Len(Body(t, k)) = 0
<1>1. CASE k = 0
    BY <1>1 DEF Body, NoType
<1>2. CASE k # 0
    <2>1. k \in 1 .. Len(t)
        BY <1>2
    <2>2. t[k] \in Record
        BY <2>1
    <2>3. t[k].data \in Seq(Nat)
        BY <2>2 DEF Record
    <2>4. Body(t, k) = Content(t[k].data)
        BY <1>2 DEF Body
    <2>5. Content(t[k].data) \in Seq(Unit) /\ Len(Content(t[k].data)) = Len(t[k].data)
        BY <2>3, UnitsAre
    <2>6. NoType(Content(t[k].data))
        BY <2>3, UnitsAre
    <2> QED BY <1>2, <2>2, <2>4, <2>5, <2>6
<1> QED BY <1>1, <1>2

LEMMA AheadIs ==
    ASSUME NEW t \in Seq(Record), NEW k \in 0 .. Len(t),
           NEW n \in 0 .. Len(Body(t, k)), NEW p \in Nat
    PROVE  /\ Ahead(t, k, n, p) \in Seq(Unit)
           /\ Rest(Body(t, k), Len(Body(t, k)) - n) \in Seq(Unit)
           /\ Len(Rest(Body(t, k), Len(Body(t, k)) - n)) = n
           /\ Later(Records(t), k) \in Seq(Unit)
<1> DEFINE b == Body(t, k)
<1>1. b \in Seq(Unit) /\ Len(b) \in Nat
    BY BodyIs
<1>2. Len(b) - n \in 0 .. Len(b) /\ Len(b) - (Len(b) - n) = n
    BY <1>1
<1> HIDE DEF b
<1>3. Rest(b, Len(b) - n) \in Seq(Unit) /\ Len(Rest(b, Len(b) - n)) = n
    BY <1>1, <1>2, RestOf
<1>4. Padding(p) \in Seq(Unit) /\ Later(Records(t), k) \in Seq(Unit)
    BY UnitsAre, RecordsAre, LaterIs
<1>5. Padding(p) \o Later(Records(t), k) \in Seq(Unit)
    BY <1>4
<1> QED BY <1>3, <1>4, <1>5 DEF Ahead, b

LEMMA AheadStart ==
    ASSUME NEW t \in Seq(Record)
    PROVE  Ahead(t, 0, 0, 0) = AllBytes(t) /\ AllBytes(t) \in Seq(Unit)
<1>1. Later(Records(t), 0) = AllBytes(t) /\ AllBytes(t) \in Seq(Unit)
    <2>1. 0 \in 0 .. Len(Records(t))
        BY RecordsAre
    <2> QED BY <2>1, RecordsAre, LaterIs
<1>2. Padding(0) = <<>>
    BY UnitsAre
<1>3. Rest(Body(t, 0), Len(Body(t, 0)) - 0) = <<>>
    BY DEF Body, Rest
<1> QED BY <1>1, <1>2, <1>3, JoinEmpty DEF Ahead

LEMMA AheadEmpty ==
    ASSUME NEW t \in Seq(Record), NEW k \in 0 .. Len(t)
    PROVE  Ahead(t, k, 0, 0) = Later(Records(t), k) /\ Ahead(t, k, 0, 0) \in Seq(Unit)
<1> DEFINE b == Body(t, k)
<1>1. b \in Seq(Unit) /\ Len(b) \in Nat
    BY BodyIs
<1>2. Rest(b, Len(b) - 0) = <<>>
    BY <1>1 DEF Rest
<1>3. Padding(0) = <<>>
    BY UnitsAre
<1>4. Later(Records(t), k) \in Seq(Unit)
    BY RecordsAre, LaterIs
<1> HIDE DEF b
<1>5. Ahead(t, k, 0, 0) = <<>> \o (<<>> \o Later(Records(t), k))
    BY <1>2, <1>3 DEF Ahead, b
<1> QED BY <1>4, <1>5, JoinEmpty

LEMMA AheadEnd ==
    ASSUME NEW t \in Seq(Record)
    PROVE  Ahead(t, Len(t), 0, 0) = <<>>
<1>1. Len(t) \in 0 .. Len(t)
    OBVIOUS
<1>2. Ahead(t, Len(t), 0, 0) = Later(Records(t), Len(t))
    BY <1>1, AheadEmpty
<1>3. Len(Records(t)) = Len(t) /\ Records(t) \in Seq(Seq(Unit))
    BY RecordsAre
<1>4. Later(Records(t), Len(Records(t))) = <<>>
    BY <1>3, LaterIs
<1> QED BY <1>2, <1>3, <1>4

LEMMA AheadNext ==
    ASSUME NEW t \in Seq(Record), NEW k \in 0 .. Len(t) - 1, NEW r, r = t[k + 1]
    PROVE  /\ r \in Record /\ k + 1 \in 0 .. Len(t)
           /\ Len(r.data) = Len(Body(t, k + 1))
           /\ Ahead(t, k, 0, 0) = Header(r.type, r.id, Len(r.data), r.pad)
                                      \o Ahead(t, k + 1, Len(r.data), r.pad)
<1>1. k \in 0 .. Len(t) /\ k + 1 \in 0 .. Len(t) /\ k + 1 \in 1 .. Len(t) /\ k + 1 # 0
    OBVIOUS
<1>2. r \in Record /\ Bytes(r) = Records(t)[k + 1]
    BY <1>1, RecordsAre
<1> DEFINE b == Body(t, k + 1)
           l == Later(Records(t), k + 1)
           h == Header(r.type, r.id, Len(r.data), r.pad)
           p == Padding(r.pad)
<1>3. b \in Seq(Unit) /\ Len(b) = Len(r.data) /\ b = Content(r.data) /\ Len(b) \in Nat
    BY <1>1, BodyIs DEF Body
<1>4. Rest(b, Len(b) - Len(r.data)) = b
    <2>1. Len(b) - Len(r.data) = 0
        BY <1>3
    <2> QED BY <1>3, <2>1, RestOf
<1>5. l \in Seq(Unit) /\ Later(Records(t), k) = Bytes(r) \o l
    BY <1>1, <1>2, RecordsAre, LaterIs
<1>6. h \in Seq(Unit) /\ p \in Seq(Unit) /\ Bytes(r) = h \o (b \o p)
    <2>1. r.type \in Types /\ r.id \in Nat /\ Len(r.data) \in Nat /\ r.pad \in Nat
        BY <1>2 DEF Record
    <2> QED BY <1>2, <1>3, <2>1, BytesAre, UnitsAre
<1>7. Ahead(t, k + 1, Len(r.data), r.pad) = b \o (p \o l)
    BY <1>4 DEF Ahead
<1>8. Ahead(t, k, 0, 0) = Later(Records(t), k)
    BY <1>1, AheadEmpty
<1> HIDE DEF b, l, h, p
<1>9. b \o p \in Seq(Unit) /\ (h \o (b \o p)) \o l = h \o ((b \o p) \o l) /\ (b \o p) \o l = b \o (p \o l)
    <2>1. b \o p \in Seq(Unit)
        BY <1>3, <1>6
    <2>2. (h \o (b \o p)) \o l = h \o ((b \o p) \o l)
        <3>1. h \in Seq(Unit) /\ l \in Seq(Unit)
            BY <1>5, <1>6
        <3> QED BY <2>1, <3>1, UnitsAssoc
    <2>3. (b \o p) \o l = b \o (p \o l)
        <3>1. b \in Seq(Unit) /\ p \in Seq(Unit) /\ l \in Seq(Unit)
            BY <1>3, <1>5, <1>6
        <3> QED BY <3>1, UnitsAssoc
    <2> QED BY <2>1, <2>2, <2>3
<1> QED BY <1>1, <1>2, <1>3, <1>5, <1>6, <1>7, <1>8, <1>9 DEF b, h

LEMMA AheadContent ==
    ASSUME NEW t \in Seq(Record), NEW k \in 0 .. Len(t),
           NEW n \in 0 .. Len(Body(t, k)), NEW p \in Nat, NEW m \in 0 .. n
    PROVE  \E c \in Seq(Unit) :
              /\ Len(c) = m
              /\ Ahead(t, k, n, p) = c \o Ahead(t, k, n - m, p)
              /\ Rest(Body(t, k), Len(Body(t, k)) - n)
                    = c \o Rest(Body(t, k), Len(Body(t, k)) - (n - m))
<1> DEFINE b == Body(t, k)
           q == Padding(p) \o Later(Records(t), k)
           j == Len(b) - n
           c == SubSeq(b, j + 1, j + m)
           x == Rest(b, j)
           y == Rest(b, j + m)
<1>1. b \in Seq(Unit) /\ Len(b) \in Nat
    BY BodyIs
<1>2. j \in 0 .. Len(b) /\ j + m \in 0 .. Len(b) /\ Len(b) - (n - m) = j + m
    BY <1>1
<1>3. q \in Seq(Unit)
    <2>1. Padding(p) \in Seq(Unit) /\ Later(Records(t), k) \in Seq(Unit)
        BY AheadIs, UnitsAre
    <2> QED BY <2>1
<1>4. Ahead(t, k, n, p) = x \o q /\ Ahead(t, k, n - m, p) = y \o q
    BY <1>2 DEF Ahead
<1> HIDE DEF b, q, j
<1>5. /\ c \in Seq(Unit) /\ Len(c) = m /\ \A i \in 1 .. m : c[i] = b[j + i]
      /\ y \in Seq(Unit) /\ Len(y) = Len(b) - (j + m)
      /\ \A i \in 1 .. Len(b) - (j + m) : y[i] = b[(j + m) + i]
      /\ x \in Seq(Unit) /\ Len(x) = Len(b) - j /\ \A i \in 1 .. Len(b) - j : x[i] = b[j + i]
    <2>1. c \in Seq(Unit) /\ Len(c) = m /\ \A i \in 1 .. m : c[i] = b[j + i]
        BY <1>1, <1>2
    <2> HIDE DEF c
    <2>2. /\ y \in Seq(Unit) /\ Len(y) = Len(b) - (j + m)
          /\ \A i \in 1 .. Len(b) - (j + m) : y[i] = b[(j + m) + i]
        BY <1>1, <1>2, RestOf
    <2>3. x \in Seq(Unit) /\ Len(x) = Len(b) - j /\ \A i \in 1 .. Len(b) - j : x[i] = b[j + i]
        BY <1>1, <1>2, RestOf
    <2> QED BY <2>1, <2>2, <2>3
<1>6. x = c \o y
    <2> HIDE DEF x, c, y
    <2>1. c \o y \in Seq(Unit) /\ Len(c \o y) = Len(x)
        <3>1. c \o y \in Seq(Unit) /\ Len(c \o y) = Len(c) + Len(y)
            BY <1>5, UnitsJoin
        <3>2. Len(c) = m /\ Len(y) = Len(b) - (j + m) /\ Len(x) = Len(b) - j
            BY <1>5
        <3>3. m + (Len(b) - (j + m)) = Len(b) - j
            BY <1>1, <1>2
        <3> QED BY <3>1, <3>2, <3>3
    <2>2. ASSUME NEW i \in 1 .. Len(x) PROVE x[i] = (c \o y)[i]
        <3>1. CASE i \in 1 .. m
            <4>1. (c \o y)[i] = c[i]
                BY <1>5, <3>1
            <4> QED BY <1>5, <2>2, <3>1, <4>1
        <3>2. CASE i \notin 1 .. m
            <4>1. i - m \in 1 .. Len(y) /\ i - m \in 1 .. Len(b) - (j + m) /\ (j + m) + (i - m) = j + i
                BY <1>1, <1>2, <1>5, <2>2, <3>2
            <4>2. (c \o y)[i] = y[i - m]
                <5>0. c \in Seq(Unit) /\ y \in Seq(Unit)
                    BY <1>5
                <5>1. \A l \in 1 .. Len(y) : (c \o y)[Len(c) + l] = y[l]
                    BY <5>0, JoinAt
                <5>2. Len(c) + (i - m) = i
                    BY <1>5, <2>2
                <5> QED BY <4>1, <5>1, <5>2
            <4>3. y[i - m] = b[(j + m) + (i - m)]
                BY <1>5, <4>1
            <4>4. x[i] = b[j + i]
                BY <1>5, <2>2
            <4> QED BY <4>1, <4>2, <4>3, <4>4
        <3> QED BY <3>1, <3>2
    <2> QED BY <1>5, <2>1, <2>2, SequencesEqual
<1> HIDE DEF c, x, y
<1>7. (c \o y) \o q = c \o (y \o q)
    <2>1. c \in Seq(Unit) /\ y \in Seq(Unit)
        BY <1>5
    <2> QED BY <1>3, <2>1, UnitsAssoc
<1>8. x = Rest(Body(t, k), Len(Body(t, k)) - n) /\ y = Rest(Body(t, k), Len(Body(t, k)) - (n - m))
    BY <1>2 DEF x, y, b, j
<1> QED BY <1>4, <1>5, <1>6, <1>7, <1>8

LEMMA AheadPadding ==
    ASSUME NEW t \in Seq(Record), NEW k \in 0 .. Len(t), NEW p \in Nat, NEW m \in 0 .. p
    PROVE  \E c \in Seq(Unit) : Len(c) = m /\ Ahead(t, k, 0, p) = c \o Ahead(t, k, 0, p - m)
<1> DEFINE x == Rest(Body(t, k), Len(Body(t, k)) - 0)
           l == Later(Records(t), k)
           c == Padding(m)
           y == Padding(p - m)
<1>0. p - m \in Nat /\ m \in Nat /\ 0 \in 0 .. Len(Body(t, k))
    BY BodyIs
<1>1. x \in Seq(Unit) /\ Len(x) = 0 /\ l \in Seq(Unit)
    BY <1>0, AheadIs
<1>2. c \in Seq(Unit) /\ y \in Seq(Unit) /\ Padding(p) = c \o y /\ Len(c) = m
    <2>1. c \in Seq(Unit) /\ y \in Seq(Unit) /\ Len(c) = m /\ Len(y) = p - m
        BY <1>0, UnitsAre
    <2>2. Padding(p) = c \o y
        BY <1>0 DEF Padding
    <2> QED BY <2>1, <2>2
<1>3. Ahead(t, k, 0, p) = x \o ((c \o y) \o l) /\ Ahead(t, k, 0, p - m) = x \o (y \o l)
    BY <1>2 DEF Ahead
<1>4. x = <<>>
    BY <1>1
<1> HIDE DEF x, l, c, y
<1>5. (c \o y) \o l = c \o (y \o l) /\ y \o l \in Seq(Unit) /\ (c \o y) \o l \in Seq(Unit)
    <2>1. (c \o y) \o l = c \o (y \o l)
        BY <1>1, <1>2, UnitsJoin, SMTT(40)
    <2>2. c \o y \in Seq(Unit) /\ y \o l \in Seq(Unit)
        BY <1>1, <1>2
    <2> QED BY <1>1, <2>1, <2>2
<1>6. Ahead(t, k, 0, p) = (c \o y) \o l /\ Ahead(t, k, 0, p - m) = y \o l
    BY <1>3, <1>4, <1>5, JoinEmpty
<1> QED BY <1>2, <1>5, <1>6

-----------------------------------------------------------------------------
(* Where the reader is in the request.                                     *)

Unread(r) == r.len + r.avail
Before(r, v) == r.hdr \o (r.buf \o v)

\* The reader is at record k of t: what it has not read of the record is its last content
\* and its padding, and what comes behind the buffer is v.  If it has lost its place,
\* g comes before the next record, and nothing in it looks like a header.
Place(r, v, t, k, g) ==
    /\ k \in 0 .. Len(t) /\ v \in Seq(Unit) /\ g \in Seq(Unit) /\ NoType(g)
    /\ Unread(r) <= Len(Body(t, k))
    /\ Before(r, v) = g \o Ahead(t, k, Unread(r), r.pad)
    /\ r.hdr # <<>> \/ r.at \in {"header", "process"} \/ g # <<>> => Unread(r) = 0 /\ r.pad = 0
    /\ r.at = "padding" => Unread(r) = 0
    /\ r.avail > 0 => r.at = "top"
    /\ r.skip => r.len > 0 /\ r.avail = 0 /\ r.sub = "none"
    /\ r.sub # "none" => r.hdr = <<>> /\ r.at # "process"

LEMMA ReadersAre ==
    ASSUME NEW r, Sound(r)
    PROVE  /\ r \in Readers /\ r.buf \in Seq(Unit) /\ r.hdr \in Seq(Unit)
           /\ r.avail \in Nat /\ r.len \in Nat /\ r.pad \in Nat /\ Unread(r) \in Nat
           /\ Len(r.buf) \in Nat /\ Len(r.hdr) \in Nat /\ r.avail <= Len(r.buf)
           /\ Len(r.hdr) <= HeaderLen /\ (r.at = "process" => Len(r.hdr) = HeaderLen)
           /\ r.skip \in BOOLEAN /\ r.closed \in BOOLEAN /\ r.err \in BOOLEAN
           /\ r.sub \in {"none", "body", "values"}
           /\ r.at \in {"top", "padding", "header", "process"}
<1>1. r \in Readers /\ Fits(r.buf, r.avail, r.hdr, r.at)
    BY DEF Sound
<1>2. /\ r.buf \in Seq(Unit) /\ r.hdr \in Seq(Unit)
      /\ r.avail \in Nat /\ r.len \in Nat /\ r.pad \in Nat
      /\ r.skip \in BOOLEAN /\ r.closed \in BOOLEAN /\ r.err \in BOOLEAN
      /\ r.sub \in {"none", "body", "values"}
      /\ r.at \in {"top", "padding", "header", "process"}
    BY <1>1 DEF Readers
<1> QED BY <1>1, <1>2 DEF Fits, Unread

\* What a step of the reader within a record leaves as it was.
Within(r, q) == q.sub = r.sub /\ q.err = r.err

\* Of n units of content, m are taken from the buffer b.
Took(t, k, b, v, n, p, m) ==
    /\ Rest(b, m) \o v = Ahead(t, k, n - m, p)
    /\ SubSeq(b, 1, m) \in Seq(Unit)
    /\ Rest(Body(t, k), Len(Body(t, k)) - n)
          = SubSeq(b, 1, m) \o Rest(Body(t, k), Len(Body(t, k)) - (n - m))

LEMMA ContentTaken ==
    ASSUME NEW t \in Seq(Record), NEW k \in 0 .. Len(t), NEW b \in Seq(Unit), NEW v \in Seq(Unit),
           NEW n \in 0 .. Len(Body(t, k)), NEW p \in Nat, NEW m \in 0 .. n,
           b \o v = Ahead(t, k, n, p), m <= Len(b)
    PROVE  Took(t, k, b, v, n, p, m)
<1>1. PICK c \in Seq(Unit) :
          /\ Len(c) = m
          /\ Ahead(t, k, n, p) = c \o Ahead(t, k, n - m, p)
          /\ Rest(Body(t, k), Len(Body(t, k)) - n)
                = c \o Rest(Body(t, k), Len(Body(t, k)) - (n - m))
    BY AheadContent
<1> DEFINE a == Ahead(t, k, n - m, p)
<1>2. a \in Seq(Unit)
    <2>1. n - m \in 0 .. Len(Body(t, k))
        BY BodyIs
    <2> QED BY <2>1, AheadIs
<1>3. b \o v = c \o a /\ Len(c) <= Len(b)
    BY <1>1
<1> HIDE DEF a
<1>4. SubSeq(b, 1, Len(c)) = c /\ Rest(b, Len(c)) \o v = a
    BY <1>2, <1>3, TakeFrom
<1> QED BY <1>1, <1>4 DEF a, Took

LEMMA PaddingTaken ==
    ASSUME NEW t \in Seq(Record), NEW k \in 0 .. Len(t), NEW b \in Seq(Unit), NEW v \in Seq(Unit),
           NEW p \in Nat, NEW m \in 0 .. p,
           b \o v = Ahead(t, k, 0, p), m <= Len(b)
    PROVE  Rest(b, m) \o v = Ahead(t, k, 0, p - m)
<1>1. PICK c \in Seq(Unit) : Len(c) = m /\ Ahead(t, k, 0, p) = c \o Ahead(t, k, 0, p - m)
    BY AheadPadding
<1> DEFINE a == Ahead(t, k, 0, p - m)
<1>2. a \in Seq(Unit)
    <2>1. p - m \in Nat /\ 0 \in 0 .. Len(Body(t, k))
        BY BodyIs
    <2> QED BY <2>1, AheadIs
<1>3. b \o v = c \o a /\ Len(c) <= Len(b)
    BY <1>1
<1> HIDE DEF a
<1>4. Rest(b, Len(c)) \o v = a
    BY <1>2, <1>3, TakeFrom
<1> QED BY <1>1, <1>4 DEF a

\* A reader that has no header and has not lost its place.
LEMMA PlaceInside ==
    ASSUME NEW r, Sound(r), NEW v, NEW t \in Seq(Record), NEW k, NEW g, Place(r, v, t, k, g),
           Unread(r) # 0 \/ r.pad # 0
    PROVE  /\ r.hdr = <<>> /\ g = <<>> /\ r.buf \o v = Ahead(t, k, Unread(r), r.pad)
           /\ r.at \in {"top", "padding"}
<1>1. /\ r.hdr = <<>> /\ g = <<>> /\ r.at \notin {"header", "process"}
      /\ r.hdr \o (r.buf \o v) = g \o Ahead(t, k, Unread(r), r.pad)
      /\ k \in 0 .. Len(t) /\ v \in Seq(Unit)
    BY DEF Place, Before
<1>2. /\ r.buf \in Seq(Unit) /\ r.at \in {"top", "padding", "header", "process"}
      /\ Unread(r) \in Nat /\ r.pad \in Nat
    BY ReadersAre
<1>3. Unread(r) \in 0 .. Len(Body(t, k))
    BY <1>1, <1>2, BodyIs DEF Place
<1>4. r.buf \o v \in Seq(Unit) /\ Ahead(t, k, Unread(r), r.pad) \in Seq(Unit)
    BY <1>1, <1>2, <1>3, UnitsJoin, AheadIs
<1> QED BY <1>1, <1>2, <1>4, UnitsJoin

-----------------------------------------------------------------------------
LEMMA SplitAt ==
    ASSUME NEW S, NEW s \in Seq(S), NEW n \in 0 .. Len(s)
    PROVE  s = SubSeq(s, 1, n) \o Rest(s, n)
<1> DEFINE c == SubSeq(s, 1, n)
           r == Rest(s, n)
<1>1. c \in Seq(S) /\ Len(c) = n /\ \A i \in 1 .. n : c[i] = s[i]
    OBVIOUS
<1>2. r \in Seq(S) /\ Len(r) = Len(s) - n /\ \A i \in 1 .. Len(s) - n : r[i] = s[n + i]
    BY RestOf
<1>3. /\ c \o r \in Seq(S) /\ Len(c \o r) = Len(c) + Len(r)
      /\ \A i \in 1 .. Len(c) : (c \o r)[i] = c[i]
      /\ \A i \in 1 .. Len(r) : (c \o r)[Len(c) + i] = r[i]
    BY <1>1, <1>2, JoinAt
<1> HIDE DEF c, r
<1>4. Len(s) \in Nat /\ n \in Nat /\ n <= Len(s)
    OBVIOUS
<1>5. Len(c \o r) = Len(s)
    BY <1>1, <1>2, <1>3, <1>4
<1>6. ASSUME NEW i \in 1 .. Len(s) PROVE s[i] = (c \o r)[i]
    <2>1. CASE i <= n
        <3>1. i \in 1 .. n /\ i \in 1 .. Len(c)
            BY <1>1, <1>4, <2>1
        <3> QED BY <1>1, <1>3, <3>1
    <2>2. CASE ~(i <= n)
        <3>1. i - n \in 1 .. Len(r) /\ i - n \in 1 .. Len(s) - n /\ n + (i - n) = i
            BY <1>2, <1>4, <2>2
        <3>2. r[i - n] = s[n + (i - n)] /\ (c \o r)[Len(c) + (i - n)] = r[i - n]
            BY <1>2, <1>3, <3>1
        <3> QED BY <1>1, <3>1, <3>2
    <2> QED BY <2>1, <2>2
<1>7. s = c \o r
    BY <1>3, <1>5, <1>6, SequencesEqual
<1> QED BY <1>7 DEF c, r

\* What the reader still owes its caller of the record it is at.
Left(r, t, k) == IF r.sub = "none" /\ ~r.skip
                 THEN Rest(Body(t, k), Len(Body(t, k)) - Unread(r)) ELSE <<>>

LEMMA LeftNothing ==
    ASSUME NEW r, NEW t \in Seq(Record), NEW k \in 0 .. Len(t), Unread(r) = 0
    PROVE  Left(r, t, k) = <<>>
<1>1. Body(t, k) \in Seq(Unit) /\ Len(Body(t, k)) - 0 = Len(Body(t, k))
    BY BodyIs
<1>2. Rest(Body(t, k), Len(Body(t, k))) = <<>>
    BY <1>1, RestOf
<1> QED BY <1>1, <1>2 DEF Left

\* A step in a record: the reader is where it was, and owes its caller what it did.
Goes(r, q, v, t, k, g) ==
    /\ Place(q, v, t, k, g) /\ Left(q, t, k) = Left(r, t, k)
    /\ q.sub = r.sub /\ q.err = r.err
    /\ q.closed => r.closed \/ (q.sub # "none" /\ Unread(q) = 0 /\ q.pad = 0)

LEMMA ContentGoes ==
    ASSUME Sound(in), FillContent, NEW t \in Seq(Record), NEW v, NEW k, NEW g, Place(in, v, t, k, g)
    PROVE  Goes(in, in', v, t, k, g)
<1> DEFINE n  == Smaller(in.len, Len(in.buf))
           b  == Rest(in.buf, n)
           l  == in.len - n
           sk == n < in.len
           at == IF n < in.len THEN "top" ELSE "padding"
<1>1. /\ in \in Readers /\ in.buf \in Seq(Unit) /\ in.hdr \in Seq(Unit)
      /\ in.len \in Nat /\ in.pad \in Nat /\ Len(in.buf) \in Nat /\ in.skip \in BOOLEAN
    BY ReadersAre
<1>2. in.avail = 0 /\ in.at = "top" /\ Unread(in) = in.len
    BY <1>1 DEF FillContent, Filling, Unread
<1>3. n \in 0 .. Len(in.buf) /\ n \in 0 .. in.len /\ l \in Nat /\ (in.len = 0 => n = 0)
    BY <1>1 DEF Smaller
<1>4. k \in 0 .. Len(t) /\ v \in Seq(Unit) /\ Unread(in) <= Len(Body(t, k)) /\ Len(Body(t, k)) \in Nat
    BY BodyIs DEF Place
<1>5. \/ in.len = 0 /\ in' = [in EXCEPT !.at = "padding"]
      \/ in.len # 0 /\ ~in.skip /\ in' = [in EXCEPT !.avail = n, !.len = l]
      \/ in.len # 0 /\ in.skip /\ in' = [in EXCEPT !.buf = b, !.len = l, !.skip = sk, !.at = at]
    BY DEF FillContent, Reader
<1>6. b \in Seq(Unit)
    BY <1>1, <1>3, RestIs
<1>7. sk \in BOOLEAN /\ at \in {"top", "padding"} /\ (sk <=> l > 0) /\ (at = "padding" <=> l = 0)
    BY <1>1, <1>3
<1>71. in.len # 0 => n > 0
    <2>1. in.buf # <<>>
        BY DEF FillContent
    <2>2. Len(in.buf) > 0
        BY <1>1, <2>1
    <2> QED BY <1>1, <2>2 DEF Smaller
<1> HIDE DEF n, b, l, sk, at
<1>8. CASE in.len = 0 /\ in' = [in EXCEPT !.at = "padding"]
    <2>1. /\ in'.buf = in.buf /\ in'.hdr = in.hdr /\ in'.avail = 0 /\ in'.len = 0
          /\ in'.pad = in.pad /\ in'.skip = in.skip /\ in'.sub = in.sub /\ in'.at = "padding"
          /\ in'.err = in.err /\ in'.closed = in.closed
        BY <1>1, <1>2, <1>8 DEF Readers
    <2>2. Unread(in') = 0 /\ Unread(in) = 0 /\ Before(in', v) = Before(in, v)
        BY <1>2, <1>8, <2>1 DEF Unread, Before
    <2>21. ~in.skip
        BY <1>8 DEF Place
    <2>3. Place(in', v, t, k, g)
        BY <1>2, <2>1, <2>2, <2>21 DEF Place
    <2>4. Left(in', t, k) = <<>> /\ Left(in, t, k) = <<>>
        BY <1>4, <2>2, LeftNothing
    <2> QED BY <2>1, <2>3, <2>4 DEF Goes
<1>9. CASE in.len # 0 /\ ~in.skip /\ in' = [in EXCEPT !.avail = n, !.len = l]
    <2>1. /\ in'.buf = in.buf /\ in'.hdr = in.hdr /\ in'.avail = n /\ in'.len = l
          /\ in'.pad = in.pad /\ in'.skip = in.skip /\ in'.sub = in.sub /\ in'.at = in.at
          /\ in'.err = in.err /\ in'.closed = in.closed
        BY <1>1, <1>9 DEF Readers
    <2>2. Unread(in') = Unread(in) /\ Before(in', v) = Before(in, v)
        BY <1>1, <1>2, <1>3, <2>1 DEF Unread, Before, l
    <2>3. Place(in', v, t, k, g)
        BY <1>2, <1>9, <2>1, <2>2 DEF Place
    <2>4. Left(in', t, k) = Left(in, t, k)
        BY <2>1, <2>2 DEF Left
    <2> QED BY <2>1, <2>3, <2>4 DEF Goes
<1>10. CASE in.len # 0 /\ in.skip /\ in' = [in EXCEPT !.buf = b, !.len = l, !.skip = sk, !.at = at]
    <2>1. /\ in'.buf = b /\ in'.hdr = in.hdr /\ in'.avail = 0 /\ in'.len = l
          /\ in'.pad = in.pad /\ in'.skip = sk /\ in'.sub = in.sub /\ in'.at = at
          /\ in'.err = in.err /\ in'.closed = in.closed
        BY <1>1, <1>2, <1>10 DEF Readers
    <2>2. Unread(in') = l /\ l = in.len - n
        BY <1>1, <1>3, <2>1 DEF Unread, l
    <2>3. /\ in.hdr = <<>> /\ g = <<>> /\ in.buf \o v = Ahead(t, k, in.len, in.pad) /\ in.sub = "none"
        BY <1>2, <1>10, PlaceInside DEF Place
    <2>4. b \o v = Ahead(t, k, l, in.pad)
        <3>1. in.len \in 0 .. Len(Body(t, k)) /\ n \in 0 .. in.len /\ n <= Len(in.buf)
            BY <1>1, <1>2, <1>3, <1>4
        <3>2. in.buf \in Seq(Unit) /\ v \in Seq(Unit) /\ in.pad \in Nat /\ k \in 0 .. Len(t)
            BY <1>1, <1>4
        <3>3. in.buf \o v = Ahead(t, k, in.len, in.pad)
            BY <2>3
        <3>4. Took(t, k, in.buf, v, in.len, in.pad, n)
            BY <3>1, <3>2, <3>3, ContentTaken
        <3> QED BY <2>2, <3>4 DEF b, Took
    <2>5. l <= Len(Body(t, k)) /\ l \in 0 .. Len(Body(t, k))
        BY <1>1, <1>2, <1>3, <1>4, <2>2
    <2>6. Before(in', v) = g \o Ahead(t, k, l, in.pad)
        <3>1. b \o v \in Seq(Unit)
            BY <1>4, <1>6, UnitsJoin
        <3> QED BY <2>1, <2>3, <2>4, <3>1, UnitsJoin DEF Before
    <2>7. Place(in', v, t, k, g)
        BY <1>2, <1>4, <1>7, <2>1, <2>2, <2>3, <2>5, <2>6 DEF Place
    <2>8. Left(in, t, k) = <<>> /\ Left(in', t, k) = <<>>
        <3>1. CASE sk
            BY <1>10, <2>1, <3>1 DEF Left
        <3>2. CASE ~sk
            <4>1. Unread(in') = 0
                BY <1>3, <1>7, <2>2, <3>2
            <4> QED BY <1>4, <1>10, <4>1, LeftNothing DEF Left
        <3> QED BY <3>1, <3>2
    <2> QED BY <2>1, <2>7, <2>8 DEF Goes
<1> QED BY <1>5, <1>8, <1>9, <1>10

LEMMA PaddingGoes ==
    ASSUME Sound(in), FillPadding, NEW t \in Seq(Record), NEW v, NEW k, NEW g, Place(in, v, t, k, g)
    PROVE  Goes(in, in', v, t, k, g)
<1> DEFINE n  == Smaller(in.pad, Len(in.buf))
           b  == Rest(in.buf, n)
           p  == in.pad - n
           at == IF n < in.pad THEN "top" ELSE "header"
<1>1. /\ in \in Readers /\ in.buf \in Seq(Unit) /\ in.hdr \in Seq(Unit)
      /\ in.len \in Nat /\ in.pad \in Nat /\ Len(in.buf) \in Nat
    BY ReadersAre
<1>2. in.avail = 0 /\ in.at = "padding" /\ Unread(in) = 0 /\ in.len = 0
    BY <1>1 DEF FillPadding, Filling, Unread, Place
<1>3. n \in 0 .. Len(in.buf) /\ n \in 0 .. in.pad /\ p \in Nat
    BY <1>1 DEF Smaller
<1>4. k \in 0 .. Len(t) /\ v \in Seq(Unit) /\ Unread(in) <= Len(Body(t, k)) /\ Len(Body(t, k)) \in Nat
    BY BodyIs DEF Place
<1>5. in' = [in EXCEPT !.buf = b, !.pad = p, !.at = at]
    BY DEF FillPadding, Reader
<1>6. b \in Seq(Unit)
    BY <1>1, <1>3, RestIs
<1>7. at \in {"top", "header"} /\ (at = "header" => p = 0)
    BY <1>1, <1>3
<1> HIDE DEF n, b, p, at
<1>8. /\ in'.buf = b /\ in'.hdr = in.hdr /\ in'.avail = 0 /\ in'.len = 0
      /\ in'.pad = p /\ in'.skip = in.skip /\ in'.sub = in.sub /\ in'.at = at
      /\ in'.err = in.err /\ in'.closed = in.closed
    BY <1>1, <1>2, <1>5 DEF Readers
<1>9. Unread(in') = 0 /\ ~in.skip
    BY <1>2, <1>8 DEF Unread, Place
<1>10. Before(in', v) = g \o Ahead(t, k, 0, p)
    <2>1. CASE in.pad = 0
        <3>1. n = 0 /\ p = 0
            <4>1. n \in 0 .. 0
                BY <1>3, <2>1
            <4>2. n = 0
                BY <4>1
            <4>3. p = 0 - 0
                BY <2>1, <4>2 DEF p
            <4> QED BY <4>2, <4>3
        <3>2. b = in.buf
            BY <1>1, <3>1, RestOf DEF b
        <3>3. Before(in', v) = Before(in, v)
            BY <1>8, <3>2 DEF Before
        <3> QED BY <1>2, <2>1, <3>1, <3>3 DEF Place
    <2>2. CASE in.pad # 0
        <3>1. in.hdr = <<>> /\ g = <<>> /\ in.buf \o v = Ahead(t, k, 0, in.pad)
            BY <1>2, <2>2, PlaceInside
        <3>2. Rest(in.buf, n) \o v = Ahead(t, k, 0, in.pad - n)
            <4>1. n <= Len(in.buf)
                BY <1>1, <1>3
            <4> QED BY <1>1, <1>3, <1>4, <3>1, <4>1, PaddingTaken, ZenonT(40)
        <3>3. b \o v \in Seq(Unit)
            BY <1>4, <1>6, UnitsJoin
        <3>4. b \o v = Ahead(t, k, 0, p)
            BY <3>2 DEF b, p
        <3> QED BY <1>8, <3>1, <3>3, <3>4, UnitsJoin DEF Before
    <2> QED BY <2>1, <2>2
<1>11. in.hdr # <<>> \/ g # <<>> => p = 0
    <2>1. in.hdr # <<>> \/ g # <<>> => in.pad = 0
        BY DEF Place
    <2> QED BY <1>1, <1>3, <2>1 DEF p
<1>12. Place(in', v, t, k, g)
    BY <1>4, <1>7, <1>8, <1>9, <1>10, <1>11 DEF Place
<1>13. Left(in', t, k) = <<>> /\ Left(in, t, k) = <<>>
    BY <1>2, <1>4, <1>9, LeftNothing
<1> QED BY <1>8, <1>12, <1>13 DEF Goes

LEMMA HeaderGoes ==
    ASSUME Sound(in), FillHeader, NEW t \in Seq(Record), NEW v, NEW k, NEW g, Place(in, v, t, k, g)
    PROVE  Goes(in, in', v, t, k, g)
<1> DEFINE m  == HeaderLen - Len(in.hdr)
           n  == Smaller(m, Len(in.buf))
           b  == Rest(in.buf, n)
           c  == SubSeq(in.buf, 1, n)
           h  == in.hdr \o c
           at == IF Len(in.hdr) + n < HeaderLen THEN "top" ELSE "process"
<1>1. /\ in \in Readers /\ in.buf \in Seq(Unit) /\ in.hdr \in Seq(Unit)
      /\ in.len \in Nat /\ in.pad \in Nat /\ Len(in.buf) \in Nat
      /\ Len(in.hdr) \in Nat /\ Len(in.hdr) <= HeaderLen
    BY ReadersAre
<1>2. in.avail = 0 /\ in.at = "header" /\ Unread(in) = 0 /\ in.len = 0 /\ in.pad = 0 /\ ~in.skip
    BY <1>1 DEF FillHeader, Filling, Unread, Place
<1>3. n \in 0 .. Len(in.buf)
    <2>1. m \in Nat
        BY <1>1 DEF HeaderLen
    <2> HIDE DEF m
    <2> QED BY <1>1, <2>1 DEF Smaller
<1>4. k \in 0 .. Len(t) /\ v \in Seq(Unit) /\ Unread(in) <= Len(Body(t, k)) /\ Len(Body(t, k)) \in Nat
    BY BodyIs DEF Place
<1>5. \/ in.sub # "none" /\ in' = [in EXCEPT !.closed = TRUE, !.at = "top"]
      \/ in.sub = "none" /\ in' = [in EXCEPT !.buf = b, !.hdr = h, !.at = at]
    BY DEF FillHeader, Reader
<1>6. b \in Seq(Unit) /\ c \in Seq(Unit) /\ in.buf = c \o b
    <2>1. b \in Seq(Unit) /\ c \in Seq(Unit)
        BY <1>1, <1>3, RestIs, FirstIs
    <2>2. in.buf = c \o b
        BY <1>1, <1>3, SplitAt
    <2> QED BY <2>1, <2>2
<1>7. at \in {"top", "process"}
    OBVIOUS
<1> HIDE DEF m, n, b, c, at
<1>8. h \in Seq(Unit)
    BY <1>1, <1>6, UnitsJoin
<1>9. Before(in, v) = g \o Ahead(t, k, 0, 0)
    BY <1>2 DEF Place
<1>10. CASE in.sub # "none" /\ in' = [in EXCEPT !.closed = TRUE, !.at = "top"]
    <2>1. /\ in'.buf = in.buf /\ in'.hdr = in.hdr /\ in'.avail = 0 /\ in'.len = 0
          /\ in'.pad = 0 /\ in'.skip = in.skip /\ in'.sub = in.sub /\ in'.at = "top"
          /\ in'.err = in.err
        BY <1>1, <1>2, <1>10 DEF Readers
    <2>2. Unread(in') = 0 /\ Before(in', v) = Before(in, v)
        BY <2>1 DEF Unread, Before
    <2>3. Place(in', v, t, k, g)
        BY <1>2, <1>10, <2>1, <2>2 DEF Place
    <2>4. Left(in', t, k) = <<>> /\ Left(in, t, k) = <<>>
        BY <1>2, <1>4, <2>2, LeftNothing
    <2> QED BY <1>10, <2>1, <2>2, <2>3, <2>4 DEF Goes
<1>11. CASE in.sub = "none" /\ in' = [in EXCEPT !.buf = b, !.hdr = h, !.at = at]
    <2> HIDE DEF h
    <2>1. /\ in'.buf = b /\ in'.hdr = h /\ in'.avail = 0 /\ in'.len = 0
          /\ in'.pad = 0 /\ in'.skip = in.skip /\ in'.sub = in.sub /\ in'.at = at
          /\ in'.err = in.err /\ in'.closed = in.closed
        BY <1>1, <1>2, <1>11 DEF Readers
    <2>2. Unread(in') = 0
        BY <2>1 DEF Unread
    <2>3. Before(in', v) = Before(in, v)
        <3>1. (in.hdr \o c) \o (b \o v) = in.hdr \o (c \o (b \o v))
            <4>1. b \o v \in Seq(Unit)
                BY <1>4, <1>6, UnitsJoin
            <4> QED BY <1>1, <1>6, <4>1, UnitsAssoc
        <3>2. (c \o b) \o v = c \o (b \o v)
            BY <1>4, <1>6, UnitsAssoc
        <3> QED BY <1>6, <2>1, <3>1, <3>2 DEF Before, h
    <2>4. Place(in', v, t, k, g)
        BY <1>2, <1>4, <1>7, <1>9, <1>11, <2>1, <2>2, <2>3 DEF Place
    <2>5. Left(in', t, k) = <<>> /\ Left(in, t, k) = <<>>
        BY <1>2, <1>4, <2>2, LeftNothing
    <2> QED BY <2>1, <2>4, <2>5 DEF Goes
<1> QED BY <1>5, <1>10, <1>11

-----------------------------------------------------------------------------
\* What is on the wire, and what was lost behind it when the connection was cut.
Incoming(v) == \E z \in Seq(Unit) : v = wire \o z /\ (conn # "cut" => z = <<>>)

\* read moves the beginning of what is on the wire into the buffer.
LEMMA ReadGoes ==
    ASSUME Sound(in), wire \in Seq(Unit), in.buf = <<>>,
           NEW n \in 0 .. Len(wire), in' = [in EXCEPT !.buf = SubSeq(wire, 1, n)],
           wire' = Rest(wire, n), UNCHANGED conn,
           NEW t \in Seq(Record), NEW v, NEW k, NEW g, Place(in, v, t, k, g), Incoming(v)
    PROVE  \E u : Incoming(u)' /\ Goes(in, in', u, t, k, g)
<1> DEFINE c == SubSeq(wire, 1, n)
           r == Rest(wire, n)
<1>1. PICK z \in Seq(Unit) : v = wire \o z /\ (conn # "cut" => z = <<>>)
    BY DEF Incoming
<1>0. PICK u : u = r \o z
    OBVIOUS
<1>2. c \in Seq(Unit) /\ r \in Seq(Unit) /\ wire = c \o r
    BY RestIs, FirstIs, SplitAt
<1>3. in \in Readers /\ in' = [in EXCEPT !.buf = c] /\ wire' = r
    BY ReadersAre
<1> HIDE DEF c, r
<1>4. Incoming(u)'
    BY <1>0, <1>1, <1>3 DEF Incoming
<1>5. u \in Seq(Unit) /\ c \o u = v
    <2>1. (c \o r) \o z = c \o (r \o z)
        BY <1>1, <1>2, UnitsAssoc, SMTT(40)
    <2>2. r \o z \in Seq(Unit)
        BY <1>1, <1>2, UnitsJoin
    <2> QED BY <1>0, <1>1, <1>2, <2>1, <2>2
<1>6. /\ in'.buf = c /\ in'.hdr = in.hdr /\ in'.avail = in.avail /\ in'.len = in.len
      /\ in'.pad = in.pad /\ in'.skip = in.skip /\ in'.sub = in.sub /\ in'.at = in.at
      /\ in'.err = in.err /\ in'.closed = in.closed
    BY <1>3 DEF Readers
<1>7. Before(in', u) = Before(in, v) /\ Unread(in') = Unread(in)
    <2>1. v \in Seq(Unit) /\ in.buf \o v = v
        BY UnitsJoin DEF Place
    <2> QED BY <1>5, <1>6, <2>1 DEF Before, Unread
<1>8. Place(in', u, t, k, g)
    BY <1>5, <1>6, <1>7 DEF Place
<1>9. Left(in', t, k) = Left(in, t, k)
    BY <1>6, <1>7 DEF Left
<1> QED BY <1>4, <1>6, <1>8, <1>9 DEF Goes

\* The caller takes from the buffer what it is owed.
Passes(r, q, t, k, n) == r.sub = "none" => Left(r, t, k) = SubSeq(r.buf, 1, n) \o Left(q, t, k)
Owes(r, q, t, k, n) == Rest(Body(t, k), Len(Body(t, k)) - Unread(r))
                          = SubSeq(r.buf, 1, n) \o Rest(Body(t, k), Len(Body(t, k)) - Unread(q))

LEMMA TakeGoes ==
    ASSUME Sound(in), NEW n \in 1 .. in.avail,
           in' = [in EXCEPT !.buf = Rest(in.buf, n), !.avail = in.avail - n],
           NEW t \in Seq(Record), NEW v, NEW k, NEW g, Place(in, v, t, k, g)
    PROVE  /\ Place(in', v, t, k, g) /\ g = <<>>
           /\ in'.sub = in.sub /\ in'.err = in.err /\ in'.closed = in.closed /\ ~in'.skip
           /\ Passes(in, in', t, k, n) /\ Owes(in, in', t, k, n)
<1> DEFINE b == Rest(in.buf, n)
           m == in.avail - n
<1>1. /\ in \in Readers /\ in.buf \in Seq(Unit) /\ in.hdr \in Seq(Unit)
      /\ in.len \in Nat /\ in.pad \in Nat /\ Len(in.buf) \in Nat /\ in.avail \in Nat
      /\ in.avail <= Len(in.buf) /\ in.skip \in BOOLEAN /\ Unread(in) \in Nat
    BY ReadersAre
<1>2. in.avail > 0 /\ in.at = "top" /\ ~in.skip /\ Unread(in) # 0 /\ n \in 0 .. Len(in.buf) /\ m \in Nat
    <2>1. in.avail > 0 /\ n \in 0 .. Len(in.buf) /\ m \in Nat
        BY <1>1
    <2>2. in.at = "top" /\ ~in.skip
        BY <1>1, <2>1 DEF Place
    <2>3. Unread(in) # 0
        BY <1>1, <2>1 DEF Unread
    <2> QED BY <2>1, <2>2, <2>3
<1>3. /\ k \in 0 .. Len(t) /\ v \in Seq(Unit) /\ Unread(in) \in 0 .. Len(Body(t, k))
      /\ Len(Body(t, k)) \in Nat
    BY <1>1, BodyIs DEF Place
<1>4. in.hdr = <<>> /\ g = <<>> /\ in.buf \o v = Ahead(t, k, Unread(in), in.pad)
    BY <1>2, PlaceInside
<1>5. b \in Seq(Unit)
    BY <1>1, <1>2, RestIs
<1>6. in' = [in EXCEPT !.buf = b, !.avail = m]
    OBVIOUS
<1> HIDE DEF b, m
<1>7. /\ in'.buf = b /\ in'.hdr = in.hdr /\ in'.avail = m /\ in'.len = in.len
      /\ in'.pad = in.pad /\ in'.skip = in.skip /\ in'.sub = in.sub /\ in'.at = "top"
      /\ in'.err = in.err /\ in'.closed = in.closed
    BY <1>1, <1>2, <1>6 DEF Readers
<1>8. Unread(in') = Unread(in) - n /\ n \in 0 .. Unread(in)
    BY <1>1, <1>7 DEF Unread, m
<1>9. /\ b \o v = Ahead(t, k, Unread(in'), in.pad)
      /\ Rest(Body(t, k), Len(Body(t, k)) - Unread(in))
            = SubSeq(in.buf, 1, n) \o Rest(Body(t, k), Len(Body(t, k)) - Unread(in'))
    <2> DEFINE x == Unread(in)
               c == in.buf
               q == in.pad
    <2>1. /\ x \in 0 .. Len(Body(t, k)) /\ n \in 0 .. x /\ n <= Len(c)
          /\ c \o v = Ahead(t, k, x, q) /\ q \in Nat /\ c \in Seq(Unit)
          /\ v \in Seq(Unit) /\ k \in 0 .. Len(t)
        BY <1>1, <1>2, <1>3, <1>4, <1>8
    <2> HIDE DEF x, c, q
    <2>2. /\ Rest(c, n) \o v = Ahead(t, k, x - n, q)
          /\ Rest(Body(t, k), Len(Body(t, k)) - x)
                = SubSeq(c, 1, n) \o Rest(Body(t, k), Len(Body(t, k)) - (x - n))
        <3>1. x \in 0 .. Len(Body(t, k)) /\ n \in 0 .. x /\ n <= Len(c)
            BY <2>1
        <3>2. c \o v = Ahead(t, k, x, q) /\ q \in Nat
            BY <2>1
        <3>3. c \in Seq(Unit) /\ v \in Seq(Unit) /\ k \in 0 .. Len(t)
            BY <2>1
        <3>4. Took(t, k, c, v, x, q, n)
            BY <3>1, <3>2, <3>3, ContentTaken
        <3> QED BY <3>4 DEF Took
    <2> QED BY <1>8, <2>2 DEF b, x, c, q
<1>10. Before(in', v) = g \o Ahead(t, k, Unread(in'), in.pad)
    <2>1. b \o v \in Seq(Unit)
        BY <1>3, <1>5, UnitsJoin
    <2> QED BY <1>4, <1>7, <1>9, <2>1, UnitsJoin DEF Before
<1>11. Unread(in') <= Len(Body(t, k))
    BY <1>3, <1>8
<1>12. Place(in', v, t, k, g)
    BY <1>2, <1>3, <1>4, <1>7, <1>10, <1>11 DEF Place
<1>13. in.sub = "none" => Left(in, t, k) = SubSeq(in.buf, 1, n) \o Left(in', t, k)
    BY <1>2, <1>7, <1>9 DEF Left
<1>14. Passes(in, in', t, k, n) /\ Owes(in, in', t, k, n)
    BY <1>9, <1>13 DEF Passes, Owes
<1> QED BY <1>2, <1>4, <1>7, <1>12, <1>14

LEMMA NotEmpty ==
    ASSUME NEW S, NEW s \in Seq(S), Len(s) = 2
    PROVE  s # <<>>
OBVIOUS

\* A sequence that begins with something else begins with its first unit.
LEMMA HeadOf ==
    ASSUME NEW S, NEW a \in Seq(S), NEW b \in Seq(S), NEW c \in Seq(S), NEW d \in Seq(S),
           a \o b = c \o d, a # <<>>, c # <<>>
    PROVE  a[1] = c[1]
<1>1. 1 \in 1 .. Len(a) /\ 1 \in 1 .. Len(c)
    OBVIOUS
<1>2. (a \o b)[1] = a[1]
    BY <1>1, JoinAt
<1>3. (c \o d)[1] = c[1]
    BY <1>1, JoinAt
<1> QED BY <1>2, <1>3

LEMMA UnitsHead ==
    ASSUME NEW a \in Seq(Unit), NEW b \in Seq(Unit), NEW c \in Seq(Unit), NEW d \in Seq(Unit),
           a \o b = c \o d, a # <<>>, c # <<>>
    PROVE  a[1] = c[1]
BY HeadOf

LEMMA PartsEqual ==
    ASSUME NEW S, NEW a \in Seq(S), NEW b \in Seq(S), NEW c \in Seq(S), NEW d \in Seq(S),
           a \o b = c \o d, Len(a) = Len(c)
    PROVE  a = c /\ b = d
<1>1. SubSeq(a, 1, Len(c)) = c /\ Rest(a, Len(c)) \o b = d
    <2>1. Len(c) <= Len(a)
        OBVIOUS
    <2> QED BY <2>1, TakeFrom
<1>2. SubSeq(a, 1, Len(a)) = a /\ Rest(a, Len(a)) = <<>>
    <2>1. SubSeq(a, 1, Len(a)) = a
        OBVIOUS
    <2> QED BY <2>1, RestOf
<1>3. <<>> \o b = b
    BY JoinEmpty
<1> QED BY <1>1, <1>2, <1>3

\* The header that is to be processed is that of the next record, if the reader
\* has not lost its place.
HeadOfNext(r, v, t, k) ==
    /\ k \in 0 .. Len(t) - 1 /\ k + 1 \in 0 .. Len(t)
    /\ t[k + 1] \in Record
    /\ r.hdr = Header(t[k + 1].type, t[k + 1].id, Len(t[k + 1].data), t[k + 1].pad)
    /\ r.buf \o v = Ahead(t, k + 1, Len(t[k + 1].data), t[k + 1].pad)
    /\ Len(t[k + 1].data) = Len(Body(t, k + 1))

LEMMA HeaderPlace ==
    ASSUME NEW r, Sound(r), Len(r.hdr) = HeaderLen,
           NEW t \in Seq(Record), NEW v, NEW k, NEW g, Place(r, v, t, k, g)
    PROVE  /\ g # <<>> => r.hdr[1][1] # "type"
           /\ g = <<>> => HeadOfNext(r, v, t, k)
<1>1. r.hdr \in Seq(Unit) /\ r.buf \in Seq(Unit) /\ r.hdr # <<>> /\ HeaderLen = 2
    <2>1. r.hdr \in Seq(Unit) /\ r.buf \in Seq(Unit)
        BY ReadersAre
    <2>2. HeaderLen = 2 /\ Len(<<>>) = 0
        BY DEF HeaderLen
    <2>3. Len(r.hdr) = 2
        BY <2>2
    <2>4. r.hdr # <<>>
        BY <2>1, <2>3, NotEmpty
    <2> QED BY <2>1, <2>2, <2>4
<1>2. /\ k \in 0 .. Len(t) /\ v \in Seq(Unit) /\ g \in Seq(Unit) /\ NoType(g)
      /\ Unread(r) = 0 /\ r.pad = 0
      /\ r.hdr \o (r.buf \o v) = g \o Ahead(t, k, 0, 0)
    BY <1>1 DEF Place, Before
<1>3. r.buf \o v \in Seq(Unit) /\ Ahead(t, k, 0, 0) \in Seq(Unit)
    BY <1>1, <1>2, UnitsJoin, AheadEmpty
<1>4. ASSUME g # <<>> PROVE r.hdr[1][1] # "type"
    <2> DEFINE d == Ahead(t, k, 0, 0)
               b == r.buf \o v
    <2>0. b \in Seq(Unit) /\ d \in Seq(Unit) /\ r.hdr \o b = g \o d
        BY <1>2, <1>3
    <2> HIDE DEF d, b
    <2>1. r.hdr[1] = g[1]
        <3>1. r.hdr \in Seq(Unit) /\ g \in Seq(Unit) /\ r.hdr # <<>>
            BY <1>1, <1>2
        <3> QED BY <1>4, <2>0, <3>1, UnitsHead
    <2>2. 1 \in 1 .. Len(g)
        BY <1>2, <1>4
    <2> QED BY <1>2, <2>1, <2>2 DEF NoType
<1>5. ASSUME g = <<>> PROVE HeadOfNext(r, v, t, k)
    <2>1. r.hdr \o (r.buf \o v) = Ahead(t, k, 0, 0)
        BY <1>2, <1>3, <1>5, UnitsJoin
    <2>2. k # Len(t)
        <3>1. ASSUME k = Len(t) PROVE FALSE
            <4>1. Ahead(t, k, 0, 0) = <<>>
                BY <3>1, AheadEnd
            <4>2. Len(r.hdr \o (r.buf \o v)) = Len(r.hdr) + Len(r.buf \o v)
                BY <1>1, <1>3, UnitsJoin
            <4>3. Len(r.buf \o v) \in Nat /\ Len(<<>>) = 0
                BY <1>3
            <4> QED BY <1>1, <2>1, <4>1, <4>2, <4>3
        <3> QED BY <3>1
    <2>3. k \in 0 .. Len(t) - 1
        BY <1>2, <2>2
    <2> DEFINE q == t[k + 1]
               h == Header(q.type, q.id, Len(q.data), q.pad)
               a == Ahead(t, k + 1, Len(q.data), q.pad)
    <2>4. /\ q \in Record /\ k + 1 \in 0 .. Len(t) /\ Len(q.data) = Len(Body(t, k + 1))
          /\ Ahead(t, k, 0, 0) = h \o a
        BY <2>3, AheadNext
    <2>5. q.type \in Types /\ q.id \in Nat /\ q.pad \in Nat /\ Len(q.data) \in Nat
        BY <2>4 DEF Record
    <2>6. h \in Seq(Unit) /\ Len(h) = HeaderLen
        BY <2>5, UnitsAre
    <2>7. a \in Seq(Unit)
        <3>1. Len(q.data) \in 0 .. Len(Body(t, k + 1))
            BY <2>4, <2>5
        <3> QED BY <2>4, <2>5, <3>1, AheadIs
    <2> HIDE DEF q, h, a
    <2>8. r.hdr \o (r.buf \o v) = h \o a
        BY <2>1, <2>4
    <2>9. r.hdr = h /\ r.buf \o v = a
        BY <1>1, <1>3, <2>6, <2>7, <2>8, PartsEqual
    <2> QED BY <2>3, <2>4, <2>9 DEF HeadOfNext, q, h, a
<1> QED BY <1>4, <1>5

-----------------------------------------------------------------------------
\* The reader is at the beginning of a record.
AtNext(q, r, t, k) ==
    /\ q.buf = r.buf /\ q.hdr = <<>> /\ q.at = "top" /\ q.avail = 0
    /\ q.len = Len(t[k + 1].data) /\ q.pad = t[k + 1].pad
    /\ q.skip => q.len > 0 /\ q.sub = "none"

LEMMA NextPlace ==
    ASSUME NEW t \in Seq(Record), NEW r, Sound(r), NEW v \in Seq(Unit), NEW k, HeadOfNext(r, v, t, k),
           NEW q, AtNext(q, r, t, k)
    PROVE  Place(q, v, t, k + 1, <<>>) /\ Unread(q) = Len(t[k + 1].data)
<1>1. /\ k + 1 \in 0 .. Len(t) /\ t[k + 1] \in Record
      /\ r.buf \o v = Ahead(t, k + 1, Len(t[k + 1].data), t[k + 1].pad)
      /\ Len(t[k + 1].data) = Len(Body(t, k + 1)) /\ Len(Body(t, k + 1)) \in Nat
    BY BodyIs DEF HeadOfNext
<1>2. Unread(q) = Len(t[k + 1].data)
    BY <1>1 DEF Unread, AtNext
<1>3. r.buf \in Seq(Unit) /\ r.buf \o v \in Seq(Unit)
    BY ReadersAre, UnitsJoin
<1>4. Before(q, v) = <<>> \o Ahead(t, k + 1, Unread(q), q.pad)
    <2> DEFINE x == r.buf \o v
    <2>1. x \in Seq(Unit) /\ x = Ahead(t, k + 1, Unread(q), q.pad)
        BY <1>1, <1>2, <1>3 DEF AtNext
    <2>2. Before(q, v) = <<>> \o x
        BY DEF Before, AtNext
    <2> HIDE DEF x
    <2> QED BY <2>1, <2>2
<1>5. NoType(<<>>) /\ <<>> \in Seq(Unit)
    BY DEF NoType
<1>6. Unread(q) <= Len(Body(t, k + 1))
    BY <1>1, <1>2
<1> QED BY <1>1, <1>2, <1>4, <1>5, <1>6 DEF Place, AtNext

LEMMA NoTypeJoin ==
    ASSUME NEW x \in Seq(Unit), NoType(x), NEW y \in Seq(Unit), NoType(y)
    PROVE  NoType(x \o y)
<1> DEFINE z == x \o y
<1>1. /\ \A i \in 1 .. Len(x) : z[i] = x[i]
      /\ \A i \in 1 .. Len(y) : z[Len(x) + i] = y[i]
      /\ Len(z) = Len(x) + Len(y)
    BY JoinAt
<1>2. Len(x) \in Nat /\ Len(y) \in Nat
    OBVIOUS
<1> HIDE DEF z
<1>3. ASSUME NEW i \in 1 .. Len(z) PROVE z[i][1] # "type"
    <2>1. CASE i \in 1 .. Len(x)
        BY <1>1, <2>1 DEF NoType
    <2>2. CASE i \notin 1 .. Len(x)
        <3> DEFINE m == i - Len(x)
        <3>1. m \in 1 .. Len(y) /\ i = Len(x) + m
            BY <1>1, <1>2, <1>3, <2>2
        <3> HIDE DEF m
        <3>2. z[i] = y[m]
            BY <1>1, <3>1
        <3> QED BY <3>1, <3>2 DEF NoType
    <2> QED BY <2>1, <2>2
<1> QED BY <1>3 DEF NoType, z

\* What is ahead of the reader is a part of a record without a header, and then records.
LEMMA AheadParts ==
    ASSUME NEW t \in Seq(Record), NEW k \in 0 .. Len(t), NEW n \in 0 .. Len(Body(t, k)), NEW p \in Nat
    PROVE  \E x \in Seq(Unit) : NoType(x) /\ Ahead(t, k, n, p) = x \o Later(Records(t), k)
<1> DEFINE b == Body(t, k)
           c == Rest(b, Len(b) - n)
           q == Padding(p)
           l == Later(Records(t), k)
           x == c \o q
<1>1. c \in Seq(Unit) /\ l \in Seq(Unit) /\ q \in Seq(Unit) /\ NoType(q)
    BY AheadIs, UnitsAre
<1>2. NoType(c)
    <2>1. b \in Seq(Unit) /\ NoType(b) /\ Len(b) - n \in 0 .. Len(b) /\ Len(b) \in Nat
        BY BodyIs
    <2> DEFINE m == Len(b) - n
    <2>2. m \in 0 .. Len(b)
        BY <2>1
    <2> HIDE DEF m, b
    <2>3. Len(Rest(b, m)) = Len(b) - m /\ \A i \in 1 .. Len(b) - m : Rest(b, m)[i] = b[m + i]
        BY <2>1, <2>2, RestOf
    <2>4. \A i \in 1 .. Len(b) - m : m + i \in 1 .. Len(b)
        BY <2>1, <2>2
    <2>5. NoType(Rest(b, m))
        BY <2>1, <2>3, <2>4 DEF NoType
    <2> QED BY <2>5 DEF m
<1>3. Ahead(t, k, n, p) = c \o (q \o l)
    BY DEF Ahead
<1> HIDE DEF b, c, q, l
<1>4. c \o (q \o l) = x \o l
    BY <1>1, UnitsAssoc
<1>5. x \in Seq(Unit)
    BY <1>1, UnitsJoin
<1>6. NoType(x)
    BY <1>1, <1>2, NoTypeJoin
<1> HIDE DEF x
<1> QED BY <1>3, <1>4, <1>5, <1>6 DEF l

\* What an error leaves of a reader.
Lost(r, v, t, k) ==
    \E j \in {k, k + 1}, x \in Seq(Unit) :
        /\ j \in 0 .. Len(t) /\ NoType(x)
        /\ r.buf \o v = x \o Later(Records(t), j)
        /\ j = k + 1 => r.hdr # <<>> /\ (Len(r.hdr) = 1 => x # <<>>)

LEMMA LostIs ==
    ASSUME NEW r, NEW v, NEW t, NEW k, NEW j \in {k, k + 1}, NEW x \in Seq(Unit),
           j \in 0 .. Len(t), NoType(x), r.buf \o v = x \o Later(Records(t), j),
           j = k + 1 => r.hdr # <<>> /\ (Len(r.hdr) = 1 => x # <<>>)
    PROVE  Lost(r, v, t, k)
BY DEF Lost

LEMMA FailPlace ==
    ASSUME NEW r, Sound(r), NEW t \in Seq(Record), NEW v, NEW k, Place(r, v, t, k, <<>>)
    PROVE  Lost(r, v, t, k)
<1>1. /\ r.hdr \in Seq(Unit) /\ r.buf \in Seq(Unit) /\ Unread(r) \in Nat /\ r.pad \in Nat
      /\ Len(r.hdr) \in Nat /\ Len(r.hdr) <= 2
    BY ReadersAre DEF HeaderLen
<1>2. k \in 0 .. Len(t) /\ v \in Seq(Unit) /\ Unread(r) \in 0 .. Len(Body(t, k))
    BY <1>1, BodyIs DEF Place
<1> DEFINE a == Ahead(t, k, Unread(r), r.pad)
           u == r.buf \o v
<1>3. u \in Seq(Unit) /\ a \in Seq(Unit) /\ r.hdr \o u = a
    <2>1. u \in Seq(Unit)
        BY <1>1, <1>2, UnitsJoin
    <2>2. a \in Seq(Unit)
        BY <1>1, <1>2, AheadIs
    <2>3. r.hdr \o u = <<>> \o a
        BY DEF Place, Before
    <2> HIDE DEF a, u
    <2> QED BY <2>1, <2>2, <2>3, UnitsJoin
<1> HIDE DEF u
<1>4. CASE r.hdr = <<>>
    <2>1. PICK x \in Seq(Unit) : NoType(x) /\ a = x \o Later(Records(t), k)
        BY <1>1, <1>2, AheadParts
    <2> HIDE DEF a
    <2>2. u = a
        BY <1>3, <1>4, UnitsJoin
    <2>3. k # k + 1
        BY <1>2
    <2> QED BY <1>2, <2>1, <2>2, <2>3, LostIs DEF u
<1>5. CASE Len(r.hdr) = 2
    <2>1. HeadOfNext(r, v, t, k)
        BY <1>5, HeaderPlace DEF HeaderLen
    <2>2. /\ k + 1 \in 0 .. Len(t) /\ t[k + 1] \in Record
          /\ Len(t[k + 1].data) \in 0 .. Len(Body(t, k + 1))
          /\ u = Ahead(t, k + 1, Len(t[k + 1].data), t[k + 1].pad)
        BY <2>1, BodyIs DEF HeadOfNext, u
    <2>3. t[k + 1].pad \in Nat
        BY <2>2 DEF Record
    <2>4. PICK x \in Seq(Unit) : NoType(x) /\ u = x \o Later(Records(t), k + 1)
        BY <2>2, <2>3, AheadParts
    <2>5. r.hdr # <<>> /\ Len(r.hdr) # 1
        BY <1>1, <1>5, NotEmpty
    <2> QED BY <2>2, <2>4, <2>5, LostIs DEF u
<1>6. CASE Len(r.hdr) = 1
    <2>1. r.hdr # <<>>
        BY <1>6
    <2>2. Unread(r) = 0 /\ r.pad = 0
        BY <2>1 DEF Place
    <2>3. k # Len(t)
        <3>1. ASSUME k = Len(t) PROVE FALSE
            <4>1. a = <<>>
                BY <2>2, <3>1, AheadEnd
            <4>2. Len(r.hdr \o u) = Len(r.hdr) + Len(u)
                BY <1>1, <1>3, UnitsJoin
            <4>3. Len(u) \in Nat /\ Len(<<>>) = 0
                BY <1>3
            <4> HIDE DEF a
            <4> QED BY <1>1, <1>3, <1>6, <4>1, <4>2, <4>3
        <3> QED BY <3>1
    <2>4. k \in 0 .. Len(t) - 1
        BY <1>2, <2>3
    <2> DEFINE q == t[k + 1]
               h == Header(q.type, q.id, Len(q.data), q.pad)
               h1 == <<h[1]>>
               h2 == <<h[2]>>
               y == Ahead(t, k + 1, Len(q.data), q.pad)
    <2>5. /\ q \in Record /\ k + 1 \in 0 .. Len(t) /\ Len(q.data) = Len(Body(t, k + 1))
          /\ Ahead(t, k, 0, 0) = h \o y
        BY <2>4, AheadNext
    <2>6. q.type \in Types /\ q.id \in Nat /\ q.pad \in Nat /\ Len(q.data) \in Nat
        BY <2>5 DEF Record
    <2>7. h \in Seq(Unit) /\ Len(h) = 2 /\ h = h1 \o h2
        <3>1. h \in Seq(Unit) /\ Len(h) = 2
            BY <2>6, UnitsAre DEF HeaderLen
        <3>2. h = <<h[1], h[2]>>
            BY DEF Header
        <3> HIDE DEF h
        <3>3. <<h[1], h[2]>> = h1 \o h2
            OBVIOUS
        <3> QED BY <3>1, <3>2, <3>3
    <2>8. h2[1][1] # "type"
        BY DEF Header
    <2>9. PICK x \in Seq(Unit) : NoType(x) /\ y = x \o Later(Records(t), k + 1)
        <3>1. Len(q.data) \in 0 .. Len(Body(t, k + 1))
            BY <2>5, <2>6
        <3> QED BY <2>5, <2>6, <3>1, AheadParts
    <2> DEFINE l == Later(Records(t), k + 1)
               z == h2 \o x
    <2>10. l \in Seq(Unit)
        <3>1. 0 \in 0 .. Len(Body(t, k + 1))
            BY <2>5, <2>6
        <3> QED BY <2>5, <2>6, <3>1, AheadIs
    <2>11. h1 \in Seq(Unit) /\ h2 \in Seq(Unit) /\ Len(h1) = 1 /\ Len(h2) = 1
        <3>1. h[1] \in Unit /\ h[2] \in Unit
            BY <2>7
        <3> HIDE DEF h
        <3> QED BY <3>1
    <2>12. NoType(h2)
        <3> HIDE DEF h2
        <3> QED BY <2>8, <2>11 DEF NoType
    <2>13. r.hdr \o u = h \o y
        BY <1>3, <2>2, <2>5
    <2> HIDE DEF q, h, h1, h2, y, l, a
    <2>14. (h1 \o h2) \o (x \o l) = h1 \o (h2 \o (x \o l))
        <3>1. x \o l \in Seq(Unit)
            BY <2>9, <2>10, UnitsJoin
        <3> QED BY <2>11, <3>1, UnitsAssoc
    <2>15. h2 \o (x \o l) = (h2 \o x) \o l /\ h2 \o (x \o l) \in Seq(Unit)
        <3>1. x \o l \in Seq(Unit)
            BY <2>9, <2>10, UnitsJoin
        <3>2. h2 \o (x \o l) = (h2 \o x) \o l
            BY <2>9, <2>10, <2>11, UnitsAssoc
        <3> QED BY <2>11, <3>1, <3>2, UnitsJoin
    <2>16. u = h2 \o (x \o l)
        <3> DEFINE d == h2 \o (x \o l)
        <3>1. d \in Seq(Unit) /\ r.hdr \o u = h1 \o d
            BY <2>7, <2>9, <2>13, <2>14, <2>15 DEF l
        <3> HIDE DEF d
        <3>2. u = d
            BY <1>1, <1>3, <1>6, <2>11, <3>1, PartsEqual
        <3> QED BY <3>2 DEF d
    <2>17. z \in Seq(Unit) /\ NoType(z) /\ z # <<>>
        <3>1. z \in Seq(Unit) /\ Len(z) = Len(h2) + Len(x)
            BY <2>9, <2>11, UnitsJoin
        <3>2. Len(x) \in Nat /\ Len(<<>>) = 0
            BY <2>9
        <3>3. NoType(z)
            BY <2>9, <2>11, <2>12, NoTypeJoin
        <3> HIDE DEF z
        <3> QED BY <2>11, <3>1, <3>2, <3>3
    <2>18. u = z \o l
        BY <2>15, <2>16
    <2> HIDE DEF z
    <2> QED BY <2>1, <2>5, <2>17, <2>18, LostIs DEF u, l
<1>7. Len(r.hdr) = 0 => r.hdr = <<>>
    BY <1>1
<1> DEFINE m == Len(r.hdr)
<1>8. m \in Nat /\ m <= 2
    BY <1>1
<1> HIDE DEF m
<1>9. m = 0 \/ m = 1 \/ m = 2
    BY <1>8
<1> QED BY <1>4, <1>5, <1>6, <1>7, <1>9 DEF m

-----------------------------------------------------------------------------
(* The shape of a request that keeps to the protocol.                      *)

\* It begins at this record,
Start(t) == CHOOSE i \in DOMAIN t : /\ t[i].type = "begin"
                                     /\ \A j \in 1 .. i - 1 : t[j].type # "begin"

\* and its parameters end at e.
EndsAt(t, e) ==
    /\ e \in Start(t) + 1 .. Len(t) - 1
    /\ \A i \in {e, Len(t)} : t[i].id = 1 /\ t[i].data = <<>> /\ t[i].pad = 0
    /\ \A i \in Start(t) + 1 .. Len(t) : t[i].id = 1 =>
          /\ t[i].type = IF i <= e THEN "params" ELSE "stdin"
          /\ i \notin {e, Len(t)} => t[i].data # <<>>
End(t) == CHOOSE e : EndsAt(t, e)

\* The library answers it.
Proper(t) == t[Start(t)].id = 1 /\ t[Start(t)].data[1] = 0

LEMMA StartIs ==
    ASSUME NEW t, NEW b \in DOMAIN t, t \in Seq(Record), t[b].type = "begin",
           \A j \in 1 .. b - 1 : t[j].type # "begin"
    PROVE  Start(t) = b
<1>1. DOMAIN t = 1 .. Len(t) /\ Len(t) \in Nat
    OBVIOUS
<1>2. ASSUME NEW i \in DOMAIN t, t[i].type = "begin", \A j \in 1 .. i - 1 : t[j].type # "begin"
      PROVE  i = b
    <2>1. i \in Nat /\ b \in Nat /\ 1 <= i /\ 1 <= b
        BY <1>1
    <2>2. ~(i < b)
        <3>1. ASSUME i < b PROVE FALSE
            <4>1. i \in 1 .. b - 1
                BY <2>1, <3>1
            <4> QED BY <1>2, <4>1
        <3> QED BY <3>1
    <2>3. ~(b < i)
        <3>1. ASSUME b < i PROVE FALSE
            <4>1. b \in 1 .. i - 1
                BY <2>1, <3>1
            <4> QED BY <1>2, <4>1
        <3> QED BY <3>1
    <2> QED BY <2>1, <2>2, <2>3
<1> QED BY <1>2 DEF Start

LEMMA RegularIs ==
    ASSUME NEW t, Regular(t)
    PROVE  /\ t \in Seq(Record) /\ Begins(t) = t[Start(t)]
           /\ Start(t) \in 1 .. Len(t)
           /\ t[Start(t)].type = "begin" /\ t[Start(t)].id \in {0, 1}
           /\ Len(t[Start(t)].data) = BodyLen /\ t[Start(t)].pad = 0
           /\ \A i \in 1 .. Start(t) - 1 : t[i].id = 0 /\ t[i].type # "begin"
           /\ \A i \in Start(t) + 1 .. Len(t) :
                 t[i].type = "begin" => t[i].id \notin {0, 1} /\ Len(t[i].data) = BodyLen
           /\ \A i \in DOMAIN t : i # Start(t) =>
                 /\ t[i].id = 0 /\ t[i].type # "values" => t[i].data = <<>>
                 /\ t[i].id \notin {0, 1} => t[i].data # <<>>
           /\ Proper(t) => EndsAt(t, End(t))
<1>1. t \in Seq(Record) /\ DOMAIN t = 1 .. Len(t)
    BY DEF Regular
<1>2. PICK b \in DOMAIN t :
          /\ t[b].type = "begin" /\ t[b].id \in {0, 1}
          /\ Len(t[b].data) = BodyLen /\ t[b].pad = 0
          /\ \A i \in 1 .. b - 1 : t[i].id = 0 /\ t[i].type # "begin"
          /\ \A i \in b + 1 .. Len(t) :
                t[i].type = "begin" => t[i].id \notin {0, 1} /\ Len(t[i].data) = BodyLen
          /\ \A i \in DOMAIN t : i # b =>
                /\ t[i].id = 0 /\ t[i].type # "values" => t[i].data = <<>>
                /\ t[i].id \notin {0, 1} => t[i].data # <<>>
          /\ \/ t[b].id = 0 \/ t[b].data[1] # 0
             \/ \E e \in b + 1 .. Len(t) - 1 :
                   /\ \A i \in {e, Len(t)} : t[i].id = 1 /\ t[i].data = <<>> /\ t[i].pad = 0
                   /\ \A i \in b + 1 .. Len(t) : t[i].id = 1 =>
                         /\ t[i].type = IF i <= e THEN "params" ELSE "stdin"
                         /\ i \notin {e, Len(t)} => t[i].data # <<>>
    BY DEF Regular
<1>3. Start(t) = b
    BY <1>1, <1>2, StartIs
<1>4. Begins(t) = t[Start(t)]
    BY DEF Begins, Start
<1>5. ASSUME Proper(t) PROVE EndsAt(t, End(t))
    <2>1. t[b].id = 1 /\ t[b].data[1] = 0
        BY <1>3, <1>5 DEF Proper
    <2>2. \E e : EndsAt(t, e)
        BY <1>2, <1>3, <2>1, SMTT(40) DEF EndsAt
    <2> HIDE DEF EndsAt
    <2> QED BY <2>2 DEF End
<1> QED BY <1>1, <1>2, <1>3, <1>4, <1>5

\* From lo to hi the records with the number of the request are those of one type, and
\* the one at hi is the empty one.
Segment(t, type, lo, hi) ==
    /\ lo \in 0 .. Len(t) /\ hi \in lo + 1 .. Len(t)
    /\ t[hi].id = 1 /\ t[hi].pad = 0
    /\ \A i \in lo + 1 .. hi :
          /\ t[i].id = 1 => t[i].type = type /\ (t[i].data = <<>> <=> i = hi)
          /\ t[i].id = 0 => t[i].type # "begin" /\ (t[i].type # "values" => t[i].data = <<>>)
          /\ t[i].id \notin {0, 1} =>
                t[i].data # <<>> /\ (t[i].type = "begin" => Len(t[i].data) = BodyLen)

LEMMA Segments ==
    ASSUME NEW t, Regular(t), Proper(t)
    PROVE  /\ Segment(t, "params", Start(t), End(t))
           /\ Segment(t, "stdin", End(t), Len(t))
<1> DEFINE b == Start(t)
           e == End(t)
<1>1. /\ t \in Seq(Record) /\ b \in 1 .. Len(t) /\ Len(t) \in Nat /\ DOMAIN t = 1 .. Len(t)
      /\ \A i \in b + 1 .. Len(t) :
            t[i].type = "begin" => t[i].id \notin {0, 1} /\ Len(t[i].data) = BodyLen
      /\ \A i \in DOMAIN t : i # b =>
            /\ t[i].id = 0 /\ t[i].type # "values" => t[i].data = <<>>
            /\ t[i].id \notin {0, 1} => t[i].data # <<>>
    BY RegularIs
<1>2. /\ e \in b + 1 .. Len(t) - 1
      /\ \A i \in {e, Len(t)} : t[i].id = 1 /\ t[i].data = <<>> /\ t[i].pad = 0
      /\ \A i \in b + 1 .. Len(t) : t[i].id = 1 =>
            /\ t[i].type = IF i <= e THEN "params" ELSE "stdin"
            /\ i \notin {e, Len(t)} => t[i].data # <<>>
    <2>1. EndsAt(t, e)
        BY RegularIs
    <2> HIDE DEF e
    <2> QED BY <2>1 DEF EndsAt
<1> HIDE DEF b, e
<1> DEFINE m == Len(t)
<1>21. /\ b \in 1 .. m /\ m \in Nat /\ DOMAIN t = 1 .. m /\ e \in b + 1 .. m - 1
    BY <1>1, <1>2
<1> HIDE DEF m
<1>3. /\ \A i \in b + 1 .. e : i \in b + 1 .. m /\ i # b /\ i \in DOMAIN t /\ i <= e /\ i # m
      /\ \A i \in e + 1 .. m : i \in b + 1 .. m /\ i # b /\ i \in DOMAIN t /\ ~(i <= e) /\ i # e
      /\ b \in 0 .. m /\ e \in b + 1 .. m /\ e \in 0 .. m /\ m \in e + 1 .. m
    BY <1>21
<1> USE DEF m
<1>4. Segment(t, "params", b, e)
    <2>1. ASSUME NEW i \in b + 1 .. e
          PROVE  /\ t[i].id = 1 => t[i].type = "params" /\ (t[i].data = <<>> <=> i = e)
                 /\ t[i].id = 0 => t[i].type # "begin" /\ (t[i].type # "values" => t[i].data = <<>>)
                 /\ t[i].id \notin {0, 1} =>
                       t[i].data # <<>> /\ (t[i].type = "begin" => Len(t[i].data) = BodyLen)
        BY <1>1, <1>2, <1>3
    <2> QED BY <1>2, <1>3, <2>1 DEF Segment
<1>5. Segment(t, "stdin", e, Len(t))
    <2>1. ASSUME NEW i \in e + 1 .. Len(t)
          PROVE  /\ t[i].id = 1 => t[i].type = "stdin" /\ (t[i].data = <<>> <=> i = Len(t))
                 /\ t[i].id = 0 => t[i].type # "begin" /\ (t[i].type # "values" => t[i].data = <<>>)
                 /\ t[i].id \notin {0, 1} =>
                       t[i].data # <<>> /\ (t[i].type = "begin" => Len(t[i].data) = BodyLen)
        BY <1>1, <1>2, <1>3
    <2> QED BY <1>2, <1>3, <2>1 DEF Segment
<1> QED BY <1>4, <1>5 DEF b, e

-----------------------------------------------------------------------------
(* What was sent as one stream, record by record.                          *)

Pieces(t, type) == [i \in DOMAIN t |-> IF t[i].type = type /\ t[i].id = Begins(t).id
                                       THEN Content(t[i].data) ELSE <<>>]
ToCome(t, type, k) == Later(Pieces(t, type), k)

LEMMA PiecesAre ==
    ASSUME NEW t \in Seq(Record), NEW type
    PROVE  /\ Pieces(t, type) \in Seq(Seq(Unit)) /\ Len(Pieces(t, type)) = Len(t)
           /\ \A k \in 0 .. Len(t) : ToCome(t, type, k) \in Seq(Unit)
           /\ \A k \in 0 .. Len(t) - 1 :
                 ToCome(t, type, k) = Pieces(t, type)[k + 1] \o ToCome(t, type, k + 1)
           /\ ToCome(t, type, 0) = FlattenSeq(Pieces(t, type))
           /\ ToCome(t, type, Len(t)) = <<>>
<1> DEFINE p == Pieces(t, type)
           X == Seq(Unit)
<1>1. DOMAIN t = 1 .. Len(t) /\ Len(t) \in Nat
    OBVIOUS
<1>2. ASSUME NEW i \in 1 .. Len(t) PROVE p[i] \in X
    <2>0. t[i] \in Record
        OBVIOUS
    <2>1. t[i].data \in Seq(Nat)
        BY <2>0 DEF Record
    <2>2. Content(t[i].data) \in X /\ <<>> \in X
        BY <2>1, UnitsAre
    <2>3. p[i] \in {Content(t[i].data), <<>>}
        BY <1>1 DEF Pieces
    <2> HIDE DEF p, X
    <2> QED BY <2>2, <2>3
<1>3. p = [i \in 1 .. Len(t) |-> p[i]]
    BY <1>1 DEF Pieces
<1> HIDE DEF p, X
<1>4. p \in Seq(X) /\ Len(p) = Len(t)
    BY <1>1, <1>2, <1>3
<1>5. /\ Later(p, 0) = FlattenSeq(p) /\ Later(p, Len(p)) = <<>>
      /\ \A k \in 0 .. Len(p) : Later(p, k) \in Seq(Unit)
      /\ \A k \in 0 .. Len(p) - 1 : Later(p, k) = p[k + 1] \o Later(p, k + 1)
    BY <1>4, LaterIs DEF X
<1> QED BY <1>4, <1>5 DEF ToCome, p, X

\* Nothing of a stream comes after its last record.
LEMMA NothingToCome ==
    ASSUME NEW t \in Seq(Record), NEW type, NEW k \in 0 .. Len(t),
           \A i \in k + 1 .. Len(t) : ~(t[i].type = type /\ t[i].id = Begins(t).id)
    PROVE  ToCome(t, type, k) = <<>>
<1> DEFINE p == Pieces(t, type)
<1>1. p \in Seq(Seq(Unit)) /\ Len(p) = Len(t)
    BY PiecesAre
<1>2. \A i \in k + 1 .. Len(t) : p[i] = <<>>
    <2>1. \A i \in k + 1 .. Len(t) : i \in DOMAIN t
        OBVIOUS
    <2> QED BY <2>1 DEF Pieces
<1> HIDE DEF p
<1>3. Later(p, k) = <<>>
    BY <1>1, <1>2, LaterNothing
<1> QED BY <1>3 DEF ToCome, p

\* Nor before its first.
LEMMA AllToCome ==
    ASSUME NEW t \in Seq(Record), NEW type, NEW k \in 0 .. Len(t),
           \A i \in 1 .. k : ~(t[i].type = type /\ t[i].id = Begins(t).id)
    PROVE  ToCome(t, type, k) = FlattenSeq(Pieces(t, type))
<1> DEFINE T == {m \in 0 .. k : ToCome(t, type, m) = FlattenSeq(Pieces(t, type))}
<1>0. k \in Nat /\ 0 \in 0 .. k
    OBVIOUS
<1>1. 0 \in T
    BY <1>0, PiecesAre
<1>2. ASSUME NEW m \in 0 .. k - 1, m \in T PROVE m + 1 \in T
    <2>1. m \in 0 .. Len(t) - 1 /\ m + 1 \in 1 .. k /\ m + 1 \in 0 .. k /\ m + 1 \in DOMAIN t
        BY <1>2
    <2>2. Pieces(t, type)[m + 1] = <<>>
        BY <2>1 DEF Pieces
    <2>3. /\ ToCome(t, type, m) = Pieces(t, type)[m + 1] \o ToCome(t, type, m + 1)
          /\ ToCome(t, type, m + 1) \in Seq(Unit)
        <3>1. m + 1 \in 0 .. Len(t)
            BY <2>1
        <3> QED BY <2>1, <3>1, PiecesAre
    <2>4. ToCome(t, type, m) = ToCome(t, type, m + 1)
        BY <2>2, <2>3, UnitsJoin
    <2> QED BY <1>2, <2>1, <2>4
<1> HIDE DEF T
<1>3. 0 .. k \subseteq T
    BY <1>0, <1>1, <1>2, InductionUpTo
<1>4. k \in T
    BY <1>0, <1>3
<1> QED BY <1>4 DEF T

-----------------------------------------------------------------------------
(* The reader of a stream of the request.                                  *)

\* r has given its caller o of the stream that ends with record hi, and is at record k.
OnCourse(r, o, t, type, k, hi, v) ==
    /\ Place(r, v, t, k, <<>>) /\ o \in Seq(Unit)
    /\ o \o (Left(r, t, k) \o ToCome(t, type, k)) = FlattenSeq(Pieces(t, type))
    /\ ~r.err /\ (r.closed => Unread(r) = 0 /\ r.pad = 0)
    /\ (r.closed /\ r.sub = "none") <=> k = hi

\* After an error that was taken for the end of the parameters, it looks for the body
\* among them, up to the empty record hi.
Adrift(r, o, t, k, hi, v, g) ==
    /\ Place(r, v, t, k, g) /\ o = <<>> /\ Left(r, t, k) = <<>>
    /\ r.err /\ k \in 0 .. hi /\ (g = <<>> => k < hi)
    /\ r.closed => r.sub = "values" /\ Unread(r) = 0 /\ r.pad = 0

LEMMA CourseGoes ==
    ASSUME NEW r, NEW o, NEW t, NEW type, NEW k, NEW hi, NEW v, OnCourse(r, o, t, type, k, hi, v),
           ~r.closed, NEW q, NEW u, Goes(r, q, u, t, k, <<>>)
    PROVE  OnCourse(q, o, t, type, k, hi, u)
BY DEF OnCourse, Goes

LEMMA DriftGoes ==
    ASSUME NEW r, NEW o, NEW t, NEW k, NEW hi, NEW v, NEW g, Adrift(r, o, t, k, hi, v, g),
           ~r.closed, NEW q, NEW u, Goes(r, q, u, t, k, g), r.sub \in {"none", "values"}
    PROVE  Adrift(q, o, t, k, hi, u, g)
BY DEF Adrift, Goes

\* The next record of a request, as the library meets it once the request has begun.
LEMMA NextRecord ==
    ASSUME FcgiInv, ProcessHeader, req.id = 1, req.begun,
           NEW t, NEW v, NEW k, HeadOfNext(in, v, t, k), in.sub = "none", ~in.closed, ~in.skip,
           t[k + 1].type = "begin" => t[k + 1].id \notin {0, 1} /\ Len(t[k + 1].data) = BodyLen,
           t[k + 1].id = 0 /\ t[k + 1].type # "values" => t[k + 1].data = <<>>,
           t[k + 1].id \notin {0, 1} => t[k + 1].data # <<>>
    PROVE  \/ /\ in' \in {Failed(in), [Failed(in) EXCEPT !.sub = "none"]}
              /\ t[k + 1].id = 1 => t[k + 1].type # Type
           \/ /\ AtNext(in', in, t, k) /\ ~in'.closed /\ in'.err = in.err /\ t[k + 1].id # 1
              /\ in'.sub \in {"none", "values"} /\ (in'.skip \/ in'.sub = "values" \/ in'.len = 0)
           \/ /\ AtNext(in', in, t, k) /\ in'.err = in.err
              /\ t[k + 1].id = 1 /\ t[k + 1].type = Type
              /\ in'.sub = "none" /\ ~in'.skip /\ (in'.closed <=> t[k + 1].data = <<>>)
<1> DEFINE c == t[k + 1]
<1>1. /\ c \in Record /\ in.hdr = Header(c.type, c.id, Len(c.data), c.pad)
    BY DEF HeadOfNext
<1>2. /\ c.type \in Types /\ c.id \in Nat /\ c.data \in Seq(Nat) /\ c.pad \in Nat
      /\ Len(c.data) \in Nat /\ (Len(c.data) = 0 <=> c.data = <<>>)
    BY <1>1 DEF Record
<1>3. Filling("process") /\ in.avail = 0
    BY DEF ProcessHeader, ProcessWrong, ProcessBegin, ProcessSecondBegin, ProcessOther, ProcessValues,
           ProcessUnknown, ProcessStream, IsRecord, Filling
<1>4. IsHeader /\ HdrType = c.type /\ HdrId = c.id /\ in.hdr[2][2] = Len(c.data) /\ in.hdr[2][3] = c.pad
    BY <1>1 DEF IsHeader, HdrType, HdrId, Header
<1>5. in \in Readers
    BY DEF FcgiInv, ReaderInv, Sound
<1> DEFINE n == Len(c.data)
           p == c.pad
           h == [in EXCEPT !.len = n, !.pad = p, !.hdr = <<>>, !.at = "top"]
<1>6. AtHeader = h
    BY <1>4 DEF AtHeader
<1>7. /\ t[k + 1].type = "begin" => c.id \notin {0, 1} /\ n = BodyLen
      /\ c.id = 0 /\ c.type # "values" => n = 0
      /\ c.id \notin {0, 1} => n > 0
    BY <1>2
<1>8. n \in Nat /\ p \in Nat
    BY <1>2
<1>9. c.type = t[k + 1].type /\ c.id = t[k + 1].id /\ n = Len(t[k + 1].data) /\ p = t[k + 1].pad
    OBVIOUS
<1> HIDE DEF n, p
<1>10. /\ h \in Readers /\ h.buf = in.buf /\ h.hdr = <<>> /\ h.at = "top" /\ h.avail = 0
       /\ h.len = n /\ h.pad = p /\ ~h.skip /\ h.err = in.err /\ ~h.closed /\ h.sub = "none"
    BY <1>3, <1>5, <1>8, <<>> \in Seq(Unit) DEF Readers
<1> HIDE DEF h
<1>11. AtNext(h, in, t, k)
    BY <1>9, <1>10 DEF AtNext
<1>12. ASSUME n > 0
       PROVE  LET q == [h EXCEPT !.skip = TRUE] IN
              /\ AtNext(q, in, t, k) /\ ~q.closed /\ q.err = in.err /\ q.sub = "none" /\ q.skip
    <2> DEFINE q == [h EXCEPT !.skip = TRUE]
    <2>1. /\ q.buf = in.buf /\ q.hdr = <<>> /\ q.at = "top" /\ q.avail = 0
          /\ q.len = n /\ q.pad = p /\ q.skip /\ q.err = in.err /\ ~q.closed /\ q.sub = "none"
        BY <1>10 DEF Readers
    <2> HIDE DEF q
    <2>2. AtNext(q, in, t, k)
        BY <1>9, <1>12, <2>1 DEF AtNext
    <2> QED BY <2>1, <2>2 DEF q
<1>13. LET q == [h EXCEPT !.sub = "values"] IN
       AtNext(q, in, t, k) /\ ~q.closed /\ q.err = in.err /\ q.sub = "values"
    <2> DEFINE q == [h EXCEPT !.sub = "values"]
    <2>1. /\ q.buf = in.buf /\ q.hdr = <<>> /\ q.at = "top" /\ q.avail = 0
          /\ q.len = n /\ q.pad = p /\ ~q.skip /\ q.err = in.err /\ ~q.closed /\ q.sub = "values"
        BY <1>10 DEF Readers
    <2> HIDE DEF q
    <2>2. AtNext(q, in, t, k)
        BY <1>9, <2>1 DEF AtNext
    <2> QED BY <2>1, <2>2 DEF q
<1>14. LET q == [h EXCEPT !.closed = h.len = 0] IN
       /\ AtNext(q, in, t, k) /\ q.err = in.err /\ q.sub = "none" /\ ~q.skip /\ (q.closed <=> n = 0)
    <2> DEFINE b == (h.len = 0)
               q == [h EXCEPT !.closed = b]
    <2>1. b \in BOOLEAN /\ (b <=> n = 0)
        BY <1>10
    <2> HIDE DEF b
    <2>2. /\ q.buf = in.buf /\ q.hdr = <<>> /\ q.at = "top" /\ q.avail = 0
          /\ q.len = n /\ q.pad = p /\ ~q.skip /\ q.err = in.err /\ q.closed = b /\ q.sub = "none"
        BY <1>10, <2>1 DEF Readers
    <2> HIDE DEF q
    <2>3. AtNext(q, in, t, k)
        BY <1>9, <2>2 DEF AtNext
    <2> QED BY <2>1, <2>2, <2>3 DEF q, b
<1> HIDE DEF c
<1>15. CASE ProcessWrong
    <2>1. in' = Failed(in)
        BY <1>15 DEF ProcessWrong, Reader
    <2>2. c.id = 1 => c.type # Type
        BY <1>4, <1>6, <1>7, <1>9, <1>10, <1>15 DEF ProcessWrong
    <2> QED BY <1>9, <2>1, <2>2
<1>16. CASE ProcessBegin
    BY <1>16 DEF ProcessBegin
<1>17. CASE ProcessSecondBegin
    <2>1. c.type = "begin" /\ n > 0 /\ c.id # 1
        BY <1>4, <1>7, <1>9, <1>17 DEF ProcessSecondBegin, IsRecord, BodyLen
    <2>2. in' \in {[AtHeader EXCEPT !.skip = TRUE], [Failed(in) EXCEPT !.sub = "none"]}
        BY <1>17 DEF ProcessSecondBegin, Reply
    <2> QED BY <1>6, <1>9, <1>12, <2>1, <2>2
<1>18. CASE ProcessOther
    <2>1. n > 0 /\ c.id # 1
        BY <1>4, <1>7, <1>9, <1>18 DEF ProcessOther
    <2>2. in' = [AtHeader EXCEPT !.skip = TRUE]
        BY <1>18 DEF ProcessOther, Reader
    <2> QED BY <1>6, <1>9, <1>12, <2>1, <2>2
<1>19. CASE ProcessValues
    <2>1. in' = [AtHeader EXCEPT !.sub = "values"] /\ c.id # 1
        BY <1>4, <1>19 DEF ProcessValues, IsRecord, Reader
    <2> QED BY <1>6, <1>9, <1>13, <2>1
<1>20. CASE ProcessUnknown
    <2>1. n = 0 /\ c.id # 1
        BY <1>4, <1>7, <1>9, <1>20 DEF ProcessUnknown
    <2>2. in' \in {AtHeader, [Failed(in) EXCEPT !.sub = "none"]}
        BY <1>20 DEF ProcessUnknown, Reply
    <2> QED BY <1>6, <1>9, <1>10, <1>11, <2>1, <2>2
<1>21. CASE ProcessStream
    <2>1. c.id = 1 /\ c.type = Type
        BY <1>4, <1>21 DEF ProcessStream
    <2>2. in' = [h EXCEPT !.closed = h.len = 0]
        BY <1>6, <1>21 DEF ProcessStream, Reader
    <2>3. n = 0 <=> t[k + 1].data = <<>>
        BY <1>2, <1>9 DEF c
    <2> QED BY <1>9, <1>14, <2>1, <2>2, <2>3
<1> QED BY <1>15, <1>16, <1>17, <1>18, <1>19, <1>20, <1>21 DEF ProcessHeader

-----------------------------------------------------------------------------
\* What was sent as a stream and is still to come when a record has been read.
LEMMA PieceIs ==
    ASSUME NEW t \in Seq(Record), NEW type, NEW k \in 0 .. Len(t) - 1
    PROVE  /\ ToCome(t, type, k) = Pieces(t, type)[k + 1] \o ToCome(t, type, k + 1)
           /\ ToCome(t, type, k) \in Seq(Unit) /\ ToCome(t, type, k + 1) \in Seq(Unit)
           /\ t[k + 1].type = type /\ t[k + 1].id = Begins(t).id
                 => Pieces(t, type)[k + 1] = Body(t, k + 1)
           /\ ~(t[k + 1].type = type /\ t[k + 1].id = Begins(t).id)
                 => ToCome(t, type, k) = ToCome(t, type, k + 1)
<1>1. k \in 0 .. Len(t) /\ k + 1 \in 0 .. Len(t) /\ k + 1 \in DOMAIN t /\ k + 1 # 0
    OBVIOUS
<1>2. /\ ToCome(t, type, k) = Pieces(t, type)[k + 1] \o ToCome(t, type, k + 1)
      /\ ToCome(t, type, k) \in Seq(Unit) /\ ToCome(t, type, k + 1) \in Seq(Unit)
    BY <1>1, PiecesAre
<1>3. ASSUME t[k + 1].type = type, t[k + 1].id = Begins(t).id
      PROVE  Pieces(t, type)[k + 1] = Body(t, k + 1)
    BY <1>1, <1>3 DEF Pieces, Body
<1>4. ASSUME ~(t[k + 1].type = type /\ t[k + 1].id = Begins(t).id)
      PROVE  ToCome(t, type, k) = ToCome(t, type, k + 1)
    <2>1. Pieces(t, type)[k + 1] = <<>>
        BY <1>1, <1>4 DEF Pieces
    <2> QED BY <1>2, <2>1, UnitsJoin
<1> QED BY <1>2, <1>3, <1>4

\* A header is processed when the record before it has been read to its end.
LEMMA AtProcess ==
    ASSUME FcgiInv, ProcessHeader, NEW t \in Seq(Record), NEW v, NEW k, NEW g, Place(in, v, t, k, g)
    PROVE  /\ Unread(in) = 0 /\ Left(in, t, k) = <<>> /\ k \in 0 .. Len(t) /\ v \in Seq(Unit)
           /\ in.sub = "none" /\ ~in.closed /\ ~in.skip /\ Sound(in) /\ Len(in.hdr) = HeaderLen
<1>1. Filling("process")
    BY DEF ProcessHeader, ProcessWrong, ProcessBegin, ProcessSecondBegin, ProcessOther, ProcessValues,
           ProcessUnknown, ProcessStream, IsRecord
<1>2. Sound(in) /\ ~in.closed /\ in.at = "process"
    BY <1>1 DEF Filling, FcgiInv, ReaderInv
<1>3. Len(in.hdr) = HeaderLen /\ in.len \in Nat /\ in.avail \in Nat
    BY <1>2, ReadersAre
<1>4. Unread(in) = 0 /\ k \in 0 .. Len(t) /\ v \in Seq(Unit) /\ in.sub = "none"
    BY <1>2 DEF Place
<1>5. ~in.skip
    BY <1>3, <1>4 DEF Place, Unread
<1>6. Left(in, t, k) = <<>>
    BY <1>4, LeftNothing
<1> QED BY <1>2, <1>3, <1>4, <1>5, <1>6

\* What an error in a header leaves.
Fails == in' \in {Failed(in), [Failed(in) EXCEPT !.sub = "none"]}

LEMMA CourseNext ==
    ASSUME FcgiInv, ProcessHeader, req.id = 1, req.begun, NEW t \in Seq(Record), Begins(t).id = 1,
           NEW lo, NEW hi, Segment(t, Type, lo, hi), NEW k \in lo .. hi,
           NEW o, NEW v, OnCourse(in, o, t, Type, k, hi, v)
    PROVE  \/ /\ OnCourse(in', o, t, Type, k + 1, hi, v) /\ k + 1 \in lo .. hi
              /\ in'.sub \in {"none", "values"}
           \/ Fails /\ k + 1 < hi
<1> DEFINE type == Type
           q == in'
<1>0. PICK r : r = q
    OBVIOUS
<1>1. /\ Place(in, v, t, k, <<>>) /\ ~in.err /\ o \in Seq(Unit)
      /\ o \o (Left(in, t, k) \o ToCome(t, type, k)) = FlattenSeq(Pieces(t, type))
      /\ (in.closed /\ in.sub = "none") <=> k = hi
    BY DEF OnCourse
<1>2. /\ Left(in, t, k) = <<>> /\ k \in 0 .. Len(t) /\ v \in Seq(Unit)
      /\ in.sub = "none" /\ ~in.closed /\ ~in.skip /\ Sound(in) /\ Len(in.hdr) = HeaderLen
    BY <1>1, AtProcess
<1>3. HeadOfNext(in, v, t, k)
    BY <1>1, <1>2, HeaderPlace
<1>4. k # hi /\ lo \in 0 .. Len(t) /\ hi \in lo + 1 .. Len(t)
    BY <1>1, <1>2 DEF Segment
<1>5. k + 1 \in lo + 1 .. hi /\ k + 1 \in lo .. hi /\ k \in 0 .. Len(t) - 1
      /\ k + 1 \in 0 .. Len(t) /\ k \in Nat
    BY <1>2, <1>4
<1>6. /\ t[k + 1].id = 1 => t[k + 1].type = type /\ (t[k + 1].data = <<>> <=> k + 1 = hi)
      /\ t[k + 1].id = 0 => t[k + 1].type # "begin" /\ (t[k + 1].type # "values" => t[k + 1].data = <<>>)
      /\ t[k + 1].id \notin {0, 1} =>
            t[k + 1].data # <<>> /\ (t[k + 1].type = "begin" => Len(t[k + 1].data) = BodyLen)
      /\ t[hi].id = 1 /\ t[hi].pad = 0
    BY <1>5 DEF Segment
<1>7. type # "begin"
    BY DEF Type
<1>8. \/ /\ in' \in {Failed(in), [Failed(in) EXCEPT !.sub = "none"]}
         /\ t[k + 1].id = 1 => t[k + 1].type # type
      \/ /\ AtNext(q, in, t, k) /\ ~q.closed /\ q.err = in.err /\ t[k + 1].id # 1
         /\ q.sub \in {"none", "values"} /\ (q.skip \/ q.sub = "values" \/ q.len = 0)
      \/ /\ AtNext(q, in, t, k) /\ q.err = in.err
         /\ t[k + 1].id = 1 /\ t[k + 1].type = type
         /\ q.sub = "none" /\ ~q.skip /\ (q.closed <=> t[k + 1].data = <<>>)
    <2>1. t[k + 1].type = "begin" => t[k + 1].id \notin {0, 1} /\ Len(t[k + 1].data) = BodyLen
        BY <1>6, <1>7
    <2>2. t[k + 1].id = 0 /\ t[k + 1].type # "values" => t[k + 1].data = <<>>
        BY <1>6
    <2>3. t[k + 1].id \notin {0, 1} => t[k + 1].data # <<>>
        BY <1>6
    <2> QED BY <1>2, <1>3, <2>1, <2>2, <2>3, NextRecord
<1>9. ASSUME AtNext(r, in, t, k)
      PROVE  /\ Place(r, v, t, k + 1, <<>>) /\ Unread(r) = Len(t[k + 1].data)
             /\ r.pad = t[k + 1].pad /\ Len(t[k + 1].data) = Len(Body(t, k + 1)) /\ r.avail = 0
             /\ r.len = Len(t[k + 1].data) /\ t[k + 1] \in Record
    <2>1. Place(r, v, t, k + 1, <<>>) /\ Unread(r) = Len(t[k + 1].data)
        BY <1>2, <1>3, <1>9, NextPlace
    <2> QED BY <1>3, <1>9, <2>1 DEF AtNext, HeadOfNext
<1>10. /\ ToCome(t, type, k) = Pieces(t, type)[k + 1] \o ToCome(t, type, k + 1)
       /\ ToCome(t, type, k) \in Seq(Unit) /\ ToCome(t, type, k + 1) \in Seq(Unit)
       /\ t[k + 1].type = type /\ t[k + 1].id = 1 => Pieces(t, type)[k + 1] = Body(t, k + 1)
       /\ ~(t[k + 1].type = type /\ t[k + 1].id = 1) => ToCome(t, type, k) = ToCome(t, type, k + 1)
    BY <1>5, PieceIs
<1>11. o \o ToCome(t, type, k) = FlattenSeq(Pieces(t, type))
    BY <1>1, <1>2, <1>10, UnitsJoin
<1> HIDE DEF type, q
<1>12. CASE /\ in' \in {Failed(in), [Failed(in) EXCEPT !.sub = "none"]}
            /\ t[k + 1].id = 1 => t[k + 1].type # type
    <2>1. t[k + 1].id # 1
        BY <1>6, <1>12
    <2>2. k + 1 # hi
        BY <1>6, <2>1
    <2>3. k + 1 < hi
        BY <1>4, <1>5, <2>2
    <2> QED BY <1>12, <2>3 DEF Fails
<1>13. CASE /\ AtNext(r, in, t, k) /\ ~r.closed /\ r.err = in.err /\ t[k + 1].id # 1
            /\ r.sub \in {"none", "values"} /\ (r.skip \/ r.sub = "values" \/ r.len = 0)
    <2>1. Left(r, t, k + 1) = <<>>
        <3>1. CASE r.skip \/ r.sub = "values"
            BY <3>1 DEF Left
        <3>2. CASE r.len = 0
            <4>1. Unread(r) = 0
                BY <1>9, <1>13, <3>2
            <4> QED BY <1>5, <4>1, LeftNothing
        <3> QED BY <1>13, <3>1, <3>2
    <2>2. k + 1 # hi
        BY <1>6, <1>13
    <2>3. o \o (Left(r, t, k + 1) \o ToCome(t, type, k + 1)) = FlattenSeq(Pieces(t, type))
        BY <1>10, <1>11, <1>13, <2>1, UnitsJoin
    <2>4. OnCourse(r, o, t, type, k + 1, hi, v)
        BY <1>1, <1>9, <1>13, <2>2, <2>3 DEF OnCourse
    <2> QED BY <1>0, <1>5, <1>13, <2>4 DEF type, q
<1>14. CASE /\ AtNext(r, in, t, k) /\ r.err = in.err
            /\ t[k + 1].id = 1 /\ t[k + 1].type = type
            /\ r.sub = "none" /\ ~r.skip /\ (r.closed <=> t[k + 1].data = <<>>)
    <2>1. Left(r, t, k + 1) = Body(t, k + 1)
        <3> DEFINE b == Body(t, k + 1)
        <3>1. b \in Seq(Unit) /\ Len(b) \in Nat /\ Unread(r) = Len(b)
            BY <1>5, <1>9, <1>14, BodyIs
        <3>2. Len(b) - Unread(r) = 0
            BY <3>1
        <3>3. Rest(b, 0) = b
            BY <3>1, RestOf
        <3> QED BY <1>14, <3>2, <3>3 DEF Left
    <2>2. o \o (Left(r, t, k + 1) \o ToCome(t, type, k + 1)) = FlattenSeq(Pieces(t, type))
        BY <1>10, <1>11, <1>14, <2>1
    <2>3. r.closed <=> k + 1 = hi
        BY <1>6, <1>14
    <2>4. r.closed => Unread(r) = 0 /\ r.pad = 0
        BY <1>6, <1>9, <1>14, <2>3
    <2>5. OnCourse(r, o, t, type, k + 1, hi, v)
        BY <1>1, <1>9, <1>14, <2>2, <2>3, <2>4 DEF OnCourse
    <2> QED BY <1>0, <1>5, <1>14, <2>5 DEF type, q
<1> QED BY <1>0, <1>8, <1>12, <1>13, <1>14 DEF q

LEMMA DriftNext ==
    ASSUME FcgiInv, ProcessHeader, req.id = 1, req.begun, NEW t \in Seq(Record),
           NEW lo, NEW hi, Segment(t, "params", lo, hi), Type # "params", NEW k \in lo .. hi,
           NEW o, NEW v, NEW g, Adrift(in, o, t, k, hi, v, g)
    PROVE  \/ /\ Adrift(in', o, t, k + 1, hi, v, g) /\ k + 1 \in lo .. hi
              /\ in'.sub \in {"none", "values"}
           \/ Fails
<1>0. PICK r : r = in'
    OBVIOUS
<1>1. /\ Place(in, v, t, k, g) /\ in.err /\ o = <<>> /\ (g = <<>> => k < hi)
    BY DEF Adrift
<1>2. /\ Left(in, t, k) = <<>> /\ k \in 0 .. Len(t) /\ v \in Seq(Unit)
      /\ in.sub = "none" /\ ~in.closed /\ ~in.skip /\ Sound(in) /\ Len(in.hdr) = HeaderLen
    BY <1>1, AtProcess
<1>3. CASE g # <<>>
    <2>1. ~IsHeader
        BY <1>1, <1>2, <1>3, HeaderPlace DEF IsHeader
    <2>2. ProcessWrong
        BY <2>1 DEF ProcessHeader, ProcessBegin, ProcessSecondBegin, ProcessOther, ProcessValues,
                    ProcessUnknown, ProcessStream, IsRecord
    <2> QED BY <2>2 DEF ProcessWrong, Reader, Fails
<1>4. CASE g = <<>>
    <2>1. HeadOfNext(in, v, t, k)
        BY <1>1, <1>2, <1>4, HeaderPlace
    <2>2. lo \in 0 .. Len(t) /\ hi \in lo + 1 .. Len(t) /\ k < hi
        BY <1>1, <1>4 DEF Segment
    <2>3. k + 1 \in lo + 1 .. hi /\ k + 1 \in lo .. hi /\ k + 1 \in 0 .. Len(t) /\ k + 1 \in 0 .. hi
        BY <1>2, <2>2
    <2>4. /\ t[k + 1].id = 1 => t[k + 1].type = "params"
          /\ t[k + 1].id = 0 => t[k + 1].type # "begin" /\ (t[k + 1].type # "values" => t[k + 1].data = <<>>)
          /\ t[k + 1].id \notin {0, 1} =>
                t[k + 1].data # <<>> /\ (t[k + 1].type = "begin" => Len(t[k + 1].data) = BodyLen)
          /\ t[hi].id = 1
        BY <2>3 DEF Segment
    <2>5. \/ Fails
          \/ /\ AtNext(r, in, t, k) /\ ~r.closed /\ r.err = in.err /\ t[k + 1].id # 1
             /\ r.sub \in {"none", "values"} /\ (r.skip \/ r.sub = "values" \/ r.len = 0)
        <3>1. t[k + 1].type = "begin" => t[k + 1].id \notin {0, 1} /\ Len(t[k + 1].data) = BodyLen
            BY <2>4
        <3>2. t[k + 1].id = 0 /\ t[k + 1].type # "values" => t[k + 1].data = <<>>
            BY <2>4
        <3>3. t[k + 1].id \notin {0, 1} => t[k + 1].data # <<>>
            BY <2>4
        <3>4. ~(t[k + 1].id = 1 /\ t[k + 1].type = Type)
            BY <2>4
        <3> QED BY <1>0, <1>2, <2>1, <3>1, <3>2, <3>3, <3>4, NextRecord DEF Fails
    <2>6. ASSUME AtNext(r, in, t, k), ~r.closed, r.err = in.err, t[k + 1].id # 1,
                 r.sub \in {"none", "values"}, r.skip \/ r.sub = "values" \/ r.len = 0
          PROVE  Adrift(r, o, t, k + 1, hi, v, g)
        <3>1. Place(r, v, t, k + 1, g) /\ Unread(r) = Len(t[k + 1].data)
            BY <1>2, <1>4, <2>1, <2>6, NextPlace
        <3>2. k + 1 # hi
            BY <2>4, <2>6
        <3>3. k + 1 < hi
            BY <1>2, <2>2, <3>2
        <3>4. Left(r, t, k + 1) = <<>>
            <4>1. CASE r.skip \/ r.sub = "values"
                BY <4>1 DEF Left
            <4>2. CASE r.len = 0
                <5>1. Unread(r) = 0
                    BY <2>6, <3>1, <4>2 DEF AtNext
                <5> QED BY <2>3, <5>1, LeftNothing
            <4> QED BY <2>6, <4>1, <4>2
        <3> QED BY <1>1, <2>3, <2>6, <3>1, <3>3, <3>4 DEF Adrift
    <2> QED BY <1>0, <2>3, <2>5, <2>6
<1> QED BY <1>3, <1>4

-----------------------------------------------------------------------------
LEMMA PrefixOf ==
    ASSUME NEW o \in Seq(Unit), NEW y \in Seq(Unit), NEW s, o \o y = s
    PROVE  IsPrefix(o, s)
<1>1. s \in Seq(Unit) /\ Len(s) = Len(o) + Len(y) /\ Len(o) \in Nat /\ Len(y) \in Nat
    <2>1. o \o y \in Seq(Unit) /\ Len(o \o y) = Len(o) + Len(y)
        BY UnitsJoin
    <2>2. Len(o) \in Nat /\ Len(y) \in Nat
        OBVIOUS
    <2> QED BY <2>1, <2>2
<1>2. \A i \in 1 .. Len(o) : s[i] = o[i]
    BY JoinAt
<1>3. SubSeq(o, 1, Len(o)) = SubSeq(s, 1, Len(o))
    <2> DEFINE a == SubSeq(o, 1, Len(o))
               b == SubSeq(s, 1, Len(o))
    <2>1. a \in Seq(Unit) /\ Len(a) = Len(o) /\ \A i \in 1 .. Len(o) : a[i] = o[i]
        OBVIOUS
    <2>2. b \in Seq(Unit) /\ Len(b) = Len(o) /\ \A i \in 1 .. Len(o) : b[i] = s[i]
        BY <1>1
    <2> HIDE DEF a, b
    <2>3. a = b
        BY <1>2, <2>1, <2>2, SequencesEqual
    <2> QED BY <2>3 DEF a, b
<1> QED BY <1>1, <1>3 DEF IsPrefix

LEMMA LeftIs ==
    ASSUME NEW r, Sound(r), NEW v, NEW t \in Seq(Record), NEW k, NEW g, Place(r, v, t, k, g)
    PROVE  /\ Left(r, t, k) \in Seq(Unit)
           /\ r.sub = "none" /\ ~r.skip => Len(Left(r, t, k)) = Unread(r)
           /\ k \in 0 .. Len(t) /\ v \in Seq(Unit) /\ Unread(r) \in 0 .. Len(Body(t, k))
<1>1. k \in 0 .. Len(t) /\ v \in Seq(Unit) /\ Unread(r) <= Len(Body(t, k))
    BY DEF Place
<1>2. Unread(r) \in 0 .. Len(Body(t, k))
    BY <1>1, ReadersAre, BodyIs
<1> DEFINE n == Unread(r)
           y == Rest(Body(t, k), Len(Body(t, k)) - n)
<1>3. y \in Seq(Unit) /\ Len(y) = n
    <2>1. 0 \in Nat
        OBVIOUS
    <2> QED BY <1>1, <1>2, <2>1, AheadIs
<1>4. Left(r, t, k) = IF r.sub = "none" /\ ~r.skip THEN y ELSE <<>>
    BY DEF Left
<1> HIDE DEF y, n
<1> QED BY <1>1, <1>2, <1>3, <1>4, UnitsJoin DEF n

\* The reader is part-way through a header only while it reads one.
Whole(r) == /\ r.at # "process" => Len(r.hdr) < HeaderLen
            /\ r.closed \/ r.sub # "none" => r.hdr = <<>>

\* An error has ended the stream: the caller has got a part of it, and what is left over
\* is the rest of a record, and records from j on.
Stopped(r, o, t, type, lo, hi, v) ==
    /\ r.err /\ r.closed /\ r.avail = 0 /\ r.hdr = <<>> /\ r.sub \in {"none", "values"}
    /\ o \in Seq(Unit) /\ IsPrefix(o, FlattenSeq(Pieces(t, type))) /\ v \in Seq(Unit)
    /\ \E j \in lo .. hi, x \in Seq(Unit) :
          /\ NoType(x) /\ (x = <<>> => j < hi)
          /\ r.buf \o v = x \o Later(Records(t), j)

LEMMA StoppedIs ==
    ASSUME NEW r, NEW o, NEW t, NEW type, NEW lo, NEW hi, NEW v,
           r.err /\ r.closed /\ r.avail = 0 /\ r.hdr = <<>> /\ r.sub \in {"none", "values"},
           o \in Seq(Unit) /\ IsPrefix(o, FlattenSeq(Pieces(t, type))) /\ v \in Seq(Unit),
           NEW j \in lo .. hi, NEW x \in Seq(Unit), NoType(x), x = <<>> => j < hi,
           r.buf \o v = x \o Later(Records(t), j)
    PROVE  Stopped(r, o, t, type, lo, hi, v)
BY DEF Stopped

LEMMA FailedIs ==
    ASSUME NEW r, Sound(r), NEW q, q \in {Failed(r), [Failed(r) EXCEPT !.sub = "none"]}
    PROVE  /\ q.err /\ q.closed /\ q.avail = r.avail /\ q.hdr = <<>> /\ q.at = "top"
           /\ q.buf = r.buf /\ q.len = r.len /\ q.pad = r.pad /\ q.skip = r.skip
           /\ q.sub \in {r.sub, "none"}
<1>1. r \in Readers
    BY DEF Sound
<1> DEFINE f == Failed(r)
<1>2. f = [r EXCEPT !.closed = TRUE, !.err = TRUE, !.at = "top", !.hdr = <<>>]
    BY DEF Failed
<1>3. /\ f \in Readers /\ f.err /\ f.closed /\ f.avail = r.avail /\ f.hdr = <<>> /\ f.at = "top"
      /\ f.buf = r.buf /\ f.len = r.len /\ f.pad = r.pad /\ f.skip = r.skip /\ f.sub = r.sub
    <2> HIDE DEF f
    <2> QED BY <1>1, <1>2, <<>> \in Seq(Unit) DEF Readers
<1> HIDE DEF f
<1>4. CASE q = f
    BY <1>3, <1>4
<1>5. CASE q = [f EXCEPT !.sub = "none"]
    BY <1>3, <1>5 DEF Readers
<1> QED BY <1>4, <1>5 DEF f

LEMMA CourseFails ==
    ASSUME NEW r, Sound(r), Whole(r), r.avail = 0, r.sub \in {"none", "values"},
           NEW t \in Seq(Record), NEW type, NEW lo \in Nat, NEW hi \in 0 .. Len(t), NEW k \in lo .. hi,
           NEW o, NEW v, OnCourse(r, o, t, type, k, hi, v), k # hi,
           r.at = "process" => k + 1 < hi,
           NEW q, q \in {Failed(r), [Failed(r) EXCEPT !.sub = "none"]}
    PROVE  Stopped(q, o, t, type, lo, hi, v)
<1>1. /\ Place(r, v, t, k, <<>>) /\ o \in Seq(Unit)
      /\ o \o (Left(r, t, k) \o ToCome(t, type, k)) = FlattenSeq(Pieces(t, type))
    BY DEF OnCourse
<1>2. k < hi /\ k \in 0 .. Len(t) /\ k + 1 \in lo .. hi
    OBVIOUS
<1>3. v \in Seq(Unit) /\ Left(r, t, k) \in Seq(Unit) /\ ToCome(t, type, k) \in Seq(Unit)
    BY <1>1, <1>2, LeftIs, PiecesAre
<1>4. IsPrefix(o, FlattenSeq(Pieces(t, type)))
    <2> DEFINE y == Left(r, t, k) \o ToCome(t, type, k)
    <2>1. y \in Seq(Unit)
        BY <1>3, UnitsJoin
    <2>2. o \o y = FlattenSeq(Pieces(t, type))
        BY <1>1
    <2> HIDE DEF y
    <2> QED BY <1>1, <2>1, <2>2, PrefixOf
<1>5. /\ q.err /\ q.closed /\ q.avail = r.avail /\ q.hdr = <<>> /\ q.buf = r.buf
      /\ q.sub \in {r.sub, "none"}
    BY FailedIs
<1>6. Lost(r, v, t, k)
    BY <1>1, FailPlace
<1>7. PICK j \in {k, k + 1}, x \in Seq(Unit) :
        /\ j \in 0 .. Len(t) /\ NoType(x)
        /\ r.buf \o v = x \o Later(Records(t), j)
        /\ j = k + 1 => r.hdr # <<>> /\ (Len(r.hdr) = 1 => x # <<>>)
    BY <1>6 DEF Lost
<1>8. j \in lo .. hi
    BY <1>2, <1>7
<1>9. ASSUME x = <<>> PROVE j < hi
    <2>1. CASE j = k
        BY <1>2, <2>1
    <2>2. CASE j = k + 1
        <3>1. r.hdr # <<>> /\ Len(r.hdr) # 1
            BY <1>7, <1>9, <2>2
        <3>2. r.hdr \in Seq(Unit) /\ Len(r.hdr) \in Nat /\ Len(r.hdr) # 0
            BY <3>1, ReadersAre
        <3>3. r.at = "process"
            <4>1. ~(Len(r.hdr) < 2)
                <5> DEFINE m == Len(r.hdr)
                <5>1. m \in Nat /\ m # 0 /\ m # 1
                    BY <3>1, <3>2
                <5> HIDE DEF m
                <5>2. ~(m < 2)
                    BY <5>1
                <5> QED BY <5>2 DEF m
            <4> QED BY <4>1 DEF Whole, HeaderLen
        <3> QED BY <2>2, <3>3
    <2> QED BY <1>7, <2>1, <2>2
<1>10. q.buf \o v = x \o Later(Records(t), j)
    BY <1>5, <1>7
<1>11. q.avail = 0 /\ q.sub \in {"none", "values"}
    BY <1>5
<1> QED BY <1>1, <1>3, <1>4, <1>5, <1>7, <1>8, <1>9, <1>10, <1>11, StoppedIs

\* A stopped reader only gives up what it was reading.
LEMMA StoppedStays ==
    ASSUME NEW r, Sound(r), NEW o, NEW t, NEW type, NEW lo, NEW hi, NEW v,
           Stopped(r, o, t, type, lo, hi, v),
           NEW q, q \in {Failed(r), [Failed(r) EXCEPT !.sub = "none"]}
    PROVE  Stopped(q, o, t, type, lo, hi, v)
<1>1. /\ q.err /\ q.closed /\ q.avail = r.avail /\ q.hdr = <<>> /\ q.buf = r.buf
      /\ q.sub \in {r.sub, "none"}
    BY FailedIs
<1> QED BY <1>1 DEF Stopped

LEMMA CourseTakes ==
    ASSUME Sound(in), NEW n \in 1 .. in.avail,
           in' = [in EXCEPT !.buf = Rest(in.buf, n), !.avail = in.avail - n],
           NEW t \in Seq(Record), NEW type, NEW k, NEW hi, NEW o, NEW v,
           OnCourse(in, o, t, type, k, hi, v)
    PROVE  /\ in.sub # "none" => OnCourse(in', o, t, type, k, hi, v)
           /\ in.sub = "none" => OnCourse(in', o \o SubSeq(in.buf, 1, n), t, type, k, hi, v)
           /\ in'.sub = in.sub
<1>1. Place(in, v, t, k, <<>>) /\ o \in Seq(Unit) /\ ~in.err
    BY DEF OnCourse
<1>2. /\ Place(in', v, t, k, <<>>)
      /\ in'.sub = in.sub /\ in'.err = in.err /\ in'.closed = in.closed /\ ~in'.skip
      /\ in.sub = "none" => Left(in, t, k) = SubSeq(in.buf, 1, n) \o Left(in', t, k)
    <2>1. PICK g : g = <<>>
        OBVIOUS
    <2>2. Place(in, v, t, k, g)
        BY <1>1, <2>1
    <2>3. /\ Place(in', v, t, k, g)
          /\ in'.sub = in.sub /\ in'.err = in.err /\ in'.closed = in.closed /\ ~in'.skip
        BY <2>2, TakeGoes
    <2>4. in.sub = "none" => Left(in, t, k) = SubSeq(in.buf, 1, n) \o Left(in', t, k)
        <3>1. Passes(in, in', t, k, n)
            BY <2>2, TakeGoes
        <3> QED BY <3>1 DEF Passes
    <2> QED BY <2>1, <2>3, <2>4
<1>3. ~in.closed
    <2>1. in.avail \in Nat /\ in.len \in Nat /\ in.avail > 0
        BY ReadersAre
    <2>2. Unread(in) # 0
        BY <2>1 DEF Unread
    <2> QED BY <2>2 DEF OnCourse
<1>4. ASSUME in.sub # "none" PROVE OnCourse(in', o, t, type, k, hi, v)
    <2>1. Left(in, t, k) = <<>> /\ Left(in', t, k) = <<>>
        BY <1>2, <1>4 DEF Left
    <2> QED BY <1>1, <1>2, <1>3, <1>4, <2>1 DEF OnCourse
<1>5. ASSUME in.sub = "none" PROVE OnCourse(in', o \o SubSeq(in.buf, 1, n), t, type, k, hi, v)
    <2> DEFINE c == SubSeq(in.buf, 1, n)
               l == Left(in', t, k)
               y == ToCome(t, type, k)
               s == FlattenSeq(Pieces(t, type))
    <2>1. c \in Seq(Unit)
        <3>1. in.buf \in Seq(Unit) /\ n \in 0 .. Len(in.buf)
            BY ReadersAre
        <3> QED BY <3>1, FirstIs
    <2>2. l \in Seq(Unit) /\ y \in Seq(Unit)
        <3>1. Sound(in) /\ k \in 0 .. Len(t) /\ Left(in, t, k) \in Seq(Unit)
            BY <1>1, LeftIs
        <3>2. y \in Seq(Unit)
            BY <3>1, PiecesAre
        <3>3. Unread(in') \in 0 .. Len(Body(t, k))
            <4>1. in \in Readers /\ in.avail - n \in Nat /\ in.len \in Nat
                BY ReadersAre
            <4> DEFINE m == in.avail - n
            <4>2. in'.avail = m /\ in'.len = in.len
                BY <4>1 DEF Readers
            <4>3. Unread(in') \in Nat
                BY <4>1, <4>2 DEF Unread
            <4> HIDE DEF m
            <4> QED BY <1>2, <3>1, <4>3, BodyIs DEF Place
        <3>4. Rest(Body(t, k), Len(Body(t, k)) - Unread(in')) \in Seq(Unit)
            BY <3>1, <3>3, AheadIs
        <3>5. l \in Seq(Unit)
            BY <3>4, UnitsJoin DEF Left
        <3> QED BY <3>2, <3>5
    <2>3. o \o ((c \o l) \o y) = s
        BY <1>2, <1>5 DEF OnCourse
    <2> HIDE DEF c, l, y, s
    <2>4. (c \o l) \o y = c \o (l \o y) /\ (o \o c) \o (l \o y) = o \o (c \o (l \o y))
        <3>1. l \o y \in Seq(Unit)
            BY <2>2, UnitsJoin
        <3> QED BY <1>1, <2>1, <2>2, <3>1, UnitsAssoc, ZenonT(40)
    <2>5. (o \o c) \o (l \o y) = s /\ o \o c \in Seq(Unit)
        BY <1>1, <2>1, <2>3, <2>4, UnitsJoin
    <2>6. k # hi
        BY <1>3 DEF OnCourse
    <2> QED BY <1>1, <1>2, <1>3, <2>5, <2>6 DEF OnCourse, c, l, y, s
<1> QED BY <1>2, <1>4, <1>5

LEMMA DriftTakes ==
    ASSUME Sound(in), NEW n \in 1 .. in.avail,
           in' = [in EXCEPT !.buf = Rest(in.buf, n), !.avail = in.avail - n],
           NEW t \in Seq(Record), NEW k, NEW hi, NEW o, NEW v, NEW g, Adrift(in, o, t, k, hi, v, g)
    PROVE  Adrift(in', o, t, k, hi, v, g) /\ in.sub # "none" /\ in'.sub = in.sub
<1>1. Place(in, v, t, k, g)
    BY DEF Adrift
<1>2. /\ Place(in', v, t, k, g)
      /\ in'.sub = in.sub /\ in'.err = in.err /\ in'.closed = in.closed /\ ~in'.skip
    BY <1>1, TakeGoes
<1>3. in.avail \in Nat /\ in.len \in Nat /\ in.avail > 0
    BY ReadersAre
<1>4. Unread(in) # 0 /\ ~in.skip
    <2>1. Unread(in) # 0
        BY <1>3 DEF Unread
    <2>2. ~in.skip
        BY <1>1, <1>3 DEF Place
    <2> QED BY <2>1, <2>2
<1>5. in.sub # "none"
    <2>1. ASSUME in.sub = "none" PROVE FALSE
        <3>1. Len(Left(in, t, k)) = Unread(in) /\ Left(in, t, k) = <<>>
            BY <1>1, <1>4, <2>1, LeftIs DEF Adrift
        <3> QED BY <1>4, <3>1
    <2> QED BY <2>1
<1>6. Left(in', t, k) = <<>>
    BY <1>2, <1>5 DEF Left
<1>7. ~in.closed
    BY <1>4 DEF Adrift
<1> QED BY <1>2, <1>5, <1>6, <1>7 DEF Adrift

-----------------------------------------------------------------------------
(* From the beginning of a request to its parameters.                      *)

\* No request has begun: the reader is at record k of t, before its beginning or at it,
\* where it reads what is said of the request.
Fresh(r, o, t, k, v, id) ==
    /\ Place(r, v, t, k, <<>>) /\ k \in 0 .. Start(t) /\ ~r.err
    /\ k < Start(t) => /\ r.sub # "body" /\ Left(r, t, k) = <<>>
                       /\ r.closed => r.sub = "values" /\ Unread(r) = 0 /\ r.pad = 0
    /\ k = Start(t) => /\ r.sub = "body" /\ id = 1 /\ t[k].id = 1 /\ ~r.closed /\ r.pad = 0
                       /\ o \in Seq(Unit)
                       /\ o \o Rest(Body(t, k), Len(Body(t, k)) - Unread(r)) = Body(t, k)

\* An error has come before it has.
Dead(r, o) == r.err /\ r.closed /\ r.avail = 0 /\ (r.sub = "body" => Len(o) # BodyLen)

\* Nothing has come yet.
Nothing(r, v) == v = <<>> /\ r \in {NewReader, Failed(NewReader)}

LEMMA FreshNext ==
    ASSUME FcgiInv, ProcessHeader, ~req.begun, NEW t, Regular(t),
           NEW k, NEW o, NEW v, NEW id, Fresh(in, o, t, k, v, id)
    PROVE  \/ Fresh(in', got', t, k + 1, v, req'.id) /\ k + 1 \in 0 .. Start(t)
           \/ Fails /\ in.sub = "none"
<1> DEFINE b == Start(t)
           c == t[k + 1]
<1>0. PICK r : r = in'
    OBVIOUS
<1>1. /\ t \in Seq(Record) /\ b \in 1 .. Len(t)
      /\ t[b].type = "begin" /\ t[b].id \in {0, 1} /\ Len(t[b].data) = BodyLen /\ t[b].pad = 0
      /\ \A i \in 1 .. b - 1 : t[i].id = 0 /\ t[i].type # "begin"
      /\ \A i \in DOMAIN t : i # b => (t[i].id = 0 /\ t[i].type # "values" => t[i].data = <<>>)
    BY RegularIs
<1>2. Place(in, v, t, k, <<>>) /\ k \in 0 .. b /\ ~in.err
    BY DEF Fresh
<1>3. /\ Left(in, t, k) = <<>> /\ k \in 0 .. Len(t) /\ v \in Seq(Unit)
      /\ in.sub = "none" /\ ~in.closed /\ ~in.skip /\ Sound(in) /\ Len(in.hdr) = HeaderLen
    BY <1>1, <1>2, AtProcess
<1>4. k # b
    BY <1>3 DEF Fresh
<1>5. HeadOfNext(in, v, t, k)
    BY <1>1, <1>2, <1>3, HeaderPlace
<1>6. k \in 0 .. b - 1 /\ k + 1 \in 1 .. b /\ k + 1 \in 0 .. b /\ k + 1 \in 0 .. Len(t)
      /\ k + 1 \in DOMAIN t
    BY <1>1, <1>2, <1>4
<1>7. /\ c \in Record /\ in.hdr = Header(c.type, c.id, Len(c.data), c.pad)
    BY <1>5 DEF HeadOfNext
<1>8. /\ c.type \in Types /\ c.id \in Nat /\ c.data \in Seq(Nat) /\ c.pad \in Nat
      /\ Len(c.data) \in Nat /\ (Len(c.data) = 0 <=> c.data = <<>>)
    BY <1>7 DEF Record
<1>9. IsHeader /\ HdrType = c.type /\ HdrId = c.id /\ in.hdr[2][2] = Len(c.data) /\ in.hdr[2][3] = c.pad
    BY <1>7 DEF IsHeader, HdrType, HdrId, Header
<1>10. in \in Readers /\ Filling("process")
    <2>1. Filling("process")
        BY DEF ProcessHeader, ProcessWrong, ProcessBegin, ProcessSecondBegin, ProcessOther, ProcessValues,
               ProcessUnknown, ProcessStream, IsRecord
    <2> QED BY <2>1 DEF FcgiInv, ReaderInv, Sound
<1> DEFINE n == Len(c.data)
           p == c.pad
           h == [in EXCEPT !.len = n, !.pad = p, !.hdr = <<>>, !.at = "top"]
<1>11. AtHeader = h
    BY <1>9 DEF AtHeader
<1>12. CASE k + 1 # b
    <2>1. c.id = 0 /\ c.type # "begin" /\ (c.type # "values" => n = 0)
        <3>1. k + 1 \in 1 .. b - 1
            BY <1>1, <1>6, <1>12
        <3> QED BY <1>1, <1>6, <1>8, <1>12, <3>1
    <2>2. n \in Nat /\ p \in Nat /\ n = Len(t[k + 1].data) /\ p = t[k + 1].pad
        BY <1>8
    <2> HIDE DEF n, p
    <2>3. /\ h \in Readers /\ h.buf = in.buf /\ h.hdr = <<>> /\ h.at = "top" /\ h.avail = 0
          /\ h.len = n /\ h.pad = p /\ ~h.skip /\ ~h.err /\ ~h.closed /\ h.sub = "none"
        BY <1>2, <1>3, <1>10, <2>2, <<>> \in Seq(Unit) DEF Readers, Filling
    <2> HIDE DEF h
    <2>4. AtNext(h, in, t, k)
        BY <2>2, <2>3 DEF AtNext
    <2>5. ASSUME AtNext(r, in, t, k), r.sub = "values" \/ (r.sub = "none" /\ n = 0), ~r.closed, ~r.err
          PROVE  Fresh(r, got', t, k + 1, v, req'.id)
        <3>1. Place(r, v, t, k + 1, <<>>) /\ Unread(r) = n
            BY <1>1, <1>3, <1>5, <2>2, <2>5, NextPlace
        <3>2. Left(r, t, k + 1) = <<>>
            <4>1. CASE r.sub = "values"
                BY <4>1 DEF Left
            <4>2. CASE n = 0
                BY <1>1, <1>6, <3>1, <4>2, LeftNothing
            <4> QED BY <2>5, <4>1, <4>2
        <3> QED BY <1>6, <1>12, <2>5, <3>1, <3>2 DEF Fresh
    <2> HIDE DEF c
    <2>6. CASE ProcessValues
        <3> DEFINE q == [h EXCEPT !.sub = "values"]
        <3>1. r = q
            BY <1>0, <1>11, <2>6 DEF ProcessValues, Reader
        <3>2. /\ q.buf = in.buf /\ q.hdr = <<>> /\ q.at = "top" /\ q.avail = 0 /\ q.len = n /\ q.pad = p
              /\ ~q.skip /\ ~q.err /\ ~q.closed /\ q.sub = "values"
            BY <2>3 DEF Readers
        <3> HIDE DEF q
        <3>3. AtNext(r, in, t, k)
            BY <2>2, <3>1, <3>2 DEF AtNext
        <3> QED BY <1>0, <1>6, <2>5, <3>1, <3>2, <3>3
    <2>7. CASE ProcessUnknown
        <3>1. in' \in {h, [Failed(in) EXCEPT !.sub = "none"]}
            BY <1>11, <2>7 DEF ProcessUnknown, Reply
        <3>2. CASE in' = h
            <4>1. n = 0
                BY <1>9, <2>1, <2>7 DEF ProcessUnknown
            <4> QED BY <1>0, <1>6, <2>3, <2>4, <2>5, <3>2, <4>1
        <3>3. CASE in' = [Failed(in) EXCEPT !.sub = "none"]
            BY <1>3, <3>3 DEF Fails
        <3> QED BY <3>1, <3>2, <3>3
    <2>8. CASE ProcessWrong
        BY <1>3, <2>8 DEF ProcessWrong, Reader, Fails
    <2>9. ~ProcessBegin /\ ~ProcessSecondBegin /\ ~ProcessOther /\ ~ProcessStream
        BY <1>9, <2>1 DEF ProcessBegin, ProcessSecondBegin, ProcessOther, ProcessStream, IsRecord
    <2> QED BY <2>6, <2>7, <2>8, <2>9 DEF ProcessHeader
<1>13. CASE k + 1 = b
    <2>1. c.type = "begin" /\ c.id \in {0, 1} /\ n = 2 /\ p = 0
        BY <1>1, <1>13 DEF BodyLen
    <2>2. n \in Nat /\ p \in Nat /\ n = Len(t[k + 1].data) /\ p = t[k + 1].pad
        BY <1>8
    <2> HIDE DEF n, p
    <2>3. CASE ProcessBegin
        <3> DEFINE q == [in EXCEPT !.len = n, !.pad = p, !.hdr = <<>>, !.at = "top", !.sub = "body"]
        <3>1. in' = [h EXCEPT !.sub = "body"] /\ got' = <<>> /\ req' = [req EXCEPT !.id = HdrId]
              /\ HdrId # 0
            BY <1>11, <2>3 DEF ProcessBegin
        <3>2. req'.id = 1 /\ c.id = 1
            <4>1. HdrId = 1 /\ c.id = 1
                BY <1>9, <2>1, <3>1
            <4> QED BY <3>1, <4>1 DEF FcgiInv, ReaderInv, Counts
        <3>3. /\ r.buf = in.buf /\ r.hdr = <<>> /\ r.at = "top" /\ r.avail = 0 /\ r.len = n /\ r.pad = p
              /\ ~r.skip /\ ~r.err /\ ~r.closed /\ r.sub = "body"
            BY <1>0, <1>2, <1>3, <1>10, <2>2, <3>1, <<>> \in Seq(Unit) DEF Readers, Filling
        <3>4. AtNext(r, in, t, k)
            BY <2>2, <3>3 DEF AtNext
        <3>5. Place(r, v, t, k + 1, <<>>) /\ Unread(r) = n
            BY <1>1, <1>3, <1>5, <2>2, <3>4, NextPlace
        <3>6. <<>> \o Rest(Body(t, k + 1), Len(Body(t, k + 1)) - Unread(r)) = Body(t, k + 1)
            <4> DEFINE y == Body(t, k + 1)
            <4>1. y \in Seq(Unit) /\ Len(y) = n
                BY <1>1, <1>6, <2>2, BodyIs
            <4>2. Len(y) - Unread(r) = 0
                BY <2>2, <3>5, <4>1
            <4> HIDE DEF y
            <4>3. Rest(y, 0) = y
                BY <4>1, RestOf
            <4> QED BY <4>1, <4>2, <4>3, UnitsJoin DEF y
        <3>7. Fresh(r, <<>>, t, k + 1, v, 1)
            BY <1>6, <1>13, <2>1, <3>2, <3>3, <3>5, <3>6, <<>> \in Seq(Unit) DEF Fresh
        <3> QED BY <1>0, <1>6, <3>1, <3>2, <3>7
    <2>4. CASE ProcessWrong
        BY <1>3, <2>4 DEF ProcessWrong, Reader, Fails
    <2>5. ~ProcessSecondBegin /\ ~ProcessOther /\ ~ProcessValues /\ ~ProcessUnknown
        BY <1>9, <2>1 DEF ProcessSecondBegin, ProcessOther, ProcessValues, ProcessUnknown, IsRecord
    <2>6. ~ProcessStream
        <3>1. Type # "begin"
            BY DEF Type
        <3> QED BY <1>9, <2>1, <3>1 DEF ProcessStream
    <2> QED BY <2>3, <2>4, <2>5, <2>6 DEF ProcessHeader
<1> QED BY <1>12, <1>13

-----------------------------------------------------------------------------
LEMMA FreshGoes ==
    ASSUME NEW r, NEW o, NEW t, NEW k, NEW v, NEW id, Fresh(r, o, t, k, v, id), ~r.closed,
           Start(t) \in Nat, NEW q, NEW u, Goes(r, q, u, t, k, <<>>),
           r.sub \in {"none", "body", "values"},
           r.sub = "body" => q.pad = 0 /\ ~q.closed /\ Unread(q) = Unread(r)
    PROVE  Fresh(q, o, t, k, u, id)
<1>1. k < Start(t) \/ k = Start(t)
    BY DEF Fresh
<1>2. CASE k < Start(t)
    BY <1>2 DEF Fresh, Goes
<1>3. CASE k = Start(t)
    BY <1>3 DEF Fresh, Goes
<1> QED BY <1>1, <1>2, <1>3

\* While what is said of the request is read, there is content to be read.
LEMMA FreshWants ==
    ASSUME Sound(in), in.avail = 0, Wanted, phase = "begin", NEW t, Regular(t),
           NEW k, NEW v, NEW id, Fresh(in, got, t, k, v, id), in.sub = "body"
    PROVE  Unread(in) # 0 /\ in.len # 0 /\ in.at = "top" /\ ~in.skip
<1>1. k = Start(t) /\ t \in Seq(Record) /\ k \in 1 .. Len(t) /\ k \in 0 .. Len(t)
      /\ Len(t[k].data) = BodyLen
    BY RegularIs DEF Fresh
<1>2. Place(in, v, t, k, <<>>) /\ Len(got) < BodyLen
    BY DEF Fresh, Wanted
<1> DEFINE b == Body(t, k)
           n == Unread(in)
           y == Rest(b, Len(b) - n)
<1>3. b \in Seq(Unit) /\ Len(b) = 2 /\ n \in 0 .. 2
    <2>1. b \in Seq(Unit) /\ Len(b) = 2
        BY <1>1, BodyIs DEF BodyLen
    <2> HIDE DEF b
    <2>2. n \in 0 .. Len(b)
        BY <1>1, <1>2, LeftIs DEF b
    <2> QED BY <2>1, <2>2
<1>4. got \in Seq(Unit) /\ got \o y = b
    BY <1>1 DEF Fresh
<1> HIDE DEF b
<1>5. n # 0
    <2>1. ASSUME n = 0 PROVE FALSE
        <3>1. Len(b) - n = Len(b)
            BY <1>3, <2>1
        <3>2. Rest(b, Len(b)) = <<>>
            BY <1>3, RestOf
        <3>3. got = b
            BY <1>4, <3>1, <3>2, UnitsJoin
        <3>4. Len(got) < 2 /\ Len(got) = Len(b)
            BY <1>2, <3>3 DEF BodyLen
        <3> HIDE DEF n, y
        <3> QED BY <1>3, <3>4
    <2> QED BY <2>1
<1>6. in.at \notin {"header", "process", "padding"} /\ ~in.skip
    BY <1>2, <1>5 DEF Place
<1>7. in.at = "top" /\ in.len # 0
    <2>1. in.at = "top" /\ in.len \in Nat
        BY <1>6, ReadersAre
    <2> QED BY <1>5, <2>1 DEF Unread
<1> QED BY <1>5, <1>6, <1>7

LEMMA FreshFills ==
    ASSUME Sound(in), FillContent \/ FillPadding \/ FillHeader, phase = "begin", NEW t, Regular(t),
           NEW k, NEW v, NEW id, Fresh(in, got, t, k, v, id)
    PROVE  Fresh(in', got, t, k, v, id)
<1>1. /\ Place(in, v, t, k, <<>>) /\ t \in Seq(Record) /\ ~in.closed /\ in.avail = 0 /\ Wanted
      /\ in.sub \in {"none", "body", "values"}
    BY ReadersAre, RegularIs DEF Fresh, FillContent, FillPadding, FillHeader, Filling
<1>2. Goes(in, in', v, t, k, <<>>)
    <2>1. PICK g : g = <<>>
        OBVIOUS
    <2>2. Place(in, v, t, k, g)
        BY <1>1, <2>1
    <2>3. Goes(in, in', v, t, k, g)
        BY <1>1, <2>2, ContentGoes, PaddingGoes, HeaderGoes
    <2> QED BY <2>1, <2>3
<1>3. ASSUME in.sub = "body"
      PROVE  in'.pad = 0 /\ ~in'.closed /\ Unread(in') = Unread(in)
    <2>1. in.len # 0 /\ in.at = "top" /\ ~in.skip
        BY <1>1, <1>3, FreshWants
    <2>2. FillContent
        BY <2>1 DEF FillPadding, FillHeader, Filling
    <2> DEFINE n == Smaller(in.len, Len(in.buf))
               l == in.len - n
    <2>3. in' = [in EXCEPT !.avail = n, !.len = l]
        BY <2>1, <2>2 DEF FillContent, Reader
    <2>4. in \in Readers /\ in.len \in Nat /\ Len(in.buf) \in Nat
        BY ReadersAre
    <2>5. n \in Nat /\ n + l = in.len
        BY <2>4 DEF Smaller
    <2>6. in.pad = 0
        <3>1. Start(t) \in Nat
            BY RegularIs
        <3> QED BY <1>3, <3>1 DEF Fresh
    <2> HIDE DEF n, l
    <2>7. in'.avail = n /\ in'.len = l /\ in'.pad = in.pad /\ in'.closed = in.closed
        BY <2>3, <2>4 DEF Readers
    <2>8. l + n = in.len + 0
        BY <2>4, <2>5 DEF l
    <2> QED BY <1>1, <2>6, <2>7, <2>8 DEF Unread
<1>4. Start(t) \in Nat
    BY RegularIs
<1> QED BY <1>1, <1>2, <1>3, <1>4, FreshGoes

\* A part of what is said of the request is taken.
LEMMA FreshTakes ==
    ASSUME Sound(in), NEW n, n = in.avail, n > 0,
           in' = [in EXCEPT !.buf = Rest(in.buf, n), !.avail = in.avail - n],
           NEW t, Regular(t), NEW k, NEW v, NEW id, Fresh(in, got, t, k, v, id)
    PROVE  /\ in.sub = "values" => Fresh(in', got, t, k, v, id)
           /\ in.sub # "values" => Fresh(in', got \o SubSeq(in.buf, 1, n), t, k, v, id)
<1>1. /\ Place(in, v, t, k, <<>>) /\ ~in.err /\ t \in Seq(Record) /\ Start(t) \in 1 .. Len(t)
      /\ in.avail \in Nat /\ in.len \in Nat /\ n \in 1 .. in.avail
      /\ in.sub \in {"none", "body", "values"} /\ in.buf \in Seq(Unit) /\ n \in 0 .. Len(in.buf)
    BY ReadersAre, RegularIs DEF Fresh
<1>2. PICK g : g = <<>>
    OBVIOUS
<1>3. Place(in, v, t, k, g)
    BY <1>1, <1>2
<1>4. /\ Place(in', v, t, k, g)
      /\ in'.sub = in.sub /\ in'.err = in.err /\ in'.closed = in.closed /\ ~in'.skip
    BY <1>1, <1>3, TakeGoes
<1>5. Owes(in, in', t, k, n)
    BY <1>1, <1>3, TakeGoes
<1>6. Unread(in) # 0 /\ ~in.skip
    <2>1. Unread(in) # 0
        BY <1>1 DEF Unread
    <2>2. ~in.skip
        BY <1>1 DEF Place
    <2> QED BY <2>1, <2>2
<1>7. k < Start(t) \/ k = Start(t)
    BY <1>1 DEF Fresh
<1>8. CASE k < Start(t)
    <2>1. in.sub # "body" /\ Left(in, t, k) = <<>> /\ ~in.closed
        BY <1>6, <1>8 DEF Fresh
    <2>2. in.sub # "none"
        <3>1. ASSUME in.sub = "none" PROVE FALSE
            <4>1. Len(Left(in, t, k)) = Unread(in)
                BY <1>1, <1>6, <3>1, LeftIs
            <4> QED BY <1>6, <2>1, <4>1
        <3> QED BY <3>1
    <2>3. Left(in', t, k) = <<>>
        BY <1>4, <2>2 DEF Left
    <2>4. Fresh(in', got, t, k, v, id)
        BY <1>1, <1>2, <1>4, <1>8, <2>1, <2>3 DEF Fresh
    <2> QED BY <1>1, <2>1, <2>2, <2>4
<1>9. CASE k = Start(t)
    <2> DEFINE c == SubSeq(in.buf, 1, n)
               b == Body(t, k)
               x == Rest(b, Len(b) - Unread(in))
               y == Rest(b, Len(b) - Unread(in'))
    <2>1. /\ in.sub = "body" /\ id = 1 /\ t[k].id = 1 /\ ~in.closed /\ in.pad = 0 /\ got \in Seq(Unit)
          /\ got \o x = b
        BY <1>9 DEF Fresh
    <2>2. x = c \o y
        BY <1>5 DEF Owes
    <2>3. c \in Seq(Unit)
        BY <1>1, FirstIs
    <2>4. Unread(in') \in 0 .. Len(b) /\ in'.pad = in.pad
        <3> DEFINE m == in.avail - n
                   s == Rest(in.buf, n)
        <3>1. in \in Readers /\ m = 0
            BY <1>1, ReadersAre
        <3>2. in' = [in EXCEPT !.buf = s, !.avail = m]
            OBVIOUS
        <3> HIDE DEF m, s
        <3>3. in'.avail = m /\ in'.len = in.len /\ in'.pad = in.pad
            BY <3>1, <3>2 DEF Readers
        <3>4. Unread(in') \in Nat
            BY <1>1, <3>1, <3>3 DEF Unread
        <3>5. Unread(in') <= Len(b) /\ Len(b) \in Nat
            BY <1>1, <1>4, <1>9, BodyIs DEF Place
        <3> QED BY <3>3, <3>4, <3>5
    <2>5. y \in Seq(Unit)
        <3>1. 0 \in Nat /\ k \in 0 .. Len(t)
            BY <1>1, <1>9
        <3> QED BY <1>1, <2>4, <3>1, AheadIs
    <2> HIDE DEF c, b, x, y
    <2>6. (got \o c) \o y = b /\ got \o c \in Seq(Unit)
        <3>1. got \in Seq(Unit) /\ got \o (c \o y) = b
            BY <2>1, <2>2
        <3>2. (got \o c) \o y = got \o (c \o y)
            BY <2>3, <2>5, <3>1, UnitsAssoc
        <3>3. got \o c \in Seq(Unit)
            BY <2>3, <3>1, UnitsJoin
        <3> QED BY <3>1, <3>2, <3>3
    <2>7. Fresh(in', got \o c, t, k, v, id)
        <3>1. (got \o c) \o Rest(Body(t, k), Len(Body(t, k)) - Unread(in')) = Body(t, k)
            BY <2>6 DEF y, b
        <3> QED BY <1>1, <1>2, <1>4, <1>9, <2>1, <2>4, <2>6, <3>1 DEF Fresh
    <2> QED BY <2>1, <2>7 DEF c
<1> QED BY <1>7, <1>8, <1>9

\* What is said of the request has been read.
LEMMA FreshBegun ==
    ASSUME Sound(in), in.sub = "body", in.avail = 0, Len(got) = BodyLen,
           NEW t, Regular(t), NEW k, NEW v, NEW id, Fresh(in, got, t, k, v, id)
    PROVE  /\ k = Start(t) /\ id = 1 /\ t[k].id = 1 /\ ~in.closed /\ ~in.err
           /\ Place(in, v, t, k, <<>>) /\ Unread(in) = 0 /\ in.pad = 0 /\ in.hdr = <<>>
           /\ got[1][2] = t[k].data[1]
<1>1. k = Start(t) /\ t \in Seq(Record) /\ k \in 1 .. Len(t) /\ k \in 0 .. Len(t)
      /\ Len(t[k].data) = BodyLen
    BY RegularIs DEF Fresh
<1>2. /\ Place(in, v, t, k, <<>>) /\ id = 1 /\ t[k].id = 1 /\ ~in.closed /\ ~in.err /\ in.pad = 0
    BY <1>1 DEF Fresh
<1> DEFINE b == Body(t, k)
           n == Unread(in)
           y == Rest(b, Len(b) - n)
<1>3. b \in Seq(Unit) /\ Len(b) = 2 /\ n \in 0 .. 2
    <2>1. b \in Seq(Unit) /\ Len(b) = 2
        BY <1>1, BodyIs DEF BodyLen
    <2> HIDE DEF b
    <2>2. n \in 0 .. Len(b)
        BY <1>1, <1>2, LeftIs DEF b
    <2> QED BY <2>1, <2>2
<1>4. got \in Seq(Unit) /\ got \o y = b
    BY <1>1 DEF Fresh
<1>5. b = Content(t[k].data)
    BY <1>1 DEF Body
<1> HIDE DEF b
<1>6. y \in Seq(Unit) /\ Len(y) = n
    <2>1. Len(b) - n \in 0 .. Len(b) /\ Len(b) - (Len(b) - n) = n
        BY <1>3
    <2> HIDE DEF n
    <2> QED BY <1>3, <2>1, RestOf
<1> HIDE DEF y, n
<1>7. n = 0
    <2>1. Len(got \o y) = Len(got) + Len(y)
        BY <1>4, <1>6, UnitsJoin
    <2> QED BY <1>3, <1>4, <1>6, <2>1 DEF BodyLen
<1>8. got = b
    <2>1. y = <<>>
        BY <1>6, <1>7
    <2> QED BY <1>4, <2>1, UnitsJoin
<1>9. b[1][2] = t[k].data[1]
    <2>1. 1 \in DOMAIN t[k].data
        <3>1. t[k] \in Record
            BY <1>1
        <3>2. t[k].data \in Seq(Nat)
            BY <3>1 DEF Record
        <3> QED BY <1>1, <3>2 DEF BodyLen
    <2> QED BY <1>5, <2>1 DEF Content
<1>10. in.hdr = <<>>
    BY <1>2 DEF Place
<1> QED BY <1>1, <1>2, <1>7, <1>8, <1>9, <1>10 DEF n

\* The reader is told to read another stream.
ResetTo(r, q, v, t, k, g) ==
    /\ Place(q, v, t, k, g) /\ Unread(q) = 0 /\ q.pad = 0 /\ Left(q, t, k) = <<>>
    /\ ~q.closed /\ q.err = r.err /\ q.sub = "none" /\ q.hdr = <<>> /\ q.avail = 0

LEMMA ResetPlace ==
    ASSUME NEW r, Sound(r), NEW t \in Seq(Record), NEW v \in Seq(Unit), NEW k \in 0 .. Len(t),
           NEW g \in Seq(Unit), NoType(g), r.hdr = <<>>, r.buf \o v = g \o Ahead(t, k, 0, 0),
           NEW q, q = SetReaderType(r)
    PROVE  ResetTo(r, q, v, t, k, g)
<1>1. r \in Readers /\ r.buf \in Seq(Unit)
    BY ReadersAre
<1>2. /\ q.buf = r.buf /\ q.hdr = <<>> /\ q.avail = 0 /\ q.len = 0 /\ q.pad = 0 /\ q.skip = FALSE
      /\ q.closed = FALSE /\ q.err = r.err /\ q.sub = "none" /\ q.at = "top"
    BY <1>1 DEF SetReaderType, Readers
<1>3. Unread(q) = 0
    BY <1>2 DEF Unread
<1>4. Before(q, v) = g \o Ahead(t, k, Unread(q), q.pad)
    <2> DEFINE x == r.buf \o v
    <2>1. x \in Seq(Unit) /\ x = g \o Ahead(t, k, 0, 0)
        BY <1>1, UnitsJoin
    <2>2. Before(q, v) = <<>> \o x
        BY <1>2 DEF Before
    <2> HIDE DEF x
    <2> QED BY <1>2, <1>3, <2>1, <2>2, UnitsJoin
<1>5. 0 <= Len(Body(t, k))
    BY BodyIs
<1>6. Left(q, t, k) = <<>>
    BY <1>3, LeftNothing
<1>7. Place(q, v, t, k, g)
    BY <1>2, <1>3, <1>4, <1>5 DEF Place
<1> QED BY <1>2, <1>3, <1>6, <1>7 DEF ResetTo

-----------------------------------------------------------------------------
(* The steps of a reader of a stream of the request.                       *)

Reading(t, type, lo, hi) ==
    \E k, v : k \in lo .. hi /\ Incoming(v) /\ OnCourse(in, got, t, type, k, hi, v)
Broken(t, type, lo, hi) == \E v : Incoming(v) /\ Stopped(in, got, t, type, lo, hi, v)

LEMMA ReadCourse ==
    ASSUME FcgiInv, Whole(in), phase # "begin", Read,
           NEW t \in Seq(Record), NEW type, NEW lo \in Nat, NEW hi \in 0 .. Len(t),
           Reading(t, type, lo, hi)
    PROVE  \/ Reading(t, type, lo, hi)'
           \/ (hurt' \/ conn = "cut") /\ Broken(t, type, lo, hi)'
<1>1. PICK k, v : k \in lo .. hi /\ Incoming(v) /\ OnCourse(in, got, t, type, k, hi, v)
    BY DEF Reading
<1>2. /\ Sound(in) /\ wire \in Seq(Unit) /\ in.sub \in {"none", "values"} /\ got' = got
      /\ in.avail = 0 /\ ~in.closed /\ in.at = "top" /\ in.buf = <<>> /\ UNCHANGED conn
    <2>1. Sound(in) /\ wire \in Seq(Unit) /\ in.sub # "body"
        BY DEF FcgiInv, ReaderInv, PhaseInv
    <2>2. in.sub \in {"none", "body", "values"}
        BY <2>1, ReadersAre
    <2> QED BY <2>1, <2>2 DEF Read, Filling
<1>3. ASSUME NEW n \in OneOrAll(Smaller(BuffLen, Len(wire))),
             in' = [in EXCEPT !.buf = SubSeq(wire, 1, n)], wire' = Rest(wire, n)
      PROVE  Reading(t, type, lo, hi)'
    <2>1. n \in 0 .. Len(wire)
        <3>1. BuffLen \in Nat /\ Len(wire) \in Nat
            BY <1>2, FcgiAssumption
        <3> QED BY <3>1 DEF OneOrAll, Smaller
    <2>2. Place(in, v, t, k, <<>>)
        BY <1>1 DEF OnCourse
    <2>3. PICK u : Incoming(u)' /\ Goes(in, in', u, t, k, <<>>)
        <3>1. PICK g : g = <<>>
            OBVIOUS
        <3>2. \E u : Incoming(u)' /\ Goes(in, in', u, t, k, g)
            BY <1>1, <1>2, <1>3, <2>1, <2>2, <3>1, ReadGoes
        <3> QED BY <3>1, <3>2
    <2>4. PICK r : r = in'
        OBVIOUS
    <2>5. OnCourse(r, got, t, type, k, hi, u)
        BY <1>1, <1>2, <2>3, <2>4, CourseGoes
    <2>6. OnCourse(in, got, t, type, k, hi, u)'
        BY <1>2, <2>4, <2>5
    <2> QED BY <1>1, <2>3, <2>6 DEF Reading
<1>4. ASSUME in' = Failed(in), wire' = wire
      PROVE  Broken(t, type, lo, hi)'
    <2>1. k # hi
        BY <1>1, <1>2 DEF OnCourse
    <2>2. PICK r : r = in'
        OBVIOUS
    <2>3. Stopped(r, got, t, type, lo, hi, v)
        BY <1>1, <1>2, <1>4, <2>1, <2>2, CourseFails
    <2>4. Stopped(in, got, t, type, lo, hi, v)'
        BY <1>2, <2>2, <2>3
    <2>5. Incoming(v)'
        BY <1>1, <1>2, <1>4 DEF Incoming
    <2> QED BY <2>4, <2>5 DEF Broken
<1> QED BY <1>3, <1>4 DEF Read

LEMMA FillCourse ==
    ASSUME FcgiInv, FillContent \/ FillPadding \/ FillHeader,
           NEW t \in Seq(Record), NEW type, NEW lo \in Nat, NEW hi \in 0 .. Len(t),
           Reading(t, type, lo, hi)
    PROVE  Reading(t, type, lo, hi)'
<1>1. PICK k, v : k \in lo .. hi /\ Incoming(v) /\ OnCourse(in, got, t, type, k, hi, v)
    BY DEF Reading
<1>2. Sound(in) /\ ~in.closed /\ UNCHANGED <<got, wire, conn>>
    BY DEF FcgiInv, ReaderInv, FillContent, FillPadding, FillHeader, Filling, Reader, peerVars
<1>3. Goes(in, in', v, t, k, <<>>)
    <2>1. PICK g : g = <<>>
        OBVIOUS
    <2>2. Place(in, v, t, k, g)
        BY <1>1, <2>1 DEF OnCourse
    <2>3. Goes(in, in', v, t, k, g)
        BY <1>2, <2>2, ContentGoes, PaddingGoes, HeaderGoes
    <2> QED BY <2>1, <2>3
<1>4. PICK r : r = in'
    OBVIOUS
<1>5. OnCourse(r, got, t, type, k, hi, v)
    BY <1>1, <1>2, <1>3, <1>4, CourseGoes
<1>6. OnCourse(in, got, t, type, k, hi, v)'
    BY <1>2, <1>4, <1>5
<1>7. Incoming(v)'
    BY <1>1, <1>2 DEF Incoming
<1> QED BY <1>1, <1>6, <1>7 DEF Reading

-----------------------------------------------------------------------------
\* Without an interrupt a header of the stream that is read fails only if its answer
\* cannot be sent.
LEMMA WhyFails ==
    ASSUME ProcessHeader, Faults \subseteq {"cut", "readIntr"}, ~in.err, Fails, in \in Readers
    PROVE  ProcessWrong \/ conn = "cut"
<1>1. in'.err
    <2>1. Failed(in).err /\ [Failed(in) EXCEPT !.sub = "none"].err
        BY DEF Failed, Readers
    <2> QED BY <2>1 DEF Fails
<1>2. CASE ProcessSecondBegin
    <2>1. ~[AtHeader EXCEPT !.skip = TRUE].err
        BY DEF AtHeader, Readers
    <2> QED BY <1>1, <1>2, <2>1 DEF ProcessSecondBegin, Reply
<1>3. CASE ProcessUnknown
    <2>1. ~AtHeader.err
        BY DEF AtHeader, Readers
    <2> QED BY <1>1, <1>3, <2>1 DEF ProcessUnknown, Reply
<1>4. CASE ProcessBegin \/ ProcessOther \/ ProcessValues \/ ProcessStream
    <2>1. \A b \in BOOLEAN : ~[AtHeader EXCEPT !.sub = "body"].err /\ ~[AtHeader EXCEPT !.skip = TRUE].err
              /\ ~[AtHeader EXCEPT !.sub = "values"].err /\ ~[AtHeader EXCEPT !.closed = b].err
        BY DEF AtHeader, Readers
    <2>2. (AtHeader.len = 0) \in BOOLEAN
        OBVIOUS
    <2> QED BY <1>1, <1>4, <2>1, <2>2 DEF ProcessBegin, ProcessOther, ProcessValues, ProcessStream, Reader
<1> QED BY <1>2, <1>3, <1>4 DEF ProcessHeader

LEMMA NoWrong ==
    ASSUME FcgiInv, ProcessWrong, req.id = 1, req.begun, Type \in Types,
           NEW t \in Seq(Record), NEW lo, NEW hi, Segment(t, Type, lo, hi), NEW k \in lo .. hi,
           NEW v, HeadOfNext(in, v, t, k), k # hi
    PROVE  FALSE
<1> DEFINE c == t[k + 1]
<1>1. /\ in.hdr = Header(c.type, c.id, Len(c.data), c.pad) /\ c \in Record
      /\ Len(c.data) \in Nat /\ (Len(c.data) = 0 <=> c.data = <<>>)
    BY DEF HeadOfNext, Record
<1>2. k + 1 \in lo + 1 .. hi
    BY DEF Segment
<1>3. /\ c.id = 1 => c.type = Type
      /\ c.id = 0 => c.type # "begin"
      /\ c.id \notin {0, 1} => (c.type = "begin" => Len(c.data) = BodyLen)
    BY <1>2 DEF Segment
<1>4. HdrType = c.type /\ HdrId = c.id /\ IsHeader /\ in.hdr[2][2] = Len(c.data)
    BY <1>1 DEF Header, HdrType, HdrId, IsHeader
<1>5. AtHeader.len = Len(c.data)
    BY <1>1, <1>4 DEF AtHeader, FcgiInv, ReaderInv, Sound, Readers
<1>6. c.id \in Nat /\ Type # "begin"
    BY <1>1 DEF Record, Type
<1> HIDE DEF c
<1> QED BY <1>3, <1>4, <1>5, <1>6 DEF ProcessWrong

LEMMA ProcessCourse ==
    ASSUME FcgiInv, Whole(in), ProcessHeader, Faults \subseteq {"cut", "readIntr"},
           phase \in {"params", "serve"}, req.id = 1, req.begun,
           NEW t \in Seq(Record), Begins(t).id = 1,
           NEW type, type = Type,
           NEW lo \in Nat, NEW hi \in 0 .. Len(t), Segment(t, type, lo, hi),
           Reading(t, type, lo, hi)
    PROVE  \/ Reading(t, type, lo, hi)'
           \/ conn = "cut" /\ Broken(t, type, lo, hi)'
<1>1. PICK k, v : k \in lo .. hi /\ Incoming(v) /\ OnCourse(in, got, t, type, k, hi, v)
    BY DEF Reading
<1>2. /\ Sound(in) /\ in \in Readers /\ in.sub = "none" /\ ~in.closed /\ ~in.err
      /\ in.avail = 0 /\ k # hi /\ HeadOfNext(in, v, t, k)
    <2>1. PICK g : g = <<>>
        OBVIOUS
    <2>2. Place(in, v, t, k, g)
        BY <1>1, <2>1 DEF OnCourse
    <2>3. in.sub = "none" /\ ~in.closed /\ Sound(in) /\ Len(in.hdr) = HeaderLen
        BY <2>2, AtProcess
    <2>4. HeadOfNext(in, v, t, k)
        BY <2>1, <2>2, <2>3, HeaderPlace
    <2>5. in.avail = 0
        BY DEF ProcessHeader, ProcessWrong, ProcessBegin, ProcessSecondBegin, ProcessOther,
               ProcessValues, ProcessUnknown, ProcessStream, IsRecord, Filling
    <2> QED BY <1>1, <2>3, <2>4, <2>5 DEF OnCourse, Sound
<1>3. UNCHANGED <<phase, got, wire, conn>>
    <2>1. ~ProcessBegin
        BY DEF ProcessBegin
    <2> QED BY <2>1 DEF ProcessHeader, ProcessWrong, ProcessSecondBegin, ProcessOther,
                ProcessValues, ProcessUnknown, ProcessStream, Reader, Reply, peerVars
<1>4. Incoming(v)'
    BY <1>1, <1>3 DEF Incoming
<1>5. PICK r : r = in'
    OBVIOUS
<1>6. CASE OnCourse(r, got, t, type, k + 1, hi, v) /\ k + 1 \in lo .. hi
    <2>1. OnCourse(in, got, t, type, k + 1, hi, v)'
        BY <1>3, <1>5, <1>6
    <2> QED BY <1>4, <1>6, <2>1 DEF Reading
<1>7. CASE Fails /\ k + 1 < hi
    <2>1. r \in {Failed(in), [Failed(in) EXCEPT !.sub = "none"]}
        BY <1>5, <1>7 DEF Fails
    <2>2. Stopped(r, got, t, type, lo, hi, v)
        BY <1>1, <1>2, <1>7, <2>1, CourseFails
    <2>3. Stopped(in, got, t, type, lo, hi, v)'
        BY <1>3, <1>5, <2>2
    <2>5. conn = "cut"
        BY <1>1, <1>2, <1>7, WhyFails, NoWrong DEF Type, Types
    <2> QED BY <1>4, <2>3, <2>5 DEF Broken
<1>8. \/ OnCourse(r, got, t, type, k + 1, hi, v) /\ k + 1 \in lo .. hi
      \/ Fails /\ k + 1 < hi
    BY <1>1, <1>5, CourseNext
<1> QED BY <1>6, <1>7, <1>8

-----------------------------------------------------------------------------
(* What was read for FCGI_GET_VALUES is answered.                          *)

Resumed(r) == [r EXCEPT !.sub = "none", !.closed = FALSE]

LEMMA ResumedPlace ==
    ASSUME NEW r, Sound(r), r.sub # "none", Unread(r) = 0,
           NEW t \in Seq(Record), NEW v, NEW k, NEW g, Place(r, v, t, k, g)
    PROVE  /\ Place(Resumed(r), v, t, k, g) /\ ~Resumed(r).closed /\ Resumed(r).err = r.err
           /\ Left(r, t, k) = <<>> /\ Left(Resumed(r), t, k) = <<>> /\ Resumed(r).sub = "none"
           /\ Unread(Resumed(r)) = 0
<1> DEFINE q == Resumed(r)
<1>1. /\ q.buf = r.buf /\ q.hdr = r.hdr /\ q.at = r.at /\ q.avail = r.avail
      /\ q.len = r.len /\ q.pad = r.pad /\ q.skip = r.skip /\ q.err = r.err /\ ~q.closed
      /\ q.sub = "none"
    BY ReadersAre DEF Readers, Resumed
<1> HIDE DEF q
<1>2. Unread(q) = Unread(r) /\ Before(q, v) = Before(r, v)
    BY <1>1 DEF Unread, Before
<1>3. Place(q, v, t, k, g)
    BY <1>1, <1>2 DEF Place
<1>4. k \in 0 .. Len(t)
    BY DEF Place
<1>5. Left(r, t, k) = <<>> /\ Left(q, t, k) = <<>>
    BY <1>2, <1>4, LeftNothing
<1> QED BY <1>1, <1>2, <1>3, <1>5 DEF q

LEMMA ValuesCourse ==
    ASSUME FcgiInv, Whole(in), ValuesRead, Faults \subseteq {"cut", "readIntr"},
           NEW t \in Seq(Record), NEW type, NEW lo \in Nat, NEW hi \in 0 .. Len(t),
           Reading(t, type, lo, hi)
    PROVE  \/ Reading(t, type, lo, hi)'
           \/ conn = "cut" /\ Broken(t, type, lo, hi)'
<1>1. PICK k, v : k \in lo .. hi /\ Incoming(v) /\ OnCourse(in, got, t, type, k, hi, v)
    BY DEF Reading
<1>2. /\ Sound(in) /\ in.sub = "values" /\ ~in.err /\ in.closed /\ in.avail = 0 /\ k # hi
      /\ Unread(in) = 0 /\ in.len = 0
      /\ Place(in, v, t, k, <<>>) /\ got \in Seq(Unit)
      /\ got \o (Left(in, t, k) \o ToCome(t, type, k)) = FlattenSeq(Pieces(t, type))
    <2>1. Sound(in) /\ in.sub = "values" /\ in.closed /\ in.avail = 0
        BY DEF FcgiInv, ReaderInv, ValuesRead
    <2>2. in.len \in Nat /\ in.avail \in Nat
        BY <2>1, ReadersAre
    <2> QED BY <1>1, <2>1, <2>2 DEF OnCourse, Unread
<1>3. /\ UNCHANGED <<got, wire, conn>>
      /\ \/ in' = Resumed(in)
         \/ conn = "cut" /\ in' = [Failed(in) EXCEPT !.sub = "none"]
    BY <1>2 DEF ValuesRead, Reply, Resumed
<1>4. Incoming(v)'
    BY <1>1, <1>3 DEF Incoming
<1>5. PICK r : r = in'
    OBVIOUS
<1>6. CASE r = Resumed(in)
    <2>1. PICK g : g = <<>>
        OBVIOUS
    <2>2. /\ Place(r, v, t, k, g) /\ ~r.closed /\ r.err = in.err
          /\ Left(in, t, k) = <<>> /\ Left(r, t, k) = <<>>
        BY <1>2, <1>6, <2>1, ResumedPlace
    <2>3. OnCourse(r, got, t, type, k, hi, v)
        BY <1>2, <2>1, <2>2 DEF OnCourse
    <2>4. OnCourse(in, got, t, type, k, hi, v)'
        BY <1>3, <1>5, <2>3
    <2> QED BY <1>1, <1>4, <2>4 DEF Reading
<1>7. CASE conn = "cut" /\ r = [Failed(in) EXCEPT !.sub = "none"]
    <2>1. in.at # "process"
        BY <1>2 DEF Place
    <2>2. Stopped(r, got, t, type, lo, hi, v)
        BY <1>1, <1>2, <1>7, <2>1, CourseFails
    <2>3. Stopped(in, got, t, type, lo, hi, v)'
        BY <1>3, <1>5, <2>2
    <2> QED BY <1>4, <1>7, <2>3 DEF Broken
<1> QED BY <1>3, <1>5, <1>6, <1>7

\* The application or ReadParams takes what there is.
TakesSome(n) == /\ in' = [in EXCEPT !.buf = Rest(in.buf, n), !.avail = in.avail - n]
                /\ got' = IF in.sub = "values" THEN got ELSE got \o SubSeq(in.buf, 1, n)
                /\ UNCHANGED <<wire, conn>>

LEMMA TakeCourse ==
    ASSUME FcgiInv, in.sub \in {"none", "values"}, NEW n \in 1 .. in.avail, TakesSome(n),
           NEW t \in Seq(Record), NEW type, NEW lo \in Nat, NEW hi \in 0 .. Len(t),
           Reading(t, type, lo, hi)
    PROVE  Reading(t, type, lo, hi)'
<1>1. PICK k, v : k \in lo .. hi /\ Incoming(v) /\ OnCourse(in, got, t, type, k, hi, v)
    BY DEF Reading
<1>2. Sound(in)
    BY DEF FcgiInv, ReaderInv
<1>3. /\ in.sub # "none" => OnCourse(in', got, t, type, k, hi, v)
      /\ in.sub = "none" => OnCourse(in', got \o SubSeq(in.buf, 1, n), t, type, k, hi, v)
    <2>1. in' = [in EXCEPT !.buf = Rest(in.buf, n), !.avail = in.avail - n]
        BY DEF TakesSome
    <2>2. PICK o : o = got
        OBVIOUS
    <2>3. /\ in.sub # "none" => OnCourse(in', o, t, type, k, hi, v)
          /\ in.sub = "none" => OnCourse(in', o \o SubSeq(in.buf, 1, n), t, type, k, hi, v)
        BY <1>1, <1>2, <2>1, <2>2, CourseTakes
    <2> QED BY <2>2, <2>3
<1>4. OnCourse(in, got, t, type, k, hi, v)'
    BY <1>3 DEF TakesSome
<1>5. Incoming(v)'
    BY <1>1 DEF Incoming, TakesSome
<1> QED BY <1>1, <1>4, <1>5 DEF Reading

-----------------------------------------------------------------------------
LEMMA ValuesBroken ==
    ASSUME FcgiInv, ValuesRead,
           NEW t, NEW type, NEW lo, NEW hi, Broken(t, type, lo, hi)
    PROVE  Broken(t, type, lo, hi)'
<1>1. PICK v : Incoming(v) /\ Stopped(in, got, t, type, lo, hi, v)
    BY DEF Broken
<1>2. Sound(in) /\ in.err
    BY <1>1 DEF FcgiInv, ReaderInv, Stopped
<1>3. UNCHANGED <<got, wire, conn>> /\ in' = [Failed(in) EXCEPT !.sub = "none"]
    BY <1>2 DEF ValuesRead, Reader, peerVars
<1>4. PICK r : r = in'
    OBVIOUS
<1>5. Stopped(r, got, t, type, lo, hi, v)
    BY <1>1, <1>2, <1>3, <1>4, StoppedStays
<1>6. Stopped(in, got, t, type, lo, hi, v)'
    BY <1>3, <1>4, <1>5
<1>7. Incoming(v)'
    BY <1>1, <1>3 DEF Incoming
<1> QED BY <1>6, <1>7 DEF Broken

-----------------------------------------------------------------------------
(* The steps of a reader that looks for the body among the parameters.     *)

Drifting(t, lo, hi) ==
    \E k, v, g : k \in lo .. hi /\ Incoming(v) /\ Adrift(in, got, t, k, hi, v, g)

\* The application has been told of an error.
Halted(t) ==
    /\ in.err /\ in.closed /\ in.avail = 0 /\ in.sub \in {"none", "values"}
    /\ got \in Seq(Unit) /\ IsPrefix(got, FlattenSeq(Pieces(t, "stdin")))

LEMMA EmptyPrefix ==
    ASSUME NEW t \in Seq(Record), NEW type
    PROVE  <<>> \in Seq(Unit) /\ IsPrefix(<<>>, FlattenSeq(Pieces(t, type)))
<1> DEFINE s == FlattenSeq(Pieces(t, type))
<1>1. s \in Seq(Unit)
    <2>1. Len(t) \in Nat /\ 0 \in 0 .. Len(t)
        OBVIOUS
    <2> QED BY <2>1, PiecesAre
<1> HIDE DEF s
<1>2. <<>> \in Seq(Unit) /\ <<>> \o s = s
    BY <1>1, UnitsJoin
<1>3. IsPrefix(<<>>, s)
    BY <1>1, <1>2, PrefixOf
<1> QED BY <1>2, <1>3 DEF s

LEMMA DriftHalts ==
    ASSUME Sound(in), in.avail = 0, in.sub \in {"none", "values"}, got = <<>>, Fails, UNCHANGED got,
           NEW t \in Seq(Record)
    PROVE  Halted(t)'
<1>1. PICK r : r = in'
    OBVIOUS
<1>2. r.err /\ r.closed /\ r.avail = 0 /\ r.sub \in {"none", "values"}
    BY <1>1, FailedIs DEF Fails
<1>3. <<>> \in Seq(Unit) /\ IsPrefix(<<>>, FlattenSeq(Pieces(t, "stdin")))
    BY EmptyPrefix
<1>4. (in.err /\ in.closed /\ in.avail = 0 /\ in.sub \in {"none", "values"})'
    BY <1>1, <1>2
<1>5. (got \in Seq(Unit) /\ IsPrefix(got, FlattenSeq(Pieces(t, "stdin"))))'
    BY <1>3
<1> QED BY <1>4, <1>5 DEF Halted

LEMMA ReadDrift ==
    ASSUME FcgiInv, in.sub # "body", Read,
           NEW t \in Seq(Record), NEW lo \in Nat, NEW hi \in 0 .. Len(t), Drifting(t, lo, hi)
    PROVE  Drifting(t, lo, hi)' \/ Halted(t)'
<1>1. PICK k, v, g : k \in lo .. hi /\ Incoming(v) /\ Adrift(in, got, t, k, hi, v, g)
    BY DEF Drifting
<1>2. /\ Sound(in) /\ wire \in Seq(Unit) /\ in.sub \in {"none", "values"} /\ got' = got
      /\ in.avail = 0 /\ ~in.closed /\ in.buf = <<>> /\ UNCHANGED conn /\ got = <<>>
    <2>1. Sound(in) /\ wire \in Seq(Unit) /\ in.sub # "body"
        BY DEF FcgiInv, ReaderInv
    <2>2. in.sub \in {"none", "body", "values"}
        BY <2>1, ReadersAre
    <2> QED BY <1>1, <2>1, <2>2 DEF Read, Filling, Adrift
<1>3. ASSUME NEW n \in OneOrAll(Smaller(BuffLen, Len(wire))),
             in' = [in EXCEPT !.buf = SubSeq(wire, 1, n)], wire' = Rest(wire, n)
      PROVE  Drifting(t, lo, hi)'
    <2>1. n \in 0 .. Len(wire)
        <3>1. BuffLen \in Nat /\ Len(wire) \in Nat
            BY <1>2, FcgiAssumption
        <3> QED BY <3>1 DEF OneOrAll, Smaller
    <2>2. Place(in, v, t, k, g)
        BY <1>1 DEF Adrift
    <2>3. PICK u : Incoming(u)' /\ Goes(in, in', u, t, k, g)
        BY <1>1, <1>2, <1>3, <2>1, <2>2, ReadGoes
    <2>4. PICK r : r = in'
        OBVIOUS
    <2>5. Adrift(r, got, t, k, hi, u, g)
        BY <1>1, <1>2, <2>3, <2>4, DriftGoes
    <2>6. Adrift(in, got, t, k, hi, u, g)'
        BY <1>2, <2>4, <2>5
    <2> QED BY <1>1, <2>3, <2>6 DEF Drifting
<1>4. ASSUME in' = Failed(in)
      PROVE  Halted(t)'
    BY <1>2, <1>4, DriftHalts DEF Fails
<1> QED BY <1>3, <1>4 DEF Read

LEMMA FillDrift ==
    ASSUME FcgiInv, in.sub # "body", FillContent \/ FillPadding \/ FillHeader,
           NEW t \in Seq(Record), NEW lo \in Nat, NEW hi \in 0 .. Len(t), Drifting(t, lo, hi)
    PROVE  Drifting(t, lo, hi)'
<1>1. PICK k, v, g : k \in lo .. hi /\ Incoming(v) /\ Adrift(in, got, t, k, hi, v, g)
    BY DEF Drifting
<1>2. Sound(in) /\ ~in.closed /\ UNCHANGED <<got, wire, conn>>
    BY DEF FcgiInv, ReaderInv, FillContent, FillPadding, FillHeader, Filling, Reader, peerVars
<1>3. Goes(in, in', v, t, k, g) /\ in.sub \in {"none", "values"}
    <2>1. Place(in, v, t, k, g)
        BY <1>1 DEF Adrift
    <2>2. in.sub \in {"none", "body", "values"}
        BY <1>2, ReadersAre
    <2> QED BY <1>2, <2>1, <2>2, ContentGoes, PaddingGoes, HeaderGoes
<1>4. PICK r : r = in'
    OBVIOUS
<1>5. Adrift(r, got, t, k, hi, v, g)
    BY <1>1, <1>2, <1>3, <1>4, DriftGoes
<1>6. Adrift(in, got, t, k, hi, v, g)'
    BY <1>2, <1>4, <1>5
<1>7. Incoming(v)'
    BY <1>1, <1>2 DEF Incoming
<1> QED BY <1>1, <1>6, <1>7 DEF Drifting

LEMMA ProcessDrift ==
    ASSUME FcgiInv, ProcessHeader, phase = "serve", req.id = 1, req.begun,
           NEW t \in Seq(Record), NEW lo \in Nat, NEW hi \in 0 .. Len(t),
           Segment(t, "params", lo, hi), Drifting(t, lo, hi)
    PROVE  Drifting(t, lo, hi)' \/ Halted(t)'
<1>1. PICK k, v, g : k \in lo .. hi /\ Incoming(v) /\ Adrift(in, got, t, k, hi, v, g)
    BY DEF Drifting
<1>2. Sound(in) /\ in.sub = "none" /\ in.avail = 0 /\ got = <<>>
    <2>1. Place(in, v, t, k, g)
        BY <1>1 DEF Adrift
    <2>2. in.sub = "none" /\ Sound(in)
        BY <2>1, AtProcess
    <2>3. in.avail = 0
        BY DEF ProcessHeader, ProcessWrong, ProcessBegin, ProcessSecondBegin, ProcessOther,
               ProcessValues, ProcessUnknown, ProcessStream, IsRecord, Filling
    <2> QED BY <1>1, <2>2, <2>3 DEF Adrift
<1>3. UNCHANGED <<phase, got, wire, conn>>
    <2>1. ~ProcessBegin
        BY DEF ProcessBegin
    <2> QED BY <2>1 DEF ProcessHeader, ProcessWrong, ProcessSecondBegin, ProcessOther,
                ProcessValues, ProcessUnknown, ProcessStream, Reader, Reply, peerVars
<1>4. Incoming(v)'
    BY <1>1, <1>3 DEF Incoming
<1>5. PICK r : r = in'
    OBVIOUS
<1>6. CASE Adrift(r, got, t, k + 1, hi, v, g) /\ k + 1 \in lo .. hi
    <2>1. Adrift(in, got, t, k + 1, hi, v, g)'
        BY <1>3, <1>5, <1>6
    <2> QED BY <1>4, <1>6, <2>1 DEF Drifting
<1>7. CASE Fails
    BY <1>2, <1>3, <1>7, DriftHalts
<1>8. (Adrift(r, got, t, k + 1, hi, v, g) /\ k + 1 \in lo .. hi) \/ Fails
    <2>1. Type # "params"
        BY DEF Type
    <2> QED BY <1>1, <1>5, <2>1, DriftNext
<1> QED BY <1>6, <1>7, <1>8

LEMMA ValuesDrift ==
    ASSUME FcgiInv, ValuesRead, NEW t \in Seq(Record), NEW lo \in Nat, NEW hi \in 0 .. Len(t),
           Drifting(t, lo, hi)
    PROVE  Drifting(t, lo, hi)' \/ Halted(t)'
<1>1. PICK k, v, g : k \in lo .. hi /\ Incoming(v) /\ Adrift(in, got, t, k, hi, v, g)
    BY DEF Drifting
<1>2. Sound(in) /\ in.sub = "values" /\ in.avail = 0 /\ got = <<>> /\ in.err
    BY <1>1 DEF FcgiInv, ReaderInv, ValuesRead, Adrift
<1>3. in' = [Failed(in) EXCEPT !.sub = "none"] /\ UNCHANGED got
    BY <1>2 DEF ValuesRead, Reader
<1> QED BY <1>2, <1>3, DriftHalts DEF Fails

\* It has nothing to give.
LEMMA TakeDrift ==
    ASSUME FcgiInv, in.sub \in {"none", "values"}, NEW n \in 1 .. in.avail, TakesSome(n),
           NEW t \in Seq(Record), NEW lo \in Nat, NEW hi \in 0 .. Len(t), Drifting(t, lo, hi)
    PROVE  Drifting(t, lo, hi)' /\ in.sub = "values"
<1>1. PICK k, v, g : k \in lo .. hi /\ Incoming(v) /\ Adrift(in, got, t, k, hi, v, g)
    BY DEF Drifting
<1>2. Sound(in)
    BY DEF FcgiInv, ReaderInv
<1>3. Adrift(in', got, t, k, hi, v, g) /\ in.sub # "none"
    <2>1. in' = [in EXCEPT !.buf = Rest(in.buf, n), !.avail = in.avail - n]
        BY DEF TakesSome
    <2>2. PICK o : o = got
        OBVIOUS
    <2>3. Adrift(in', o, t, k, hi, v, g) /\ in.sub # "none"
        BY <1>1, <1>2, <2>1, <2>2, DriftTakes
    <2> QED BY <2>2, <2>3
<1>4. Adrift(in, got, t, k, hi, v, g)'
    BY <1>3 DEF TakesSome
<1>5. Incoming(v)'
    BY <1>1 DEF Incoming, TakesSome
<1> QED BY <1>1, <1>3, <1>4, <1>5 DEF Drifting

LEMMA ValuesHalted ==
    ASSUME FcgiInv, ValuesRead, NEW t, Halted(t)
    PROVE  Halted(t)'
<1>1. Sound(in) /\ in.avail = 0 /\ in.err
    BY DEF FcgiInv, ReaderInv, Halted
<1>2. UNCHANGED got /\ in' = [Failed(in) EXCEPT !.sub = "none"]
    BY <1>1 DEF ValuesRead, Reader
<1>3. PICK r : r = in'
    OBVIOUS
<1>4. r.err /\ r.closed /\ r.avail = 0 /\ r.sub \in {"none", "values"}
    <2>1. r.sub \in {in.sub, "none"} /\ r.err /\ r.closed /\ r.avail = in.avail
        BY <1>1, <1>2, <1>3, FailedIs
    <2> QED BY <1>1, <2>1 DEF Halted
<1>5. (in.err /\ in.closed /\ in.avail = 0 /\ in.sub \in {"none", "values"})'
    BY <1>3, <1>4
<1>6. (got \in Seq(Unit) /\ IsPrefix(got, FlattenSeq(Pieces(t, "stdin"))))'
    BY <1>2 DEF Halted
<1> QED BY <1>5, <1>6 DEF Halted

-----------------------------------------------------------------------------
(* The steps of a worker that waits for a request to begin.                *)

Starting(t) == \E k, v : k \in 0 .. Start(t) /\ Incoming(v) /\ Fresh(in, got, t, k, v, req.id)
NoWire == wire = <<>> /\ in \in {NewReader, Failed(NewReader)}
Beginning(t) == NoWire \/ Starting(t) \/ Dead(in, got)

LEMMA NewReaderIs ==
    LET r == NewReader IN
    /\ r.buf = <<>> /\ r.avail = 0 /\ r.len = 0 /\ r.pad = 0 /\ ~r.skip /\ ~r.closed /\ ~r.err
    /\ r.sub = "none" /\ r.at = "top" /\ r.hdr = <<>>
BY DEF NewReader

LEMMA FailedNewIs ==
    LET r == Failed(NewReader) IN
    /\ r.buf = <<>> /\ r.avail = 0 /\ r.err /\ r.closed /\ r.sub = "none" /\ r.at = "top"
BY DEF Failed, NewReader

\* A new reader is before the request.
LEMMA NewStarts ==
    ASSUME NEW t, Regular(t), NEW o, NEW id
    PROVE  Fresh(NewReader, o, t, 0, AllBytes(t), id)
<1> DEFINE r == NewReader
           a == Ahead(t, 0, 0, 0)
<1>1. t \in Seq(Record) /\ Start(t) \in 1 .. Len(t)
    BY RegularIs
<1>2. /\ r.buf = <<>> /\ r.avail = 0 /\ r.len = 0 /\ r.pad = 0 /\ ~r.skip /\ ~r.closed /\ ~r.err
      /\ r.sub = "none" /\ r.at = "top" /\ r.hdr = <<>>
    BY NewReaderIs
<1>3. a = AllBytes(t) /\ AllBytes(t) \in Seq(Unit)
    BY <1>1, AheadStart
<1>4. Len(Body(t, 0)) \in Nat
    BY <1>1, BodyIs
<1> HIDE DEF r
<1>5. Unread(r) = 0
    BY <1>2 DEF Unread
<1>6. Before(r, AllBytes(t)) = <<>> \o Ahead(t, 0, Unread(r), r.pad)
    <2>1. Before(r, AllBytes(t)) = <<>> \o (<<>> \o AllBytes(t))
        BY <1>2 DEF Before
    <2>2. <<>> \o AllBytes(t) = AllBytes(t)
        BY <1>3, UnitsJoin
    <2>3. Ahead(t, 0, Unread(r), r.pad) = AllBytes(t)
        BY <1>2, <1>3, <1>5
    <2> QED BY <2>1, <2>2, <2>3
<1>7. <<>> \in Seq(Unit) /\ NoType(<<>>)
    BY UnitsJoin DEF NoType
<1>8. 0 \in 0 .. Len(t) /\ 0 \in 0 .. Start(t) /\ 0 < Start(t)
    BY <1>1
<1>9. Place(r, AllBytes(t), t, 0, <<>>)
    BY <1>2, <1>3, <1>4, <1>5, <1>6, <1>7, <1>8 DEF Place
<1>10. Left(r, t, 0) = <<>>
    BY <1>1, <1>5, <1>8, LeftNothing
<1>11. Fresh(r, o, t, 0, AllBytes(t), id)
    BY <1>2, <1>8, <1>9, <1>10 DEF Fresh
<1> QED BY <1>11 DEF r

LEMMA DeadIs ==
    ASSUME NEW r, Sound(r), r.avail = 0, NEW o, r.sub = "body" => Len(o) # BodyLen,
           NEW q, q \in {Failed(r), [Failed(r) EXCEPT !.sub = "none"]}
    PROVE  Dead(q, o)
<1>1. q.err /\ q.closed /\ q.avail = r.avail /\ q.sub \in {r.sub, "none"}
    BY FailedIs
<1> QED BY <1>1 DEF Dead

LEMMA NoWireIdle ==
    ASSUME NoWire
    PROVE  /\ in.buf = <<>> /\ in.avail = 0 /\ in.sub = "none" /\ in.at = "top"
           /\ ~in.closed => in = NewReader
BY NewReaderIs, FailedNewIs DEF NoWire

LEMMA ReadBegins ==
    ASSUME FcgiInv, phase = "begin", Read, NEW t, Regular(t), Beginning(t)
    PROVE  Beginning(t)' /\ (NoWire => NoWire')
<1>1. /\ Sound(in) /\ wire \in Seq(Unit) /\ got' = got /\ req' = req
      /\ in.avail = 0 /\ ~in.closed /\ in.buf = <<>> /\ UNCHANGED conn
      /\ in.sub = "body" => Len(got) # BodyLen
    <2>1. in.sub = "body" => Len(got) < 2
        BY DEF Read, Filling, Wanted, BodyLen
    <2>2. in.sub = "body" => Len(got) # BodyLen
        <3>1. ~(2 < 2)
            OBVIOUS
        <3> QED BY <2>1, <3>1 DEF BodyLen
    <2> QED BY <2>2 DEF FcgiInv, ReaderInv, Read, Filling
<1>2. CASE NoWire
    <2>1. OneOrAll(Smaller(BuffLen, Len(wire))) = {}
        BY <1>2, FcgiAssumption, Len(<<>>) = 0 DEF NoWire, OneOrAll, Smaller
    <2>2. in' = Failed(in) /\ wire' = wire
        BY <2>1 DEF Read
    <2>3. NoWire'
        BY <1>1, <1>2, <2>2, NoWireIdle DEF NoWire
    <2> QED BY <2>3 DEF Beginning
<1>3. ASSUME in' = Failed(in)
      PROVE  Dead(in, got)'
    <2>1. PICK r : r = in'
        OBVIOUS
    <2>2. Dead(r, got)
        BY <1>1, <1>3, <2>1, DeadIs
    <2> QED BY <1>1, <2>1, <2>2
<1>4. ASSUME Starting(t), NEW n \in OneOrAll(Smaller(BuffLen, Len(wire))),
             in' = [in EXCEPT !.buf = SubSeq(wire, 1, n)], wire' = Rest(wire, n)
      PROVE  Starting(t)'
    <2>0. t \in Seq(Record) /\ Start(t) \in Nat
        BY RegularIs
    <2>1. PICK k, v : k \in 0 .. Start(t) /\ Incoming(v) /\ Fresh(in, got, t, k, v, req.id)
        BY <1>4 DEF Starting
    <2>2. n \in 0 .. Len(wire)
        <3>1. BuffLen \in Nat /\ Len(wire) \in Nat
            BY <1>1, FcgiAssumption
        <3> QED BY <3>1 DEF OneOrAll, Smaller
    <2>3. PICK u : Incoming(u)' /\ Goes(in, in', u, t, k, <<>>)
        <3>1. PICK g : g = <<>>
            OBVIOUS
        <3>2. Place(in, v, t, k, g)
            BY <2>1, <3>1 DEF Fresh
        <3>3. \E u : Incoming(u)' /\ Goes(in, in', u, t, k, g)
            BY <1>1, <1>4, <2>0, <2>1, <2>2, <3>2, ReadGoes
        <3> QED BY <3>1, <3>3
    <2>4. PICK r : r = in'
        OBVIOUS
    <2>5. /\ in.sub \in {"none", "body", "values"}
          /\ in.sub = "body" => r.pad = 0 /\ ~r.closed /\ Unread(r) = Unread(in)
        <3>1. r.pad = in.pad /\ r.closed = in.closed /\ r.len = in.len /\ r.avail = in.avail
            BY <1>1, <1>4, <2>4, ReadersAre DEF Readers
        <3>2. in.sub = "body" => in.pad = 0
            BY <2>0, <2>1 DEF Fresh
        <3>3. in.sub \in {"none", "body", "values"}
            BY <1>1, ReadersAre
        <3> QED BY <1>1, <3>1, <3>2, <3>3 DEF Unread
    <2>6. Fresh(r, got, t, k, u, req.id)
        BY <1>1, <2>0, <2>1, <2>3, <2>4, <2>5, FreshGoes
    <2>7. Fresh(in, got, t, k, u, req.id)'
        BY <1>1, <2>4, <2>6
    <2> QED BY <2>1, <2>3, <2>7 DEF Starting
<1>5. ~Dead(in, got)
    BY <1>1 DEF Dead
<1> QED BY <1>2, <1>3, <1>4, <1>5 DEF Read, Beginning

LEMMA FillBegins ==
    ASSUME FcgiInv, phase = "begin", FillContent \/ FillPadding \/ FillHeader,
           NEW t, Regular(t), Beginning(t)
    PROVE  Beginning(t)' /\ ~NoWire
<1>1. Sound(in) /\ ~in.closed /\ UNCHANGED <<got, wire, conn, req>>
    BY DEF FcgiInv, ReaderInv, FillContent, FillPadding, FillHeader, Filling, Reader, peerVars
<1>2. ~NoWire /\ ~Dead(in, got)
    BY <1>1, NoWireIdle DEF FillContent, FillPadding, FillHeader, Filling, Dead
<1>3. PICK k, v : k \in 0 .. Start(t) /\ Incoming(v) /\ Fresh(in, got, t, k, v, req.id)
    BY <1>2 DEF Beginning, Starting
<1>4. Fresh(in', got, t, k, v, req.id)
    <2>1. PICK o, id : o = got /\ id = req.id
        OBVIOUS
    <2> QED BY <1>1, <1>3, <2>1, FreshFills
<1>5. Fresh(in, got, t, k, v, req.id)'
    BY <1>1, <1>4
<1>6. Incoming(v)'
    BY <1>1, <1>3 DEF Incoming
<1> QED BY <1>3, <1>2, <1>5, <1>6 DEF Beginning, Starting

LEMMA ProcessBegins ==
    ASSUME FcgiInv, phase = "begin", ~req.begun, ProcessHeader, NEW t, Regular(t), Beginning(t)
    PROVE  Beginning(t)' /\ ~NoWire
<1>1. Sound(in) /\ ~in.closed /\ in.avail = 0 /\ in.at = "process"
    BY DEF FcgiInv, ReaderInv, ProcessHeader, ProcessWrong, ProcessBegin, ProcessSecondBegin,
           ProcessOther, ProcessValues, ProcessUnknown, ProcessStream, IsRecord, Filling
<1>2. UNCHANGED <<wire, conn>>
    BY DEF ProcessHeader, ProcessWrong, ProcessBegin, ProcessSecondBegin,
           ProcessOther, ProcessValues, ProcessUnknown, ProcessStream, Reader, Reply, peerVars
<1>3. ~NoWire /\ ~Dead(in, got)
    BY <1>1, NoWireIdle DEF Dead
<1>4. PICK k, v : k \in 0 .. Start(t) /\ Incoming(v) /\ Fresh(in, got, t, k, v, req.id)
    BY <1>3 DEF Beginning, Starting
<1>5. Incoming(v)'
    BY <1>2, <1>4 DEF Incoming
<1>6. CASE Fresh(in', got', t, k + 1, v, req'.id) /\ k + 1 \in 0 .. Start(t)
    <2>1. Fresh(in, got, t, k + 1, v, req.id)'
        BY <1>6
    <2> QED BY <1>3, <1>5, <1>6, <2>1 DEF Beginning, Starting
<1>7. CASE Fails /\ in.sub = "none"
    <2>1. PICK r : r = in'
        OBVIOUS
    <2>2. PICK o : o = got'
        OBVIOUS
    <2>3. Dead(r, o)
        BY <1>1, <1>7, <2>1, DeadIs DEF Fails
    <2> QED BY <1>3, <2>1, <2>2, <2>3 DEF Beginning
<1>8. (Fresh(in', got', t, k + 1, v, req'.id) /\ k + 1 \in 0 .. Start(t)) \/ (Fails /\ in.sub = "none")
    <2>1. PICK o, id : o = got /\ id = req.id
        OBVIOUS
    <2>2. Fresh(in, o, t, k, v, id)
        BY <1>4, <2>1
    <2> QED BY <2>2, FreshNext
<1> QED BY <1>6, <1>7, <1>8

-----------------------------------------------------------------------------
LEMMA TakeBegins ==
    ASSUME FcgiInv, phase = "begin", Take, NEW t, Regular(t), Beginning(t)
    PROVE  Beginning(t)' /\ ~NoWire
<1>1. Sound(in) /\ in.avail > 0 /\ UNCHANGED <<req, wire, conn>> /\ in.avail \in Nat
    BY ReadersAre DEF FcgiInv, ReaderInv, Take, peerVars
<1>2. ~NoWire /\ ~Dead(in, got)
    BY <1>1, NoWireIdle DEF Dead
<1>3. PICK k, v : k \in 0 .. Start(t) /\ Incoming(v) /\ Fresh(in, got, t, k, v, req.id)
    BY <1>2 DEF Beginning, Starting
<1>4. PICK n, o, id : n = in.avail /\ o = got /\ id = req.id
    OBVIOUS
<1>5. /\ in' = [in EXCEPT !.buf = Rest(in.buf, n), !.avail = in.avail - n]
      /\ got' = IF in.sub = "values" THEN o ELSE o \o SubSeq(in.buf, 1, n)
    <2>1. in.avail - n = 0
        BY <1>1, <1>4
    <2> QED BY <1>4, <2>1 DEF Take
<1>6. Fresh(in', got', t, k, v, req.id)
    <2>1. Fresh(in, got, t, k, v, id)
        BY <1>3, <1>4
    <2>2. /\ in.sub = "values" => Fresh(in', got, t, k, v, id)
          /\ in.sub # "values" => Fresh(in', got \o SubSeq(in.buf, 1, n), t, k, v, id)
        BY <1>1, <1>4, <1>5, <2>1, FreshTakes
    <2> QED BY <1>4, <1>5, <2>2
<1>7. Fresh(in, got, t, k, v, req.id)'
    BY <1>1, <1>6
<1>8. Incoming(v)'
    BY <1>1, <1>3 DEF Incoming
<1> QED BY <1>3, <1>2, <1>7, <1>8 DEF Beginning, Starting

LEMMA ValuesBegins ==
    ASSUME FcgiInv, phase = "begin", ValuesRead, NEW t, Regular(t), Beginning(t)
    PROVE  Beginning(t)' /\ ~NoWire
<1>1. /\ Sound(in) /\ in.avail = 0 /\ in.sub = "values" /\ in.closed
      /\ UNCHANGED <<got, req, wire, conn>>
    BY DEF FcgiInv, ReaderInv, ValuesRead, Reply, Reader, peerVars
<1>2. ~NoWire
    BY <1>1, NoWireIdle
<1>3. CASE in' = [Failed(in) EXCEPT !.sub = "none"]
    <2>1. PICK r : r = in'
        OBVIOUS
    <2>2. Dead(r, got)
        BY <1>1, <1>3, <2>1, DeadIs
    <2>3. Dead(in, got)'
        BY <1>1, <2>1, <2>2
    <2> QED BY <1>2, <2>3 DEF Beginning
<1>4. CASE in' = Resumed(in) /\ ~in.err
    <2>1. PICK k, v : k \in 0 .. Start(t) /\ Incoming(v) /\ Fresh(in, got, t, k, v, req.id)
        BY <1>2, <1>4 DEF Beginning, Starting, Dead
    <2>2. t \in Seq(Record) /\ Start(t) \in 1 .. Len(t)
        BY RegularIs
    <2>3. k < Start(t) /\ Place(in, v, t, k, <<>>) /\ Unread(in) = 0
        BY <1>1, <2>1, <2>2 DEF Fresh
    <2>4. PICK r : r = in'
        OBVIOUS
    <2>5. PICK g : g = <<>>
        OBVIOUS
    <2>6. Place(r, v, t, k, g) /\ ~r.closed /\ r.err = in.err /\ Left(r, t, k) = <<>> /\ r.sub = "none"
        BY <1>1, <1>4, <2>2, <2>3, <2>4, <2>5, ResumedPlace
    <2>7. Fresh(r, got, t, k, v, req.id)
        BY <1>4, <2>1, <2>2, <2>3, <2>5, <2>6 DEF Fresh
    <2>8. Fresh(in, got, t, k, v, req.id)'
        BY <1>1, <2>4, <2>7
    <2>9. Incoming(v)'
        BY <1>1, <2>1 DEF Incoming
    <2> QED BY <2>1, <1>2, <2>8, <2>9 DEF Beginning, Starting
<1> QED BY <1>3, <1>4 DEF ValuesRead, Reply, Reader, Resumed

LEMMA BegunReads ==
    ASSUME FcgiInv, phase = "begin", Begun, NEW t, Regular(t), Beginning(t), ~TryAgain
    PROVE  /\ phase' = "params" /\ Proper(t) /\ req'.id = 1 /\ in'.sub = "none" /\ ~NoWire
           /\ Reading(t, "params", Start(t), End(t))'
<1>1. /\ Sound(in) /\ in.sub = "body" /\ in.avail = 0 /\ Len(got) = BodyLen /\ got[1][2] = 0
      /\ phase' = "params" /\ in' = SetReaderType(in) /\ got' = <<>> /\ UNCHANGED <<wire, conn>>
      /\ req' = [req EXCEPT !.keep = got[2][2] = 1, !.begun = TRUE] /\ req \in Counts
    BY DEF FcgiInv, ReaderInv, Begun, peerVars
<1>2. ~NoWire
    BY <1>1, NoWireIdle
<1>3. PICK k, v : k \in 0 .. Start(t) /\ Incoming(v) /\ Fresh(in, got, t, k, v, req.id)
    BY <1>1, <1>2 DEF Beginning, Starting, Dead
<1>4. /\ k = Start(t) /\ req.id = 1 /\ t[k].id = 1 /\ ~in.closed /\ ~in.err
      /\ Place(in, v, t, k, <<>>) /\ Unread(in) = 0 /\ in.pad = 0 /\ in.hdr = <<>>
      /\ got[1][2] = t[k].data[1]
    <2>1. PICK id : id = req.id
        OBVIOUS
    <2> QED BY <1>1, <1>3, <2>1, FreshBegun
<1>5. /\ t \in Seq(Record) /\ Begins(t) = t[k] /\ k \in 1 .. Len(t) /\ t[k].type = "begin"
      /\ \A i \in 1 .. k - 1 : t[i].id = 0
    BY <1>4, RegularIs
<1>6. Proper(t)
    BY <1>1, <1>4 DEF Proper
<1>7. Segment(t, "params", k, End(t))
    BY <1>4, <1>6, Segments
<1>8. req'.id = 1
    BY <1>1, <1>4 DEF Counts
<1>9. PICK r, g : r = in' /\ g = <<>>
    OBVIOUS
<1>10. /\ Place(r, v, t, k, g) /\ Left(r, t, k) = <<>>
       /\ ~r.closed /\ r.err = in.err /\ r.sub = "none"
    <2>1. v \in Seq(Unit) /\ g \in Seq(Unit) /\ NoType(g) /\ k \in 0 .. Len(t)
        BY <1>4, <1>9 DEF Place
    <2>2. in.buf \o v = g \o Ahead(t, k, 0, 0)
        <3>1. in.hdr \o (in.buf \o v) = g \o Ahead(t, k, 0, 0)
            BY <1>4, <1>9 DEF Place, Before
        <3>2. in.buf \o v \in Seq(Unit)
            BY <1>1, <2>1, ReadersAre, UnitsJoin
        <3>3. in.hdr \o (in.buf \o v) = in.buf \o v
            BY <1>4, <3>2, UnitsJoin
        <3> QED BY <3>1, <3>3
    <2>3. Sound(in) /\ in.hdr = <<>> /\ t \in Seq(Record) /\ r = SetReaderType(in)
        BY <1>1, <1>4, <1>5, <1>9
    <2>4. ResetTo(in, r, v, t, k, g)
        BY <2>1, <2>2, <2>3, ResetPlace
    <2> QED BY <2>4 DEF ResetTo
<1>11. ToCome(t, "params", k) = FlattenSeq(Pieces(t, "params")) /\ ToCome(t, "params", k) \in Seq(Unit)
    <2>1. \A i \in 1 .. k : ~(t[i].type = "params" /\ t[i].id = Begins(t).id)
        BY <1>4, <1>5
    <2>2. k \in 0 .. Len(t)
        BY <1>5
    <2> QED BY <1>5, <2>1, <2>2, AllToCome, PiecesAre
<1>12. OnCourse(r, <<>>, t, "params", k, End(t), v)
    <2>1. <<>> \in Seq(Unit) /\ <<>> \o (<<>> \o ToCome(t, "params", k)) = FlattenSeq(Pieces(t, "params"))
        BY <1>11, UnitsJoin
    <2>2. k # End(t)
        BY <1>5, <1>7 DEF Segment
    <2> QED BY <1>4, <1>9, <1>10, <2>1, <2>2 DEF OnCourse
<1>13. OnCourse(in, got, t, "params", k, End(t), v)'
    BY <1>1, <1>9, <1>12
<1>14. Incoming(v)'
    BY <1>1, <1>3 DEF Incoming
<1>15. k \in Start(t) .. End(t)
    BY <1>4, <1>5, <1>7 DEF Segment
<1>16. in'.sub = "none"
    BY <1>9, <1>10
<1> QED BY <1>1, <1>2, <1>6, <1>8, <1>13, <1>14, <1>15, <1>16 DEF Reading

-----------------------------------------------------------------------------
\* From the parameters to the body.
ToBody(o) ==
    /\ in' = SetReaderType(in) /\ params' = got /\ got' = o /\ UNCHANGED <<wire, conn>>

LEMMA ParamsFull ==
    ASSUME Sound(in), Whole(in), in.sub = "none", in.closed, ToBody(<<>>),
           NEW t, Regular(t), Proper(t), Reading(t, "params", Start(t), End(t))
    PROVE  /\ params' = FlattenSeq(Pieces(t, "params"))
           /\ Reading(t, "stdin", End(t), Len(t))'
<1> DEFINE e == End(t)
           m == Len(t)
<1>1. PICK k, v : k \in Start(t) .. e /\ Incoming(v) /\ OnCourse(in, got, t, "params", k, e, v)
    BY DEF Reading
<1>2. /\ t \in Seq(Record) /\ Begins(t) = t[Start(t)] /\ Start(t) \in 1 .. m /\ t[Start(t)].id = 1
      /\ t[Start(t)].type = "begin" /\ \A i \in 1 .. Start(t) - 1 : t[i].id = 0
    BY RegularIs DEF Proper
<1>3. Segment(t, "params", Start(t), e) /\ Segment(t, "stdin", e, m)
    BY Segments
<1> HIDE DEF e, m
<1>4. e \in Start(t) + 1 .. m /\ m \in e + 1 .. m /\ m \in Nat
    <2>1. m \in Nat
        BY <1>2 DEF m
    <2> QED BY <1>2, <1>3, <2>1 DEF Segment, m
<1>5. /\ k = e /\ Place(in, v, t, k, <<>>) /\ got \in Seq(Unit) /\ ~in.err
      /\ Unread(in) = 0 /\ in.pad = 0 /\ in.hdr = <<>>
      /\ got \o (Left(in, t, k) \o ToCome(t, "params", k)) = FlattenSeq(Pieces(t, "params"))
    BY <1>1 DEF OnCourse, Whole
<1>6. k \in 0 .. Len(t)
    BY <1>2, <1>4, <1>5 DEF m
<1>7. ToCome(t, "params", k) = <<>>
    <2>1. ASSUME NEW i \in k + 1 .. Len(t)
          PROVE  ~(t[i].type = "params" /\ t[i].id = Begins(t).id)
        <3>1. i \in e + 1 .. m
            BY <1>5, m = Len(t) DEF m
        <3>2. t[i].id = 1 => t[i].type = "stdin"
            BY <1>3, <3>1 DEF Segment
        <3> QED BY <1>2, <3>2
    <2> QED BY <1>2, <1>6, <2>1, NothingToCome
<1>8. params' = FlattenSeq(Pieces(t, "params"))
    <2>1. Left(in, t, k) = <<>>
        BY <1>2, <1>5, <1>6, LeftNothing
    <2>2. got \o (<<>> \o <<>>) = got
        BY <1>5, UnitsJoin
    <2> QED BY <1>5, <1>7, <2>1, <2>2 DEF ToBody
<1>9. ToCome(t, "stdin", k) = FlattenSeq(Pieces(t, "stdin")) /\ ToCome(t, "stdin", k) \in Seq(Unit)
    <2>1. ASSUME NEW i \in 1 .. k
          PROVE  ~(t[i].type = "stdin" /\ t[i].id = Begins(t).id)
        <3>1. CASE i \in Start(t) + 1 .. e
            <4>1. t[i].id = 1 => t[i].type = "params"
                BY <1>3, <3>1 DEF Segment
            <4> QED BY <1>2, <4>1
        <3>2. CASE i \in 1 .. Start(t) - 1
            BY <1>2, <3>2
        <3>3. CASE i = Start(t)
            BY <1>2, <3>3
        <3>4. Start(t) \in Nat /\ e \in Nat
            BY <1>2, <1>4
        <3> QED BY <1>5, <3>1, <3>2, <3>3, <3>4
    <2> QED BY <1>2, <1>6, <2>1, AllToCome, PiecesAre
<1>10. PICK r, g : r = in' /\ g = <<>>
    OBVIOUS
<1>11. ResetTo(in, r, v, t, k, g)
    <2>1. v \in Seq(Unit) /\ g \in Seq(Unit) /\ NoType(g)
        BY <1>5, <1>10 DEF Place
    <2>2. in.buf \o v = g \o Ahead(t, k, 0, 0)
        <3>1. in.hdr \o (in.buf \o v) = g \o Ahead(t, k, 0, 0)
            BY <1>5, <1>10 DEF Place, Before
        <3>2. in.buf \o v \in Seq(Unit)
            BY <2>1, ReadersAre, UnitsJoin
        <3>3. in.hdr \o (in.buf \o v) = in.buf \o v
            BY <1>5, <3>2, UnitsJoin
        <3> QED BY <3>1, <3>3
    <2>3. in.hdr = <<>> /\ t \in Seq(Record) /\ r = SetReaderType(in)
        BY <1>2, <1>5, <1>10 DEF ToBody
    <2> QED BY <1>6, <2>1, <2>2, <2>3, ResetPlace
<1>12. OnCourse(r, <<>>, t, "stdin", k, m, v)
    <2>1. <<>> \in Seq(Unit) /\ <<>> \o (<<>> \o ToCome(t, "stdin", k)) = FlattenSeq(Pieces(t, "stdin"))
        BY <1>9, UnitsJoin
    <2>2. k # m
        BY <1>2, <1>4, <1>5
    <2>3. /\ Place(r, v, t, k, g) /\ Left(r, t, k) = <<>>
          /\ ~r.closed /\ r.err = in.err
        BY <1>11 DEF ResetTo
    <2> QED BY <1>5, <1>10, <2>1, <2>2, <2>3 DEF OnCourse
<1>13. OnCourse(in, got, t, "stdin", k, m, v)'
    BY <1>10, <1>12 DEF ToBody
<1>14. Incoming(v)'
    BY <1>1 DEF Incoming, ToBody
<1>15. k \in e .. m
    BY <1>2, <1>4, <1>5
<1> QED BY <1>8, <1>13, <1>14, <1>15 DEF Reading, e, m

LEMMA ParamsCutOff ==
    ASSUME Sound(in), ToBody(<<>>),
           NEW t, Regular(t), Proper(t), Broken(t, "params", Start(t), End(t))
    PROVE  /\ IsPrefix(params, FlattenSeq(Pieces(t, "params")))'
           /\ Drifting(t, Start(t), End(t))' /\ in'.sub = "none"
<1> DEFINE e == End(t)
<1>1. PICK v : Incoming(v) /\ Stopped(in, got, t, "params", Start(t), e, v)
    BY DEF Broken
<1>2. t \in Seq(Record) /\ Start(t) \in 1 .. Len(t)
    BY RegularIs
<1>3. Segment(t, "params", Start(t), e)
    BY Segments
<1> HIDE DEF e
<1>4. Start(t) \in 0 .. Len(t) /\ e \in Start(t) + 1 .. Len(t) /\ Len(t) \in Nat
    BY <1>2, <1>3 DEF Segment
<1>5. PICK j \in Start(t) .. e, x \in Seq(Unit) :
          NoType(x) /\ (x = <<>> => j < e) /\ in.buf \o v = x \o Later(Records(t), j)
    BY <1>1 DEF Stopped
<1>6. /\ in.err /\ in.hdr = <<>> /\ v \in Seq(Unit)
      /\ IsPrefix(got, FlattenSeq(Pieces(t, "params")))
    BY <1>1 DEF Stopped
<1>7. j \in 0 .. Len(t) /\ j \in 0 .. e
    BY <1>4, <1>5
<1>8. PICK r : r = in'
    OBVIOUS
<1>9. ResetTo(in, r, v, t, j, x)
    <2>1. in.buf \o v = x \o Ahead(t, j, 0, 0)
        BY <1>2, <1>5, <1>7, AheadEmpty
    <2>2. r = SetReaderType(in)
        BY <1>8 DEF ToBody
    <2> QED BY <1>2, <1>5, <1>6, <1>7, <2>1, <2>2, ResetPlace
<1>10. Adrift(r, <<>>, t, j, e, v, x) /\ r.sub = "none"
    BY <1>5, <1>6, <1>7, <1>9 DEF Adrift, ResetTo
<1>11. Adrift(in, got, t, j, e, v, x)'
    BY <1>8, <1>10 DEF ToBody
<1>12. Incoming(v)'
    BY <1>1 DEF Incoming, ToBody
<1>13. IsPrefix(params, FlattenSeq(Pieces(t, "params")))'
    BY <1>6 DEF ToBody
<1> QED BY <1>5, <1>8, <1>10, <1>11, <1>12, <1>13 DEF Drifting, e

-----------------------------------------------------------------------------
(* The end of the body.                                                    *)

LEMMA BodyFull ==
    ASSUME Sound(in), in.sub = "none", in.closed,
           NEW t, Regular(t), Proper(t), Reading(t, "stdin", End(t), Len(t))
    PROVE  /\ got = FlattenSeq(Pieces(t, "stdin")) /\ wire = <<>>
<1> DEFINE m == Len(t)
<1>1. PICK k, v : k \in End(t) .. m /\ Incoming(v) /\ OnCourse(in, got, t, "stdin", k, m, v)
    BY DEF Reading
<1>2. t \in Seq(Record)
    BY RegularIs
<1>3. /\ k = m /\ Place(in, v, t, k, <<>>) /\ got \in Seq(Unit)
      /\ Unread(in) = 0 /\ in.pad = 0
      /\ got \o (Left(in, t, k) \o ToCome(t, "stdin", k)) = FlattenSeq(Pieces(t, "stdin"))
    BY <1>1 DEF OnCourse
<1>4. m \in 0 .. Len(t)
    BY <1>2
<1>5. Left(in, t, k) = <<>> /\ ToCome(t, "stdin", k) = <<>>
    BY <1>2, <1>3, <1>4, LeftNothing, PiecesAre
<1>6. got = FlattenSeq(Pieces(t, "stdin"))
    BY <1>3, <1>5, UnitsJoin
<1>7. in.hdr \o (in.buf \o v) = <<>>
    <2>1. in.hdr \o (in.buf \o v) = <<>> \o Ahead(t, k, 0, 0)
        BY <1>3 DEF Place, Before
    <2>2. Ahead(t, k, 0, 0) = <<>>
        BY <1>2, <1>3, AheadEnd
    <2> QED BY <2>1, <2>2, UnitsJoin
<1>8. v = <<>> /\ v \in Seq(Unit)
    <2>1. v \in Seq(Unit) /\ in.buf \in Seq(Unit) /\ in.hdr \in Seq(Unit)
        BY <1>3, ReadersAre DEF Place
    <2>2. in.buf \o v \in Seq(Unit) /\ Len(in.buf \o v) = Len(in.buf) + Len(v)
        BY <2>1, UnitsJoin
    <2>3. Len(in.hdr \o (in.buf \o v)) = Len(in.hdr) + Len(in.buf \o v)
        BY <2>1, <2>2, UnitsJoin
    <2>4. Len(in.hdr) + (Len(in.buf) + Len(v)) = 0
        BY <1>7, <2>2, <2>3, UnitsJoin
    <2>5. Len(in.hdr) \in Nat /\ Len(in.buf) \in Nat /\ Len(v) \in Nat
        BY <2>1
    <2>6. Len(v) = 0
        <3>1. \A a, b, c \in Nat : a + (b + c) = 0 => c = 0
            OBVIOUS
        <3> QED BY <2>4, <2>5, <3>1
    <2> QED BY <2>1, <2>6
<1>9. wire = <<>>
    <2>1. PICK z \in Seq(Unit) : v = wire \o z
        BY <1>1 DEF Incoming
    <2> QED BY <1>8, <2>1
<1> QED BY <1>6, <1>9

\* Whatever has been read of it is its beginning.
LEMMA BodyRead ==
    ASSUME Sound(in), NEW t \in Seq(Record), NEW type, NEW lo, NEW hi, Reading(t, type, lo, hi)
    PROVE  IsPrefix(got, FlattenSeq(Pieces(t, type)))
<1>1. PICK k, v : k \in lo .. hi /\ Incoming(v) /\ OnCourse(in, got, t, type, k, hi, v)
    BY DEF Reading
<1>2. /\ Place(in, v, t, k, <<>>) /\ got \in Seq(Unit)
      /\ got \o (Left(in, t, k) \o ToCome(t, type, k)) = FlattenSeq(Pieces(t, type))
    BY <1>1 DEF OnCourse
<1>3. PICK g : g = <<>>
    OBVIOUS
<1>4. Left(in, t, k) \in Seq(Unit) /\ k \in 0 .. Len(t)
    BY <1>2, <1>3, LeftIs
<1>5. Left(in, t, k) \o ToCome(t, type, k) \in Seq(Unit)
    BY <1>4, PiecesAre, UnitsJoin
<1> QED BY <1>2, <1>5, PrefixOf

-----------------------------------------------------------------------------
(* What holds of the reader in every state.                                *)

RegularTalks == \A n \in 1 .. Len(Talks) : \A t \in Talks[n] : Regular(t)

\* The worker has closed its streams, and the web server may go on.
Over == w = "out" /\ todo = <<>> /\ (wpc = "end" \/ (wpc = "write" /\ pos = Len(out[w].buf)))

LinkInv ==
    /\ phase \in {"accept", "begin"} => ~req.begun
    /\ conn = "cut" => hurt
    /\ phase # "accept" => conn \in {"open", "cut"}
    /\ conn \in {"none", "closed"} => wire = <<>>
    /\ phase = "finish" => wpc # "idle" /\ in.sub = "none"
    /\ phase \in {"params", "serve", "finish"} => req.id = 1

InAccept(t) ==
    phase = "accept" => /\ in = NewReader
                        /\ conn \in {"open", "cut"} => Incoming(AllBytes(t)) /\ ~peer.ended
InBegin(t) == phase = "begin" => Beginning(t) /\ (peer.ended => NoWire)
ParamsAt(t) == \/ Reading(t, "params", Start(t), End(t))
               \/ hurt /\ Broken(t, "params", Start(t), End(t))
InParams(t) == phase = "params" => Proper(t) /\ ParamsAt(t)
ParamsGot(t) ==
    /\ IsPrefix(params, FlattenSeq(Pieces(t, "params")))
    /\ hurt \/ params = FlattenSeq(Pieces(t, "params"))
BodyAt(t) == \/ Reading(t, "stdin", End(t), Len(t))
             \/ Drifting(t, Start(t), End(t))
             \/ Halted(t)
InServe(t) ==
    phase = "serve" => Proper(t) /\ ParamsGot(t) /\ (in.sub = "values" => want > 0) /\ BodyAt(t)
InFinish(t) ==
    phase = "finish" /\ req.keep /\ ~in.err =>
        wire = <<>> \/ (Over /\ ~peer.ended /\ Incoming(AllBytes(t)))

StreamOf(t) == InAccept(t) /\ InBegin(t) /\ InParams(t) /\ InServe(t) /\ InFinish(t)
StreamInv   == Whole(in) /\ LinkInv /\ \E t \in {talk} : StreamOf(t)

LEMMA StreamIs ==
    ASSUME NEW t, talk' = t, StreamOf(t)', Whole(in)', LinkInv'
    PROVE  StreamInv'
BY DEF StreamInv

LEMMA TalkRegular ==
    ASSUME RegularTalks, FcgiInv, conn # "none"
    PROVE  Regular(talk)
BY DEF RegularTalks, FcgiInv, TalkInv

-----------------------------------------------------------------------------
(* The parts of a header.                                                  *)

LEMMA WholeIs ==
    ASSUME NEW r, r.hdr = <<>>
    PROVE  Whole(r)
<1>1. Len(<<>>) = 0 /\ 0 < HeaderLen
    BY DEF HeaderLen
<1> QED BY <1>1 DEF Whole

LEMMA WholeFailed ==
    ASSUME NEW r, Sound(r), NEW q, q \in {Failed(r), [Failed(r) EXCEPT !.sub = "none"]}
    PROVE  Whole(q)
BY FailedIs, WholeIs

LEMMA WholeSame ==
    ASSUME NEW r, Whole(r), NEW q, q.hdr = r.hdr, q.closed = r.closed, q.sub = r.sub,
           q.at = r.at \/ (r.at # "process" /\ q.at # "process")
    PROVE  Whole(q)
BY DEF Whole

LEMMA WholeRead ==
    ASSUME FcgiInv, Whole(in), Read
    PROVE  Whole(in)'
<1>1. Sound(in) /\ in \in Readers
    BY DEF FcgiInv, ReaderInv, Sound
<1>2. PICK r : r = in'
    OBVIOUS
<1>3. ASSUME NEW n, r = [in EXCEPT !.buf = SubSeq(wire, 1, n)]
      PROVE  Whole(r)
    <2>1. r.hdr = in.hdr /\ r.closed = in.closed /\ r.sub = in.sub /\ r.at = in.at
        BY <1>1, <1>3 DEF Readers
    <2> QED BY <2>1 DEF Whole
<1>4. Whole(r)
    BY <1>1, <1>2, <1>3, WholeFailed DEF Read
<1> QED BY <1>2, <1>4

LEMMA WholeFill ==
    ASSUME FcgiInv, Whole(in), FillContent \/ FillPadding \/ FillHeader
    PROVE  Whole(in)'
<1>1. Sound(in) /\ in \in Readers /\ ~in.closed /\ in.hdr \in Seq(Unit) /\ Len(in.hdr) <= HeaderLen
    BY ReadersAre DEF FcgiInv, ReaderInv, Sound, FillContent, FillPadding, FillHeader, Filling
<1>2. PICK r : r = in'
    OBVIOUS
<1>3. CASE FillContent
    <2>1. in.at = "top"
        BY <1>3 DEF FillContent, Filling
    <2>2. r.hdr = in.hdr /\ r.closed = in.closed /\ r.sub = in.sub /\ r.at \in {"top", "padding"}
        BY <1>1, <1>2, <1>3, <2>1 DEF FillContent, Reader, Readers
    <2>3. Whole(r)
        BY <2>1, <2>2, WholeSame
    <2> QED BY <1>2, <2>3
<1>4. CASE FillPadding
    <2>1. in.at = "padding"
        BY <1>4 DEF FillPadding, Filling
    <2>2. r.hdr = in.hdr /\ r.closed = in.closed /\ r.sub = in.sub /\ r.at \in {"top", "header"}
        BY <1>1, <1>2, <1>4, <2>1 DEF FillPadding, Reader, Readers
    <2>3. Whole(r)
        BY <2>1, <2>2, WholeSame
    <2> QED BY <1>2, <2>3
<1>5. CASE FillHeader
    <2>1. CASE in.sub # "none"
        <3>1. r.hdr = in.hdr
            BY <1>1, <1>2, <1>5, <2>1 DEF FillHeader, Reader, Readers
        <3>2. Whole(r)
            BY <2>1, <3>1, WholeIs DEF Whole
        <3> QED BY <1>2, <3>2
    <2>2. CASE in.sub = "none"
        <3> DEFINE n == Smaller(HeaderLen - Len(in.hdr), Len(in.buf))
                   c == SubSeq(in.buf, 1, n)
                   h == in.hdr \o c
                   at == IF Len(in.hdr) + n < HeaderLen THEN "top" ELSE "process"
        <3>1. n \in 0 .. Len(in.buf)
            <4>1. Len(in.buf) \in Nat /\ Len(in.hdr) \in Nat /\ HeaderLen \in Nat
                BY <1>1, ReadersAre DEF HeaderLen
            <4> QED BY <1>1, <4>1 DEF Smaller
        <3>2. Len(h) = Len(in.hdr) + n
            <4>1. c \in Seq(Unit) /\ Len(c) = n
                BY <1>1, <3>1, ReadersAre, FirstIs
            <4> QED BY <1>1, <4>1, UnitsJoin
        <3>3. r = [in EXCEPT !.buf = Rest(in.buf, n), !.hdr = h, !.at = at]
            BY <1>2, <1>5, <2>2 DEF FillHeader, Reader
        <3>4. at # "process" => Len(h) < HeaderLen
            BY <3>2
        <3> HIDE DEF n, h, at
        <3>5. r.hdr = h /\ r.at = at /\ ~r.closed /\ r.sub = "none"
            BY <1>1, <2>2, <3>3 DEF Readers
        <3>6. Whole(r)
            BY <3>4, <3>5 DEF Whole
        <3> QED BY <1>2, <3>6
    <2> QED BY <2>1, <2>2
<1> QED BY <1>3, <1>4, <1>5

LEMMA WholeProcess ==
    ASSUME FcgiInv, ProcessHeader
    PROVE  Whole(in)'
<1>1. Sound(in) /\ in \in Readers
    BY DEF FcgiInv, ReaderInv, Sound
<1>2. PICK r : r = in'
    OBVIOUS
<1>3. CASE ProcessWrong
    BY <1>1, <1>2, <1>3, WholeFailed DEF ProcessWrong, Reader
<1>4. CASE ProcessSecondBegin \/ ProcessUnknown
    <2>1. AtHeader.hdr = <<>> /\ [AtHeader EXCEPT !.skip = TRUE].hdr = <<>>
        BY <1>1 DEF AtHeader, Readers
    <2>2. r \in {AtHeader, [AtHeader EXCEPT !.skip = TRUE]} \/ r = [Failed(in) EXCEPT !.sub = "none"]
        BY <1>2, <1>4 DEF ProcessSecondBegin, ProcessUnknown, Reply
    <2>3. Whole(r)
        BY <1>1, <2>1, <2>2, WholeIs, WholeFailed
    <2> QED BY <1>2, <2>3
<1>5. CASE ProcessBegin \/ ProcessOther \/ ProcessValues \/ ProcessStream
    <2>1. \A b \in BOOLEAN :
                 /\ [AtHeader EXCEPT !.sub = "body"].hdr = <<>>
                    /\ [AtHeader EXCEPT !.skip = TRUE].hdr = <<>>
                 /\ [AtHeader EXCEPT !.sub = "values"].hdr = <<>>
                    /\ [AtHeader EXCEPT !.closed = b].hdr = <<>>
        BY <1>1 DEF AtHeader, Readers
    <2>2. r.hdr = <<>>
        <3>1. (AtHeader.len = 0) \in BOOLEAN
            OBVIOUS
        <3> QED BY <1>2, <1>5, <2>1, <3>1 DEF ProcessBegin, ProcessOther, ProcessValues, ProcessStream, Reader
    <2> QED BY <1>2, <2>2, WholeIs
<1> QED BY <1>3, <1>4, <1>5 DEF ProcessHeader

LEMMA WholeTakes ==
    ASSUME FcgiInv, Whole(in), NEW b, NEW n, in' = [in EXCEPT !.buf = b, !.avail = n]
    PROVE  Whole(in)'
<1>1. in \in Readers
    BY DEF FcgiInv, ReaderInv, Sound
<1>2. PICK r : r = in'
    OBVIOUS
<1>3. r.hdr = in.hdr /\ r.closed = in.closed /\ r.sub = in.sub /\ r.at = in.at
    BY <1>1, <1>2 DEF Readers
<1>4. Whole(r)
    BY <1>3 DEF Whole
<1> QED BY <1>2, <1>4

LEMMA WholeNext ==
    ASSUME FcgiInv, Whole(in), Begun \/ ParamsRead \/ ValuesRead \/ NotBegun \/ Finished
    PROVE  Whole(in)'
<1>1. Sound(in) /\ in \in Readers
    BY DEF FcgiInv, ReaderInv, Sound
<1>2. PICK r : r = in'
    OBVIOUS
<1>3. CASE r = NewReader
    <2>1. r.hdr = <<>>
        BY <1>3, NewReaderIs
    <2> QED BY <1>2, <2>1, WholeIs
<1>4. CASE r = SetReaderType(in) /\ (in.sub = "body" \/ in.closed)
    <2>1. r.hdr = <<>>
        BY <1>1, <1>4 DEF SetReaderType, Readers, Whole
    <2> QED BY <1>2, <2>1, WholeIs
<1>5. CASE r = [in EXCEPT !.sub = "none", !.closed = FALSE] /\ in.sub = "values"
    <2>1. r.hdr = <<>>
        BY <1>1, <1>5 DEF Readers, Whole
    <2> QED BY <1>2, <2>1, WholeIs
<1>6. CASE r = [Failed(in) EXCEPT !.sub = "none"]
    BY <1>1, <1>2, <1>6, WholeFailed
<1> QED BY <1>2, <1>3, <1>4, <1>5, <1>6
        DEF Begun, ParamsRead, ValuesRead, NotBegun, Finished, TryAgain, Close, Reply, Reader

-----------------------------------------------------------------------------
(* The steps of the reader.                                                *)

LEMMA Bounds ==
    ASSUME NEW t, Regular(t), Proper(t)
    PROVE  /\ t \in Seq(Record) /\ Begins(t).id = 1
           /\ Start(t) \in Nat /\ End(t) \in Nat /\ End(t) \in 0 .. Len(t) /\ Len(t) \in 0 .. Len(t)
           /\ Segment(t, "params", Start(t), End(t)) /\ Segment(t, "stdin", End(t), Len(t))
<1>1. t \in Seq(Record) /\ Begins(t).id = 1 /\ Start(t) \in 1 .. Len(t)
    BY RegularIs DEF Proper
<1>2. Segment(t, "params", Start(t), End(t)) /\ Segment(t, "stdin", End(t), Len(t))
    BY Segments
<1>3. Len(t) \in Nat
    BY <1>1
<1>4. End(t) \in Start(t) + 1 .. Len(t)
    BY <1>2 DEF Segment
<1> QED BY <1>1, <1>2, <1>3, <1>4

\* Who reads.
LEMMA ReaderPhases ==
    ASSUME FcgiInv, StreamInv, Wanted \/ in.sub # "none" \/ (in.avail > 0 /\ phase # "finish")
    PROVE  /\ phase \in {"begin", "params", "serve"}
           /\ phase # "begin" => in.sub \in {"none", "values"}
<1>1. /\ phase \in Phases /\ (phase = "accept" => in.sub = "none") /\ (want > 0 => phase = "serve")
      /\ (in.sub = "body" => phase = "begin")
    BY DEF FcgiInv, PhaseInv
<1>2. phase = "finish" => in.sub = "none"
    BY DEF StreamInv, LinkInv
<1>3. phase = "accept" => in.avail = 0
    BY NewReaderIs DEF StreamInv, StreamOf, InAccept
<1>4. in.sub \in {"none", "body", "values"}
    BY ReadersAre DEF FcgiInv, ReaderInv
<1>5. in.avail = 0 => ~(in.avail > 0)
    OBVIOUS
<1> QED BY <1>1, <1>2, <1>3, <1>4, <1>5 DEF Phases, Wanted

LEMMA ReaderLink ==
    ASSUME LinkInv, phase \in {"begin", "params", "serve"}, UNCHANGED <<phase, conn>>,
           req'.begun = req.begun, phase # "begin" => UNCHANGED req, hurt => hurt'
    PROVE  LinkInv'
BY DEF LinkInv

LEMMA ReaderStream ==
    ASSUME NEW t, StreamOf(t), phase \in {"begin", "params", "serve"}, UNCHANGED <<phase, params, want>>,
           hurt => hurt',
           phase = "begin" => Beginning(t)' /\ (peer'.ended => NoWire'),
           phase = "params" => ParamsAt(t)',
           phase = "serve" => want > 0 /\ BodyAt(t)'
    PROVE  StreamOf(t)'
<1>1. InAccept(t)' /\ InFinish(t)'
    BY DEF InAccept, InFinish
<1>2. InBegin(t)'
    BY DEF InBegin
<1>3. InParams(t)'
    BY DEF InParams, StreamOf
<1>4. InServe(t)'
    BY DEF InServe, StreamOf, ParamsGot
<1> QED BY <1>1, <1>2, <1>3, <1>4 DEF StreamOf

LEMMA BrokenHalts ==
    ASSUME NEW t, NEW lo, NEW hi, Broken(t, "stdin", lo, hi)'
    PROVE  Halted(t)'
BY DEF Broken, Stopped, Halted

LEMMA ReadStream ==
    ASSUME RegularTalks, FcgiInv, StreamInv, Read
    PROVE  StreamInv'
<1>1. PICK t \in {talk} : StreamOf(t)
    BY DEF StreamInv
<1>2. /\ UNCHANGED <<phase, params, want, req, conn, talk, peer>> /\ Wanted /\ ~in.closed
      /\ Whole(in) /\ LinkInv
    BY DEF Read, Filling, StreamInv
<1>3. phase \in {"begin", "params", "serve"} /\ (phase # "begin" => in.sub \in {"none", "values"})
    BY <1>2, ReaderPhases
<1>4. Regular(t)
    BY <1>1, <1>3, TalkRegular DEF FcgiInv, TalkInv
<1>5. hurt => hurt'
    BY DEF Read
<1>6. phase = "begin" => Beginning(t)' /\ (peer'.ended => NoWire')
    BY <1>1, <1>2, <1>4, ReadBegins DEF StreamOf, InBegin
<1>7. ASSUME phase = "params" PROVE ParamsAt(t)'
    <2>1. Proper(t) /\ ParamsAt(t)
        BY <1>1, <1>7 DEF StreamOf, InParams
    <2>2. CASE Reading(t, "params", Start(t), End(t))
        <3>1. \/ Reading(t, "params", Start(t), End(t))'
              \/ (hurt' \/ conn = "cut") /\ Broken(t, "params", Start(t), End(t))'
            BY <1>2, <1>4, <1>7, <2>1, <2>2, Bounds, ReadCourse
        <3>2. conn = "cut" => hurt
            BY <1>2 DEF LinkInv
        <3> QED BY <1>5, <3>1, <3>2 DEF ParamsAt
    <2>3. CASE Broken(t, "params", Start(t), End(t))
        BY <1>2, <2>3 DEF Broken, Stopped
    <2> QED BY <2>1, <2>2, <2>3 DEF ParamsAt
<1>8. ASSUME phase = "serve" PROVE want > 0 /\ BodyAt(t)'
    <2>1. Proper(t) /\ BodyAt(t) /\ (in.sub = "values" => want > 0)
        BY <1>1, <1>8 DEF StreamOf, InServe
    <2>2. want > 0
        BY <1>2, <1>3, <1>8, <2>1 DEF Wanted
    <2> DEFINE b == Start(t)
               e == End(t)
               m == Len(t)
    <2>6. t \in Seq(Record) /\ b \in Nat /\ e \in Nat /\ e \in 0 .. Len(t) /\ m \in 0 .. Len(t)
        BY <1>4, <2>1, Bounds
    <2> HIDE DEF b, e, m
    <2>3. CASE Reading(t, "stdin", e, m)
        <3>1. Reading(t, "stdin", e, m)' \/ Broken(t, "stdin", e, m)'
            BY <1>2, <1>8, <2>3, <2>6, ReadCourse
        <3> QED BY <2>2, <3>1, BrokenHalts DEF BodyAt, e, m
    <2>4. CASE Drifting(t, b, e)
        <3>1. Drifting(t, b, e)' \/ Halted(t)'
            BY <1>3, <1>8, <2>4, <2>6, ReadDrift
        <3> QED BY <2>2, <3>1 DEF BodyAt, b, e
    <2>5. CASE Halted(t)
        BY <1>2, <2>5 DEF Halted
    <2> QED BY <2>1, <2>2, <2>3, <2>4, <2>5 DEF BodyAt, b, e, m
<1>9. StreamOf(t)'
    BY <1>1, <1>2, <1>3, <1>5, <1>6, <1>7, <1>8, ReaderStream
<1>10. Whole(in)'
    BY <1>2, WholeRead
<1>11. LinkInv'
    BY <1>2, <1>3, <1>5, ReaderLink
<1> QED BY <1>1, <1>2, <1>9, <1>10, <1>11, StreamIs

LEMMA FillStream ==
    ASSUME RegularTalks, FcgiInv, StreamInv, FillContent \/ FillPadding \/ FillHeader
    PROVE  StreamInv'
<1>1. PICK t \in {talk} : StreamOf(t)
    BY DEF StreamInv
<1>2. /\ UNCHANGED <<phase, params, want, req, conn, talk, peer, hurt>> /\ Wanted /\ ~in.closed
      /\ Whole(in) /\ LinkInv
    BY DEF FillContent, FillPadding, FillHeader, Filling, Reader, peerVars, StreamInv
<1>3. phase \in {"begin", "params", "serve"} /\ (phase # "begin" => in.sub \in {"none", "values"})
    BY <1>2, ReaderPhases
<1>4. Regular(t)
    BY <1>1, <1>3, TalkRegular DEF FcgiInv, TalkInv
<1>5. phase = "begin" => Beginning(t)' /\ (peer'.ended => NoWire')
    BY <1>1, <1>2, <1>4, FillBegins DEF StreamOf, InBegin
<1>6. ASSUME phase = "params" PROVE ParamsAt(t)'
    <2>1. Proper(t) /\ ParamsAt(t)
        BY <1>1, <1>6 DEF StreamOf, InParams
    <2>2. CASE Reading(t, "params", Start(t), End(t))
        BY <1>4, <2>1, <2>2, Bounds, FillCourse DEF ParamsAt
    <2>3. CASE Broken(t, "params", Start(t), End(t))
        BY <1>2, <2>3 DEF Broken, Stopped
    <2> QED BY <2>1, <2>2, <2>3 DEF ParamsAt
<1>7. ASSUME phase = "serve" PROVE want > 0 /\ BodyAt(t)'
    <2>1. Proper(t) /\ BodyAt(t) /\ (in.sub = "values" => want > 0)
        BY <1>1, <1>7 DEF StreamOf, InServe
    <2>2. want > 0
        BY <1>2, <1>3, <1>7, <2>1 DEF Wanted
    <2> DEFINE b == Start(t)
               e == End(t)
               m == Len(t)
    <2>6. t \in Seq(Record) /\ b \in Nat /\ e \in Nat /\ e \in 0 .. Len(t) /\ m \in 0 .. Len(t)
        BY <1>4, <2>1, Bounds
    <2> HIDE DEF b, e, m
    <2>3. CASE Reading(t, "stdin", e, m)
        <3>1. Reading(t, "stdin", e, m)'
            BY <2>3, <2>6, FillCourse
        <3> QED BY <2>2, <3>1 DEF BodyAt, e, m
    <2>4. CASE Drifting(t, b, e)
        <3>1. Drifting(t, b, e)'
            BY <1>3, <1>7, <2>4, <2>6, FillDrift
        <3> QED BY <2>2, <3>1 DEF BodyAt, b, e
    <2>5. CASE Halted(t)
        BY <1>2, <2>5 DEF Halted
    <2> QED BY <2>1, <2>2, <2>3, <2>4, <2>5 DEF BodyAt, b, e, m
<1>8. StreamOf(t)'
    BY <1>1, <1>2, <1>3, <1>5, <1>6, <1>7, ReaderStream
<1>9. Whole(in)'
    BY <1>2, WholeFill
<1>10. LinkInv'
    BY <1>2, <1>3, ReaderLink
<1> QED BY <1>1, <1>2, <1>8, <1>9, <1>10, StreamIs

-----------------------------------------------------------------------------
FewFaults == Faults \subseteq {"cut", "readIntr"}

LEMMA HeaderStream ==
    ASSUME RegularTalks, FewFaults, FcgiInv, StreamInv, ProcessHeader, peer'.ended = peer.ended
    PROVE  StreamInv'
<1>1. PICK t \in {talk} : StreamOf(t)
    BY DEF StreamInv
<1>2. /\ UNCHANGED <<phase, params, want, conn, talk, hurt>> /\ Wanted /\ ~in.closed
      /\ Whole(in) /\ LinkInv
    BY DEF ProcessHeader, ProcessWrong, ProcessBegin, ProcessSecondBegin, ProcessOther,
           ProcessValues, ProcessUnknown, ProcessStream, IsRecord, Filling, Reader, Reply, peerVars,
           StreamInv
<1>3. phase \in {"begin", "params", "serve"} /\ (phase # "begin" => in.sub \in {"none", "values"})
    BY <1>2, ReaderPhases
<1>4. Regular(t)
    BY <1>1, <1>3, TalkRegular DEF FcgiInv, TalkInv
<1>5. /\ req'.begun = req.begun /\ (phase # "begin" => UNCHANGED req /\ req.begun /\ req.id = 1)
      /\ phase = "begin" => ~req.begun
    <2>1. phase # "begin" => req.begun /\ req.id = 1
        BY <1>2, <1>3 DEF FcgiInv, PhaseInv, LinkInv
    <2>2. phase = "begin" => ~req.begun
        BY <1>2 DEF LinkInv
    <2>3. UNCHANGED req \/ (ProcessBegin /\ ~req.begun /\ req' = [req EXCEPT !.id = HdrId])
        BY DEF ProcessHeader, ProcessWrong, ProcessBegin, ProcessSecondBegin, ProcessOther,
               ProcessValues, ProcessUnknown, ProcessStream, Reader, Reply
    <2>4. req \in Counts
        BY DEF FcgiInv, ReaderInv
    <2> QED BY <2>1, <2>2, <2>3, <2>4 DEF Counts
<1>6. ASSUME phase = "begin" PROVE Beginning(t)' /\ (peer'.ended => NoWire')
    <2>1. Beginning(t) /\ (peer.ended => NoWire)
        BY <1>1, <1>6 DEF StreamOf, InBegin
    <2>2. Beginning(t)' /\ ~NoWire
        BY <1>4, <1>5, <1>6, <2>1, ProcessBegins
    <2> QED BY <2>1, <2>2
<1>7. ASSUME phase = "params" PROVE ParamsAt(t)'
    <2>1. Proper(t) /\ ParamsAt(t)
        BY <1>1, <1>7 DEF StreamOf, InParams
    <2> DEFINE b == Start(t)
               e == End(t)
    <2>2. /\ t \in Seq(Record) /\ b \in Nat /\ e \in 0 .. Len(t) /\ Begins(t).id = 1
          /\ Segment(t, "params", b, e)
        BY <1>4, <2>1, Bounds
    <2>3. PICK type : type = "params"
        OBVIOUS
    <2> HIDE DEF b, e
    <2>4. Type = type
        BY <1>7, <2>3 DEF Type
    <2>5. CASE Reading(t, type, b, e)
        <3>1. Reading(t, type, b, e)' \/ (conn = "cut" /\ Broken(t, type, b, e)')
            BY <1>2, <1>5, <1>7, <2>2, <2>3, <2>4, <2>5, ProcessCourse DEF FewFaults
        <3>2. conn = "cut" => hurt'
            BY <1>2 DEF LinkInv
        <3> QED BY <2>3, <3>1, <3>2 DEF ParamsAt, b, e
    <2>6. CASE Broken(t, type, b, e)
        BY <1>2, <2>6 DEF Broken, Stopped
    <2> QED BY <2>1, <2>3, <2>5, <2>6 DEF ParamsAt, b, e
<1>8. ASSUME phase = "serve" PROVE want > 0 /\ BodyAt(t)'
    <2>1. Proper(t) /\ BodyAt(t) /\ (in.sub = "values" => want > 0)
        BY <1>1, <1>8 DEF StreamOf, InServe
    <2> DEFINE b == Start(t)
               e == End(t)
               m == Len(t)
    <2>2. /\ t \in Seq(Record) /\ b \in Nat /\ e \in Nat /\ e \in 0 .. Len(t) /\ m \in 0 .. Len(t)
          /\ Begins(t).id = 1 /\ Segment(t, "params", b, e) /\ Segment(t, "stdin", e, m)
        BY <1>4, <2>1, Bounds
    <2>3. PICK type : type = "stdin"
        OBVIOUS
    <2>4. want > 0
        BY <1>2, <1>3, <1>8, <2>1 DEF Wanted
    <2> HIDE DEF b, e, m
    <2>5. Type = type
        BY <1>8, <2>3 DEF Type
    <2>6. CASE Reading(t, type, e, m)
        <3>1. Reading(t, type, e, m)' \/ Broken(t, type, e, m)'
            BY <1>2, <1>5, <1>8, <2>2, <2>3, <2>5, <2>6, ProcessCourse DEF FewFaults
        <3> QED BY <2>3, <2>4, <3>1, BrokenHalts DEF BodyAt, e, m
    <2>7. CASE Drifting(t, b, e)
        <3>1. Drifting(t, b, e)' \/ Halted(t)'
            BY <1>5, <1>8, <2>2, <2>7, ProcessDrift
        <3> QED BY <2>4, <3>1 DEF BodyAt, b, e
    <2>8. CASE Halted(t)
        BY <1>2, <2>8 DEF Halted
    <2> QED BY <2>1, <2>3, <2>6, <2>7, <2>8 DEF BodyAt, b, e, m
<1>9. StreamOf(t)'
    BY <1>1, <1>2, <1>3, <1>6, <1>7, <1>8, ReaderStream
<1>10. Whole(in)'
    BY WholeProcess
<1>11. LinkInv'
    BY <1>2, <1>3, <1>5, ReaderLink
<1> QED BY <1>1, <1>2, <1>9, <1>10, <1>11, StreamIs

LEMMA ValuesStream ==
    ASSUME RegularTalks, FewFaults, FcgiInv, StreamInv, ValuesRead, peer'.ended = peer.ended
    PROVE  StreamInv'
<1>1. PICK t \in {talk} : StreamOf(t)
    BY DEF StreamInv
<1>2. /\ UNCHANGED <<phase, params, want, req, conn, talk, hurt>> /\ in.sub = "values"
      /\ Whole(in) /\ LinkInv
    BY DEF ValuesRead, Reader, Reply, peerVars, StreamInv
<1>3. phase \in {"begin", "params", "serve"} /\ (phase # "begin" => in.sub \in {"none", "values"})
    BY <1>2, ReaderPhases
<1>4. Regular(t)
    BY <1>1, <1>3, TalkRegular DEF FcgiInv, TalkInv
<1>5. ASSUME phase = "begin" PROVE Beginning(t)' /\ (peer'.ended => NoWire')
    <2>1. Beginning(t) /\ (peer.ended => NoWire)
        BY <1>1, <1>5 DEF StreamOf, InBegin
    <2>2. Beginning(t)' /\ ~NoWire
        BY <1>4, <1>5, <2>1, ValuesBegins
    <2> QED BY <2>1, <2>2
<1>6. ASSUME phase = "params" PROVE ParamsAt(t)'
    <2>1. Proper(t) /\ ParamsAt(t)
        BY <1>1, <1>6 DEF StreamOf, InParams
    <2> DEFINE b == Start(t)
               e == End(t)
    <2>2. t \in Seq(Record) /\ b \in Nat /\ e \in 0 .. Len(t)
        BY <1>4, <2>1, Bounds
    <2> HIDE DEF b, e
    <2>3. CASE Reading(t, "params", b, e)
        <3>1. Reading(t, "params", b, e)' \/ (conn = "cut" /\ Broken(t, "params", b, e)')
            BY <1>2, <2>2, <2>3, ValuesCourse DEF FewFaults
        <3>2. conn = "cut" => hurt'
            BY <1>2 DEF LinkInv
        <3> QED BY <3>1, <3>2 DEF ParamsAt, b, e
    <2>4. CASE hurt /\ Broken(t, "params", b, e)
        <3>1. Broken(t, "params", b, e)'
            BY <2>4, ValuesBroken
        <3> QED BY <1>2, <2>4, <3>1 DEF ParamsAt, b, e
    <2> QED BY <2>1, <2>3, <2>4 DEF ParamsAt, b, e
<1>7. ASSUME phase = "serve" PROVE want > 0 /\ BodyAt(t)'
    <2>1. Proper(t) /\ BodyAt(t) /\ want > 0
        BY <1>1, <1>2, <1>7 DEF StreamOf, InServe
    <2> DEFINE b == Start(t)
               e == End(t)
               m == Len(t)
    <2>2. t \in Seq(Record) /\ b \in Nat /\ e \in Nat /\ e \in 0 .. Len(t) /\ m \in 0 .. Len(t)
        BY <1>4, <2>1, Bounds
    <2> HIDE DEF b, e, m
    <2>3. CASE Reading(t, "stdin", e, m)
        <3>1. Reading(t, "stdin", e, m)' \/ Broken(t, "stdin", e, m)'
            BY <1>2, <2>2, <2>3, ValuesCourse DEF FewFaults
        <3> QED BY <2>1, <3>1, BrokenHalts DEF BodyAt, e, m
    <2>4. CASE Drifting(t, b, e)
        <3>1. Drifting(t, b, e)' \/ Halted(t)'
            BY <2>2, <2>4, ValuesDrift
        <3> QED BY <2>1, <3>1 DEF BodyAt, b, e
    <2>5. CASE Halted(t)
        <3>1. Halted(t)'
            BY <2>5, ValuesHalted
        <3> QED BY <2>1, <3>1 DEF BodyAt
    <2> QED BY <2>1, <2>3, <2>4, <2>5 DEF BodyAt, b, e, m
<1>8. StreamOf(t)'
    BY <1>1, <1>2, <1>3, <1>5, <1>6, <1>7, ReaderStream
<1>9. Whole(in)'
    BY <1>2, WholeNext
<1>10. LinkInv'
    BY <1>2, <1>3, ReaderLink
<1> QED BY <1>1, <1>2, <1>8, <1>9, <1>10, StreamIs

-----------------------------------------------------------------------------
LEMMA TakeStream ==
    ASSUME RegularTalks, FcgiInv, StreamInv, Take
    PROVE  StreamInv'
<1>1. PICK t \in {talk} : StreamOf(t)
    BY DEF StreamInv
<1>2. /\ UNCHANGED <<phase, params, want, req, conn, talk, peer, hurt, wire>> /\ in.avail > 0
      /\ Whole(in) /\ LinkInv /\ phase # "finish" /\ Sound(in)
    BY DEF Take, peerVars, StreamInv, LinkInv, FcgiInv, ReaderInv
<1>3. phase \in {"begin", "params", "serve"} /\ (phase # "begin" => in.sub \in {"none", "values"})
    BY <1>2, ReaderPhases
<1>4. Regular(t)
    BY <1>1, <1>3, TalkRegular DEF FcgiInv, TalkInv
<1>5. PICK n : n = in.avail
    OBVIOUS
<1>6. n \in 1 .. in.avail /\ TakesSome(n)
    <2>1. in.avail \in Nat
        BY <1>2, ReadersAre
    <2>2. in.avail - n = 0
        BY <1>5, <2>1
    <2>3. n \in 1 .. in.avail
        BY <1>2, <1>5, <2>1
    <2> QED BY <1>2, <1>5, <2>2, <2>3 DEF Take, TakesSome
<1>7. phase = "begin" => Beginning(t)' /\ (peer'.ended => NoWire')
    BY <1>1, <1>2, <1>4, TakeBegins DEF StreamOf, InBegin
<1>8. ASSUME phase = "params" PROVE ParamsAt(t)'
    <2>1. Proper(t) /\ ParamsAt(t)
        BY <1>1, <1>8 DEF StreamOf, InParams
    <2> DEFINE b == Start(t)
               e == End(t)
    <2>2. t \in Seq(Record) /\ b \in Nat /\ e \in 0 .. Len(t)
        BY <1>4, <2>1, Bounds
    <2> HIDE DEF b, e
    <2>3. CASE Reading(t, "params", b, e)
        <3>1. Reading(t, "params", b, e)'
            BY <1>3, <1>6, <1>8, <2>2, <2>3, TakeCourse
        <3> QED BY <3>1 DEF ParamsAt, b, e
    <2>4. CASE Broken(t, "params", b, e)
        BY <1>2, <2>4 DEF Broken, Stopped
    <2> QED BY <2>1, <2>3, <2>4 DEF ParamsAt, b, e
<1>9. ASSUME phase = "serve" PROVE want > 0 /\ BodyAt(t)'
    <2>1. Proper(t) /\ BodyAt(t) /\ want > 0
        BY <1>1, <1>3, <1>9 DEF StreamOf, InServe, Take
    <2> DEFINE b == Start(t)
               e == End(t)
               m == Len(t)
    <2>2. t \in Seq(Record) /\ b \in Nat /\ e \in Nat /\ e \in 0 .. Len(t) /\ m \in 0 .. Len(t)
        BY <1>4, <2>1, Bounds
    <2> HIDE DEF b, e, m
    <2>3. CASE Reading(t, "stdin", e, m)
        <3>1. Reading(t, "stdin", e, m)'
            BY <1>3, <1>6, <1>9, <2>2, <2>3, TakeCourse
        <3> QED BY <2>1, <3>1 DEF BodyAt, e, m
    <2>4. CASE Drifting(t, b, e)
        <3>1. Drifting(t, b, e)'
            BY <1>3, <1>6, <1>9, <2>2, <2>4, TakeDrift
        <3> QED BY <2>1, <3>1 DEF BodyAt, b, e
    <2>5. CASE Halted(t)
        BY <1>2, <2>5 DEF Halted
    <2> QED BY <2>1, <2>3, <2>4, <2>5 DEF BodyAt, b, e, m
<1>10. StreamOf(t)'
    BY <1>1, <1>2, <1>3, <1>7, <1>8, <1>9, ReaderStream
<1>11. Whole(in)'
    BY <1>2, WholeTakes DEF Take
<1>12. LinkInv'
    BY <1>2, <1>3, ReaderLink
<1> QED BY <1>1, <1>2, <1>10, <1>11, <1>12, StreamIs

LEMMA AppTakesStream ==
    ASSUME RegularTalks, FcgiInv, StreamInv, AppTakes
    PROVE  StreamInv'
<1>1. PICK t \in {talk} : StreamOf(t)
    BY DEF StreamInv
<1>2. /\ UNCHANGED <<phase, params, req, conn, talk, peer, hurt, wire, writeVars>>
      /\ Whole(in) /\ LinkInv /\ phase = "serve" /\ Sound(in) /\ in.sub = "none" /\ in.avail > 0
    BY DEF AppTakes, peerVars, StreamInv, FcgiInv, ReaderInv
<1>3. Regular(t)
    BY <1>1, <1>2, TalkRegular DEF FcgiInv, TalkInv
<1>4. PICK n : n = Smaller(want, in.avail)
    OBVIOUS
<1>5. n \in 1 .. in.avail /\ TakesSome(n)
      /\ in' = [in EXCEPT !.buf = Rest(in.buf, n), !.avail = in.avail - n]
    <2>1. in.avail \in Nat /\ want \in Nat /\ want > 0
        BY <1>2, ReadersAre, TalkAssumption DEF FcgiInv, PhaseInv, AppTakes
    <2>2. n \in 1 .. in.avail
        BY <1>2, <1>4, <2>1 DEF Smaller
    <2> QED BY <1>2, <1>4, <2>2 DEF AppTakes, TakesSome
<1>6. Proper(t) /\ BodyAt(t) /\ ParamsGot(t)
    BY <1>1, <1>2 DEF StreamOf, InServe
<1>7. BodyAt(t)'
    <2> DEFINE b == Start(t)
               e == End(t)
               m == Len(t)
    <2>1. t \in Seq(Record) /\ b \in Nat /\ e \in Nat /\ e \in 0 .. Len(t) /\ m \in 0 .. Len(t)
        BY <1>3, <1>6, Bounds
    <2> HIDE DEF b, e, m
    <2>2. CASE Reading(t, "stdin", e, m)
        <3>1. Reading(t, "stdin", e, m)'
            BY <1>2, <1>5, <2>1, <2>2, TakeCourse
        <3> QED BY <3>1 DEF BodyAt, e, m
    <2>3. CASE Drifting(t, b, e)
        BY <1>2, <1>5, <2>1, <2>3, TakeDrift
    <2>4. CASE Halted(t)
        BY <1>2, <2>4 DEF Halted
    <2> QED BY <1>6, <2>2, <2>3, <2>4 DEF BodyAt, b, e, m
<1>8. in'.sub = "none"
    BY <1>2, <1>5, ReadersAre DEF Readers
<1>9. ParamsGot(t)'
    BY <1>2, <1>6 DEF ParamsGot
<1>10. StreamOf(t)'
    BY <1>2, <1>6, <1>7, <1>8, <1>9 DEF StreamOf, InAccept, InBegin, InParams, InServe, InFinish
<1>11. Whole(in)'
    BY <1>2, <1>5, WholeTakes
<1>12. LinkInv'
    BY <1>2, ReaderLink
<1> QED BY <1>1, <1>2, <1>10, <1>11, <1>12, StreamIs

\* The connection is given up.
LEMMA CloseStream ==
    ASSUME FcgiInv, StreamInv, Close, UNCHANGED <<talk, hurt, peer>>,
           Begun \/ NotBegun \/ ParamsRead \/ Finished
    PROVE  StreamInv'
<1>1. PICK t \in {talk} : StreamOf(t)
    BY DEF StreamInv
<1>2. /\ phase' = "accept" /\ in' = NewReader /\ conn' = "closed" /\ wire' = <<>>
      /\ ~req'.begun
    <2>1. req \in Counts /\ req' = [req EXCEPT !.begun = FALSE]
        BY DEF FcgiInv, ReaderInv, Close
    <2> QED BY <2>1 DEF Close, Counts
<1>3. StreamOf(t)'
    BY <1>2 DEF StreamOf, InAccept, InBegin, InParams, InServe, InFinish
<1>4. LinkInv'
    BY <1>2 DEF LinkInv
<1>5. Whole(in)'
    BY WholeNext DEF StreamInv
<1> QED BY <1>1, <1>3, <1>4, <1>5, StreamIs

LEMMA BegunStream ==
    ASSUME RegularTalks, FcgiInv, StreamInv, Begun
    PROVE  StreamInv'
<1>1. PICK t \in {talk} : StreamOf(t)
    BY DEF StreamInv
<1>2. CASE TryAgain
    BY <1>2, CloseStream DEF TryAgain
<1>3. CASE ~TryAgain
    <2>1. UNCHANGED <<conn, talk, peer, hurt, want, writeVars>> /\ LinkInv /\ phase = "begin"
        BY <1>3 DEF Begun, peerVars, StreamInv, FcgiInv, PhaseInv
    <2>2. Regular(t)
        BY <1>1, <2>1, TalkRegular DEF FcgiInv, TalkInv
    <2>3. Beginning(t)
        BY <1>1, <2>1 DEF StreamOf, InBegin
    <2>4. /\ phase' = "params" /\ Proper(t) /\ req'.id = 1
          /\ Reading(t, "params", Start(t), End(t))'
        BY <1>3, <2>1, <2>2, <2>3, BegunReads
    <2>5. StreamOf(t)'
        BY <2>4 DEF StreamOf, InAccept, InBegin, InParams, InServe, InFinish, ParamsAt
    <2>6. LinkInv'
        BY <2>1, <2>4 DEF LinkInv
    <2>7. Whole(in)'
        BY WholeNext DEF StreamInv
    <2> QED BY <1>1, <2>1, <2>5, <2>6, <2>7, StreamIs
<1> QED BY <1>2, <1>3

LEMMA ParamsStream ==
    ASSUME RegularTalks, FcgiInv, StreamInv, ParamsRead
    PROVE  StreamInv'
<1>1. PICK t \in {talk} : StreamOf(t)
    BY DEF StreamInv
<1>2. CASE TryAgain
    BY <1>2, CloseStream DEF TryAgain
<1>3. CASE ~TryAgain
    <2>1. /\ UNCHANGED <<conn, talk, peer, hurt, want, wire>> /\ LinkInv /\ Whole(in) /\ phase = "params"
          /\ phase' = "serve" /\ ToBody(<<>>) /\ Sound(in) /\ in.sub = "none" /\ in.closed
          /\ req \in Counts /\ req' = [req EXCEPT !.writers = 2]
        BY <1>3 DEF ParamsRead, peerVars, StreamInv, FcgiInv, ReaderInv, ToBody
    <2>2. Regular(t)
        BY <1>1, <2>1, TalkRegular DEF FcgiInv, TalkInv
    <2>3. Proper(t) /\ ParamsAt(t)
        BY <1>1, <2>1 DEF StreamOf, InParams
    <2>4. in'.sub = "none"
        BY <2>1, ReadersAre DEF ToBody, SetReaderType, Readers
    <2> DEFINE s == FlattenSeq(Pieces(t, "params"))
    <2>5. ParamsGot(t)' /\ BodyAt(t)'
        <3>1. CASE Reading(t, "params", Start(t), End(t))
            <4>1. params' = s /\ Reading(t, "stdin", End(t), Len(t))'
                BY <2>1, <2>2, <2>3, <3>1, ParamsFull
            <4>2. IsPrefix(s, s)
                <5>1. s \in Seq(Unit)
                    <6>1. t \in Seq(Record) /\ 0 \in 0 .. Len(t)
                        BY <2>2, RegularIs
                    <6> QED BY <6>1, PiecesAre
                <5> HIDE DEF s
                <5>2. <<>> \in Seq(Unit) /\ s \o <<>> = s
                    BY <5>1, UnitsJoin
                <5> QED BY <5>1, <5>2, PrefixOf
            <4> HIDE DEF s
            <4>3. IsPrefix(params, s)' /\ params' = s
                BY <4>1, <4>2
            <4> QED BY <4>1, <4>3 DEF ParamsGot, BodyAt, s
        <3>2. CASE hurt /\ Broken(t, "params", Start(t), End(t))
            <4>1. IsPrefix(params, s)' /\ Drifting(t, Start(t), End(t))'
                BY <2>1, <2>2, <2>3, <3>2, ParamsCutOff
            <4> QED BY <2>1, <3>2, <4>1 DEF ParamsGot, BodyAt
        <3> QED BY <2>3, <3>1, <3>2 DEF ParamsAt
    <2>6. StreamOf(t)'
        BY <2>1, <2>3, <2>4, <2>5 DEF StreamOf, InAccept, InBegin, InParams, InServe, InFinish
    <2>7. req'.id = req.id
        BY <2>1 DEF Counts
    <2>8. LinkInv'
        BY <2>1, <2>7 DEF LinkInv
    <2>9. Whole(in)'
        BY <2>1, WholeNext
    <2> QED BY <1>1, <2>1, <2>6, <2>8, <2>9, StreamIs
<1> QED BY <1>2, <1>3

LEMMA AcceptStream ==
    ASSUME RegularTalks, FcgiInv, StreamInv, Accept
    PROVE  StreamInv'
<1>1. PICK t \in {talk} : StreamOf(t)
    BY DEF StreamInv
<1>2. /\ UNCHANGED <<in, got, req, wire, conn, talk, hurt, peer>> /\ LinkInv /\ Whole(in)
      /\ phase = "accept" /\ phase' = "begin" /\ conn \in {"open", "cut"}
    BY DEF Accept, readVars, peerVars, StreamInv
<1>3. Regular(t)
    BY <1>1, <1>2, TalkRegular
<1>4. in = NewReader /\ Incoming(AllBytes(t)) /\ ~peer.ended
    BY <1>1, <1>2 DEF StreamOf, InAccept
<1>5. Fresh(in, got, t, 0, AllBytes(t), req.id)'
    BY <1>2, <1>3, <1>4, NewStarts
<1>6. Incoming(AllBytes(t))'
    BY <1>2, <1>4 DEF Incoming
<1>7. 0 \in 0 .. Start(t)
    BY <1>3, RegularIs
<1>8. Starting(t)'
    BY <1>5, <1>6, <1>7 DEF Starting
<1>9. StreamOf(t)'
    BY <1>2, <1>4, <1>8 DEF StreamOf, InAccept, InBegin, InParams, InServe, InFinish, Beginning
<1>10. LinkInv'
    BY <1>2 DEF LinkInv
<1>11. Whole(in)'
    BY <1>2
<1> QED BY <1>1, <1>2, <1>9, <1>10, <1>11, StreamIs
=============================================================================
