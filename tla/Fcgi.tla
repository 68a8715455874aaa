-------------------------------- MODULE Fcgi --------------------------------
(***************************************************************************)
(* One worker's end of the FastCGI protocol: the streams of libfcgi          *)
(* (src/3rd-party/fastcgi/libfcgi/fcgiapp.c) that carry the parameters and   *)
(* the body of a request to ncserver, and its answer back.                   *)
(*                                                                         *)
(* The worker is one thread.  A step is one turn of the loop of              *)
(* FillBuffProc, one call of read or write, or one step of the functions     *)
(* above them; read and write move one unit or all there are.  A             *)
(* unit is a byte or a few of them: a header is two units, the body of       *)
(* FCGI_BEGIN_REQUEST and a name-value pair are two as well, and records     *)
(* are aligned to two.                                                       *)
(***************************************************************************)
EXTENDS Integers, Sequences, SequencesExt

CONSTANTS
    BuffLen,       \* the size of a stream's buffer
    MaxHanded,     \* bounds on what the application writes, per request and stream
    MaxWanted,     \* the longest piece of the body it asks for
    Talks,         \* for each request in turn, the sequences of records it may be
    Faults         \* what may happen in this instance

(***************************************************************************)
(*   cut        the web server closes the connection at any point           *)
(*   readIntr   a signal interrupts read                                    *)
(*   writeIntr  a signal interrupts write before it has written anything    *)
(*   unread     a request that keeps the connection ends with a body the    *)
(*              application has not read to its end                         *)
(***************************************************************************)
ASSUME FcgiAssumption ==
    /\ BuffLen \in Nat /\ BuffLen > 2 /\ BuffLen % 2 = 0
    /\ Faults \subseteq {"cut", "readIntr", "writeIntr", "unread"}

Streams   == {"err", "out"}
BodyLen   == 2
HeaderLen == 2
PairLen   == 2

\* Header and content on the wire.  The library knows a header by its version
\* byte: anything else that is read as one has another version.
Header(type, id, len, pad) == << <<"type", type, id>>, <<"len", len, pad>> >>
Content(d) == [i \in DOMAIN d |-> <<"data", d[i]>>]
Padding(n) == [i \in 1 .. n |-> <<"pad">>]
Bytes(r)   == Header(r.type, r.id, Len(r.data), r.pad) \o Content(r.data) \o Padding(r.pad)
AllBytes(talk) == FlattenSeq([i \in DOMAIN talk |-> Bytes(talk[i])])

\* What a request is made of, and how much the application may answer to it.  The types
\* of its records are those the library tells apart and one for all the others.
Types == Streams \cup {"begin", "params", "stdin", "end", "values", "unknown"}
Unit  == {<<"pad">>} \cup ({"data"} \X Nat) \cup ({"type"} \X Types \X Nat)
            \cup ({"len"} \X Nat \X Nat)

ASSUME TalkAssumption ==
    /\ MaxWanted \in Nat /\ Len(Talks) \in Nat
    /\ \A n \in 1 .. Len(Talks) : \A t \in Talks[n] :
          /\ AllBytes(t) \in Seq(Unit)
          /\ \A s \in Streams : MaxHanded[t][s] \in Nat

VARIABLES
    phase,    \* where the worker is in FCGX_Accept_r and serve
    in,       \* the reader of the request
    got,      \* what the current user of the reader has got from it
    want,     \* what the application still wants from FCGX_GetStr
    params,   \* paramsPtr
    req,      \* requestId, keepConnection, isBeginProcessed, nWriters
    out,      \* the two writers
    w,        \* the writer in use
    wpc,      \* where the worker is in it
    todo,     \* what FCGX_PutStr has still to put into the buffer
    pos,      \* what write_it_all has written of the buffer
    handed,   \* how much the application has written to each stream
    wire,     \* what the web server has sent and the worker has not read
    conn,     \* the connection: "none", "open", "cut" or "closed"
    talk,     \* the request the web server has sent
    count,    \* its number
    hurt,     \* has a fault hit its connection?
    peer      \* what the web server makes of the answer

readVars  == <<in, got, want, params>>
writeVars == <<out, w, wpc, todo, pos, handed>>
peerVars  == <<wire, conn, talk, count, hurt, peer>>
vars      == <<phase, readVars, req, writeVars, peerVars>>

\* sub: what ProcessHeader is reading with eorStop set; at: where FillBuffProc is
\* in its loop; hdr: the part of the header it has.
NewReader == [buf |-> <<>>, avail |-> 0, len |-> 0, pad |-> 0, skip |-> FALSE,
              closed |-> FALSE, err |-> FALSE, sub |-> "none", at |-> "top",
              hdr |-> <<>>]

\* The first units of the buffer are kept for the header.
Room      == [i \in 1 .. HeaderLen |-> <<"room">>]
NewWriter == [buf |-> Room, raw |-> FALSE, any |-> FALSE, err |-> FALSE]

\* The web server's parser of what it gets.
NewPeer == [hdr |-> <<>>, left |-> 0, pad |-> 0, shown |-> [s \in Streams |-> 0],
            ended |-> FALSE, bad |-> FALSE]

Init ==
    /\ phase = "accept" /\ in = NewReader /\ got = <<>> /\ want = 0 /\ params = <<>>
    /\ req = [id |-> 0, keep |-> FALSE, begun |-> FALSE, writers |-> 0]
    /\ out = [s \in Streams |-> NewWriter] /\ w = "err" /\ wpc = "idle"
    /\ todo = <<>> /\ pos = 0 /\ handed = [s \in Streams |-> 0]
    /\ wire = <<>> /\ conn = "none" /\ talk = <<>> /\ count = 0 /\ hurt = FALSE
    /\ peer = NewPeer

-----------------------------------------------------------------------------
(* The web server.                                                         *)

\* What it makes of the next unit, once it has a request to be answered.
InRecord(p, u) ==
    LET s == p.hdr[1][2] IN
    IF p.left > 0 THEN
        LET q == [p EXCEPT !.left = @ - 1] IN
        CASE u[1] # "data" -> [q EXCEPT !.bad = TRUE]
          [] u[1] = "data" /\ s \in Streams ->
                [q EXCEPT !.shown[s] = @ + 1, !.bad = @ \/ u[2] # q.shown[s] + 1]
          [] OTHER -> [q EXCEPT !.ended = @ \/ (s = "end" /\ q.left = 0 /\ p.hdr[1][3] = 1)]
    ELSE [p EXCEPT !.pad = @ - 1, !.bad = @ \/ u[1] # "pad"]

Between(p, u) ==
    IF u[1] = "type" /\ Len(p.hdr) # 1 THEN [p EXCEPT !.hdr = <<u>>, !.bad = @ \/ p.ended]
    ELSE IF u[1] = "len" /\ Len(p.hdr) = 1
         THEN [p EXCEPT !.hdr = Append(@, u), !.left = u[2], !.pad = u[3]]
         ELSE [p EXCEPT !.bad = TRUE]

Gets(p, u) ==
    IF p.bad THEN p ELSE IF p.left + p.pad > 0 THEN InRecord(p, u) ELSE Between(p, u)

PeerGets(units) == peer' = FoldLeft(Gets, peer, units)

\* The request itself: its first FCGI_BEGIN_REQUEST.
Begins(t) == t[CHOOSE i \in DOMAIN t : /\ t[i].type = "begin"
                                       /\ \A j \in 1 .. i - 1 : t[j].type # "begin"]
Keeps(t)  == Begins(t).data[2] = 1

\* A request that keeps to the protocol, as far as the library relies on it.  At b it
\* begins, and before there are management records only.  Unless it must be refused,
\* the records with its number are then those of the parameters, to the empty one at
\* e, and those of the body, to the empty one that ends the request.  These have no
\* padding.  Records of other requests have content, and of the management records
\* only FCGI_GET_VALUES has.
Record == [type : Types, id : Nat, data : Seq(Nat), pad : Nat]
Regular(t) ==
    /\ t \in Seq(Record)
    /\ \E b \in DOMAIN t :
          /\ t[b].type = "begin" /\ t[b].id \in {0, 1}
          /\ Len(t[b].data) = BodyLen /\ t[b].pad = 0
          /\ \A i \in 1 .. b - 1 : t[i].id = 0 /\ t[i].type # "begin"
          /\ \A i \in b + 1 .. Len(t) :
                t[i].type = "begin" => t[i].id \notin {0, 1} /\ Len(t[i].data) = BodyLen
          /\ \A i \in DOMAIN t : i # b =>
                /\ t[i].id = 0 /\ t[i].type # "values" => t[i].data = <<>>
                /\ t[i].id \notin {0, 1} => t[i].data # <<>>
          /\ \/ t[b].id = 0 \/ t[b].data[1] # 0
             \/ \E e \in b + 1 .. Len(t) - 1 :
                   /\ \A i \in {e, Len(t)} : t[i].id = 1 /\ t[i].data = <<>> /\ t[i].pad = 0
                   /\ \A i \in b + 1 .. Len(t) : t[i].id = 1 =>
                         /\ t[i].type = IF i <= e THEN "params" ELSE "stdin"
                         /\ i \notin {e, Len(t)} => t[i].data # <<>>

\* It connects, or uses the connection it was left, and sends a request.
Request ==
    /\ count < Len(Talks) /\ count' = count + 1
    /\ \/ conn \in {"none", "closed"} /\ conn' = "open"
       \/ conn = "open" /\ peer.ended /\ Keeps(talk) /\ UNCHANGED conn
    /\ talk' \in Talks[count'] /\ wire' = wire \o AllBytes(talk')
    /\ peer' = NewPeer /\ hurt' = (conn = "open" /\ hurt) /\ handed' = [s \in Streams |-> 0]
    /\ UNCHANGED <<phase, readVars, req, out, w, wpc, todo, pos>>

\* It goes away; what it has sent may still arrive.
Cut ==
    /\ "cut" \in Faults /\ conn = "open" /\ ~peer.ended
    /\ conn' = "cut" /\ hurt' = TRUE
    /\ wire' \in {<<>>, wire}
    /\ UNCHANGED <<phase, readVars, req, writeVars, talk, count, peer>>

-----------------------------------------------------------------------------
(* FillBuffProc: what a caller waits for who has nothing left to read.     *)

\* read and write move one unit, or all there are.
OneOrAll(n) == IF n = 0 THEN {} ELSE {1, n}

Smaller(a, b) == IF a < b THEN a ELSE b
Rest(s, n)    == SubSeq(s, n + 1, Len(s))

\* SetError, and the return from FillBuffProc.
Failed(r) == [r EXCEPT !.closed = TRUE, !.err = TRUE, !.at = "top", !.hdr = <<>>]

Wanted == IF in.sub = "body" THEN Len(got) < BodyLen
          ELSE phase \in {"begin", "params"} \/ in.sub # "none" \/ want > 0
Filling(at) == /\ Wanted /\ wpc = "idle" /\ in.avail = 0 /\ ~in.closed /\ in.at = at

\* A step of the reader that concerns no one else.
Reader(r) == in' = r /\ UNCHANGED <<phase, got, want, params, req, writeVars, peerVars>>

\* The buffer is empty: read.
Read ==
    /\ Filling("top") /\ in.buf = <<>>
    /\ \/ \E n \in OneOrAll(Smaller(BuffLen, Len(wire))) :
             /\ in' = [in EXCEPT !.buf = SubSeq(wire, 1, n)]
             /\ wire' = Rest(wire, n) /\ UNCHANGED hurt
       \/ wire = <<>> /\ conn = "cut" /\ in' = Failed(in) /\ UNCHANGED <<wire, hurt>>
       \/ "readIntr" \in Faults /\ in' = Failed(in) /\ hurt' = TRUE /\ UNCHANGED wire
    /\ UNCHANGED <<phase, got, want, params, req, writeVars, conn, talk, count, peer>>

\* Content goes to the caller, or is dropped.
FillContent ==
    /\ Filling("top") /\ in.buf # <<>>
    /\ LET n == Smaller(in.len, Len(in.buf)) IN
       Reader(IF in.len = 0 THEN [in EXCEPT !.at = "padding"] ELSE
              IF ~in.skip THEN [in EXCEPT !.avail = n, !.len = @ - n] ELSE
              [in EXCEPT !.buf = Rest(@, n), !.len = @ - n, !.skip = n < in.len,
                         !.at = IF n < in.len THEN "top" ELSE "padding"])

FillPadding ==
    /\ Filling("padding")
    /\ LET n == Smaller(in.pad, Len(in.buf)) IN
       Reader([in EXCEPT !.buf = Rest(@, n), !.pad = @ - n,
                         !.at = IF n < in.pad THEN "top" ELSE "header"])

\* The end of the record is the end of what ProcessHeader may read; otherwise
\* the next header is put together, from as many reads as it takes.
FillHeader ==
    /\ Filling("header")
    /\ LET n == Smaller(HeaderLen - Len(in.hdr), Len(in.buf)) IN
       Reader(IF in.sub # "none" THEN [in EXCEPT !.closed = TRUE, !.at = "top"] ELSE
              [in EXCEPT !.buf = Rest(@, n), !.hdr = @ \o SubSeq(in.buf, 1, n),
                         !.at = IF Len(in.hdr) + n < HeaderLen THEN "top" ELSE "process"])

-----------------------------------------------------------------------------
(* ProcessHeader.  Each case says which header it is for, and what becomes *)
(* of the reader, whose counts are those of the header by then.            *)

Type     == CASE phase = "params" -> "params" [] phase = "serve" -> "stdin" [] OTHER -> "none"
IsHeader == in.hdr[1][1] = "type" /\ in.hdr[2][1] = "len"
HdrType  == in.hdr[1][2]
HdrId    == in.hdr[1][3]
AtHeader == [in EXCEPT !.len = in.hdr[2][2], !.pad = in.hdr[2][3], !.hdr = <<>>, !.at = "top"]

\* An answer of the library's own goes out at once, past the writers.
Reply(r, units) ==
    /\ \/ conn # "cut" /\ in' = r /\ PeerGets(units)
       \/ /\ conn = "cut" \/ "writeIntr" \in Faults
          /\ in' = [Failed(in) EXCEPT !.sub = "none"] /\ UNCHANGED peer
    /\ UNCHANGED <<phase, got, want, params, req, writeVars, wire, conn, talk, count, hurt>>

IsRecord(type) == Filling("process") /\ IsHeader /\ HdrType = type

\* A record with another version, a record of the stream that is not the one
\* being read, or a malformed FCGI_BEGIN_REQUEST.
ProcessWrong ==
    /\ Filling("process")
    /\ \/ ~IsHeader
       \/ IsHeader /\ HdrType = "begin" /\ (HdrId = 0 \/ AtHeader.len # BodyLen)
       \/ IsHeader /\ HdrType # "begin" /\ HdrId # 0 /\ HdrId = req.id /\ HdrType # Type
    /\ Reader(Failed(in))

ProcessBegin ==
    /\ IsRecord("begin") /\ HdrId # 0 /\ AtHeader.len = BodyLen /\ ~req.begun
    /\ in' = [AtHeader EXCEPT !.sub = "body"] /\ got' = <<>>
    /\ req' = [req EXCEPT !.id = HdrId]
    /\ UNCHANGED <<phase, want, params, writeVars, peerVars>>

\* A second request on the connection is answered, and its content dropped.
ProcessSecondBegin ==
    /\ IsRecord("begin") /\ HdrId # 0 /\ AtHeader.len = BodyLen /\ req.begun
    /\ Reply([AtHeader EXCEPT !.skip = TRUE],
             Header("end", HdrId, 2, 0) \o Content(<<0, 1>>))

\* The content of another request is not dropped.
ProcessOtherKept ==
    /\ Filling("process") /\ IsHeader /\ HdrType # "begin" /\ HdrId \notin {0, req.id}
    /\ Reader(AtHeader)

ProcessOther ==
    /\ Filling("process") /\ IsHeader /\ HdrType # "begin" /\ HdrId \notin {0, req.id}
    /\ Reader([AtHeader EXCEPT !.skip = TRUE])

\* FCGI_GET_VALUES is read to its end and answered; for another management
\* record the answer is all there is.
ProcessValues == /\ IsRecord("values") /\ HdrId = 0
                 /\ Reader([AtHeader EXCEPT !.sub = "values"])

ProcessUnknown ==
    /\ Filling("process") /\ IsHeader /\ HdrId = 0 /\ HdrType \notin {"begin", "values"}
    /\ Reply(AtHeader, Header("unknown", 0, 0, 0))

\* An empty record is the end of its stream.
ProcessStream ==
    /\ Filling("process") /\ IsHeader /\ HdrId # 0 /\ HdrId = req.id /\ HdrType = Type
    /\ Reader([AtHeader EXCEPT !.closed = AtHeader.len = 0])

ProcessHeader ==
    \/ ProcessWrong \/ ProcessBegin \/ ProcessSecondBegin \/ ProcessOther
    \/ ProcessValues \/ ProcessUnknown \/ ProcessStream

-----------------------------------------------------------------------------
(* FCGX_Accept_r and those who read for it.                                *)

\* The end of the parameters is taken for that of the body.
SetReaderTypeClosed(r) == [r EXCEPT !.sub = "none", !.skip = FALSE, !.len = 0, !.pad = 0,
                                    !.avail = 0, !.at = "top"]

SetReaderType(r) == [r EXCEPT !.sub = "none", !.skip = FALSE, !.len = 0, !.pad = 0,
                              !.avail = 0, !.closed = FALSE, !.at = "top"]

\* FCGX_Free with close: what was not read is lost.
Close ==
    /\ phase' = "accept" /\ conn' = "closed" /\ wire' = <<>>
    /\ in' = NewReader /\ got' = <<>> /\ params' = <<>>
    /\ req' = [req EXCEPT !.begun = FALSE]

TryAgain == Close /\ UNCHANGED <<want, writeVars, talk, count, hurt, peer>>

\* A connection is open, or OS_Accept returns one.
Accept ==
    /\ phase = "accept" /\ conn \in {"open", "cut"}
    /\ phase' = "begin"
    /\ UNCHANGED <<readVars, req, writeVars, peerVars>>

\* The caller takes what there is: ReadParams, for the request or for
\* FCGI_GET_VALUES, goes on to the end, and the body was asked for as a whole.
Take ==
    /\ in.avail > 0 /\ wpc = "idle" /\ (phase = "params" \/ in.sub # "none")
    /\ in' = [in EXCEPT !.buf = Rest(@, in.avail), !.avail = 0]
    /\ got' = IF in.sub = "values" THEN got ELSE got \o SubSeq(in.buf, 1, in.avail)
    /\ UNCHANGED <<phase, want, params, req, writeVars, peerVars>>

\* The body of FCGI_BEGIN_REQUEST is complete; the role must be one it knows.
Begun ==
    /\ in.sub = "body" /\ in.avail = 0 /\ Len(got) = BodyLen
    /\ \/ /\ got[1][2] = 0
          /\ phase' = "params" /\ in' = SetReaderType(in) /\ got' = <<>>
          /\ req' = [req EXCEPT !.keep = got[2][2] = 1, !.begun = TRUE]
          /\ UNCHANGED <<want, params, writeVars, peerVars>>
       \/ got[1][2] # 0 /\ TryAgain

\* No request: an error, the end of the connection, or FillBuffProc returned with
\* the content of a management record that it does not know.
NotBegun ==
    /\ phase = "begin" /\ in.sub # "values"
    /\ in.closed \/ (in.sub = "none" /\ in.avail > 0)
    /\ TryAgain

ValuesRead ==
    /\ in.sub = "values" /\ in.avail = 0 /\ in.closed
    /\ \/ /\ ~in.err /\ in.len = 0
          /\ Reply([in EXCEPT !.sub = "none", !.closed = FALSE],
                   Header("result", 0, 2, 0) \o Content(<<0, 0>>))
       \/ (in.err \/ in.len # 0) /\ Reader([Failed(in) EXCEPT !.sub = "none"])

\* The end of the stream, or an error, between two pairs is the end of ReadParams;
\* within a pair it is an error.
ParamsRead ==
    /\ phase = "params" /\ in.sub = "none" /\ in.avail = 0 /\ in.closed
    /\ \/ /\ Len(got) % PairLen = 0
          /\ phase' = "serve" /\ params' = got /\ got' = <<>> /\ in' = SetReaderType(in)
          /\ req' = [req EXCEPT !.writers = 2]
          /\ UNCHANGED <<want, writeVars, peerVars>>
       \/ Len(got) % PairLen # 0 /\ TryAgain

AcceptStep == Accept \/ Take \/ Begun \/ NotBegun \/ ValuesRead \/ ParamsRead

-----------------------------------------------------------------------------
(* The application: query(), through FCgiServiceIo or the FCGI_ streams.   *)

Free == phase = "serve" /\ want = 0 /\ wpc = "idle"

AppRead ==
    /\ Free /\ ~in.closed
    /\ want' \in 1 .. MaxWanted
    /\ UNCHANGED <<phase, in, got, params, req, writeVars, peerVars>>

AppTakes ==
    /\ phase = "serve" /\ in.sub = "none" /\ want > 0 /\ in.avail > 0
    /\ LET n == Smaller(want, in.avail) IN
       /\ in' = [in EXCEPT !.buf = Rest(@, n), !.avail = @ - n]
       /\ got' = got \o SubSeq(in.buf, 1, n) /\ want' = want - n
    /\ UNCHANGED <<phase, params, req, writeVars, peerVars>>

\* The end of the body, or an error: the application gets less than it wanted.
AppEnd ==
    /\ phase = "serve" /\ in.sub = "none" /\ want > 0 /\ in.avail = 0 /\ in.closed
    /\ want' = 0
    /\ UNCHANGED <<phase, in, got, params, req, writeVars, peerVars>>

Numbered(from, n) == [i \in 1 .. n |-> from + i]

AppWrite(s) ==
    /\ Free
    /\ \E n \in 1 .. MaxHanded[talk][s] - handed[s] :
         /\ todo' = Content(Numbered(handed[s], n))
         /\ handed' = [handed EXCEPT ![s] = @ + n]
    /\ w' = s /\ wpc' = "put"
    /\ UNCHANGED <<phase, readVars, req, out, pos, peerVars>>

AppFlush(s) ==
    /\ Free /\ ~out[s].err /\ out[s].buf # Room
    /\ w' = s /\ wpc' = "empty"
    /\ UNCHANGED <<phase, readVars, req, out, todo, pos, handed, peerVars>>

\* FCGI_Finish closes the streams: err first.
Finish ==
    /\ Free
    /\ "unread" \in Faults \/ ~req.keep \/ in.closed
    /\ phase' = "finish" /\ w' = "err" /\ wpc' = "empty"
    /\ UNCHANGED <<readVars, req, out, todo, pos, handed, peerVars>>

AppStep == AppRead \/ AppTakes \/ AppEnd \/ Finish

-----------------------------------------------------------------------------
(* The writer w.  wpc is "put" in FCGX_PutStr, "empty" at the start of       *)
(* EmptyBuffProc, "write" in write_it_all, "end" when FCGX_FClose is done.   *)

Closing == phase = "finish"
Buf     == out[w].buf
Back(after) == IF Closing THEN after ELSE "idle"

Writer(o) ==
    /\ out' = [out EXCEPT ![w] = o]
    /\ UNCHANGED <<phase, readVars, w, handed, wire, conn, talk, count, hurt>>

\* FCGX_PutStr goes on beyond the end of the buffer.
PutBeyond ==
    /\ wpc = "put" /\ wpc' = Back("write") /\ todo' = <<>>
    /\ Writer([out[w] EXCEPT !.buf = @ \o todo]) /\ UNCHANGED <<req, pos, peer>>

Put ==
    /\ wpc = "put"
    /\ LET n    == Smaller(Len(todo), BuffLen - Len(Buf))
           left == Rest(todo, n)
       IN  /\ Writer([out[w] EXCEPT !.buf = @ \o SubSeq(todo, 1, n)])
           /\ \/ left = <<>> /\ wpc' = Back("write") /\ todo' = <<>>
              \/ left # <<>> /\ ~out[w].err /\ wpc' = "empty" /\ todo' = left
              \/ left # <<>> /\ out[w].err /\ wpc' = Back("write") /\ todo' = <<>>
    /\ UNCHANGED <<req, pos, peer>>

\* Content gets its header and its padding; without content the room is given up.
Encapsulated(b) ==
    LET c == Len(b) - HeaderLen IN
    IF c > 0 THEN Header(w, req.id, c, c % 2) \o Rest(b, HeaderLen) \o Padding(c % 2)
             ELSE <<>>

\* The first stream that is closed adds the end of the request.
CloseRecordsFirst(b) ==
    (IF w = "err" /\ b = <<>> /\ ~out[w].any THEN <<>> ELSE Header(w, req.id, 0, 0))
    \o (IF req.writers = 2 THEN Header("end", req.id, 2, 0) \o Content(<<0, 0>>) ELSE <<>>)

\* No stream does.
CloseRecordsNoEnd(b) == IF b = <<>> /\ ~out[w].any THEN <<>> ELSE Header(w, req.id, 0, 0)

\* The end of the stream, unless it is an error stream nobody has used; the last
\* writer adds the end of the request.
CloseRecords(b) ==
    (IF w = "err" /\ b = <<>> /\ ~out[w].any THEN <<>> ELSE Header(w, req.id, 0, 0))
    \o (IF req.writers = 1 THEN Header("end", req.id, 2, 0) \o Content(<<0, 0>>) ELSE <<>>)

Empty ==
    /\ wpc = "empty"
    /\ LET b == IF out[w].raw THEN Buf ELSE Encapsulated(Buf) IN
       \/ /\ Closing /\ ~out[w].raw
          /\ Writer([out[w] EXCEPT !.buf = b, !.raw = TRUE])
          /\ todo' = CloseRecords(b) /\ req' = [req EXCEPT !.writers = @ - 1]
          /\ wpc' = "put"
       \/ /\ ~Closing \/ out[w].raw
          /\ Writer([out[w] EXCEPT !.buf = b]) /\ wpc' = "write" /\ UNCHANGED <<todo, req>>
    /\ pos' = 0 /\ UNCHANGED peer

\* Where the worker is when write_it_all is done or has failed.
Written == IF todo # <<>> THEN "put" ELSE Back("end")

Write ==
    /\ wpc = "write" /\ pos < Len(Buf) /\ conn # "cut"
    /\ \E n \in OneOrAll(Len(Buf) - pos) :
         /\ pos' = pos + n /\ PeerGets(SubSeq(Buf, pos + 1, pos + n))
    /\ Writer([out[w] EXCEPT !.any = TRUE])
    /\ UNCHANGED <<wpc, todo, req>>

\* The web server has gone, or a signal comes first.  SetError leaves the buffer as it is.
WriteFails ==
    /\ wpc = "write" /\ pos < Len(Buf) /\ (conn = "cut" \/ "writeIntr" \in Faults)
    /\ Writer([out[w] EXCEPT !.any = TRUE, !.err = TRUE])
    /\ wpc' = Written /\ pos' = 0 /\ UNCHANGED <<todo, req, peer>>

WriteDone ==
    /\ wpc = "write" /\ pos = Len(Buf)
    /\ Writer([out[w] EXCEPT !.buf = IF out[w].raw THEN <<>> ELSE Room])
    /\ wpc' = Written /\ pos' = 0 /\ UNCHANGED <<todo, req, peer>>

\* After err comes out, and then the connection is closed or kept for the next
\* request; its streams are freed, and that one gets new ones.
StreamClosed ==
    /\ wpc = "end" /\ w = "err" /\ w' = "out" /\ wpc' = "empty"
    /\ UNCHANGED <<phase, readVars, req, out, todo, pos, handed, peerVars>>

Finished ==
    /\ wpc = "end" /\ w = "out" /\ wpc' = "idle"
    /\ out' = [s \in Streams |-> NewWriter]
    /\ \/ (~req.keep \/ in.err \/ \E s \in Streams : out[s].err) /\ Close
       \/ /\ req.keep /\ ~in.err /\ \A s \in Streams : ~out[s].err
          /\ phase' = "begin" /\ in' = NewReader /\ got' = <<>> /\ params' = <<>>
          /\ req' = [req EXCEPT !.begun = FALSE] /\ UNCHANGED <<wire, conn>>
    /\ UNCHANGED <<want, w, todo, pos, handed, talk, count, hurt, peer>>

WriterStep == Put \/ Empty \/ Write \/ WriteFails \/ WriteDone \/ StreamClosed \/ Finished

ReaderStep ==
    Read \/ FillContent \/ FillPadding \/ FillHeader \/ ProcessHeader \/ AcceptStep

-----------------------------------------------------------------------------
Next ==
    \/ ReaderStep \/ AppStep \/ WriterStep
    \/ \E s \in Streams : AppWrite(s) \/ AppFlush(s)
    \/ Request \/ Cut

\* The worker runs, reads and writes return, and query() does.
Spec == Init /\ [][Next]_vars /\ WF_vars(ReaderStep \/ AppStep \/ WriterStep)

-----------------------------------------------------------------------------
(* Properties.                                                             *)

TypeOK ==
    /\ phase \in {"accept", "begin", "params", "serve", "finish"}
    /\ in.avail <= Len(in.buf) /\ Len(in.buf) <= BuffLen
    /\ in.len \in Nat /\ in.pad \in Nat /\ Len(in.hdr) <= HeaderLen
    /\ in.sub \in {"none", "body", "values"}
    /\ in.at \in {"top", "padding", "header", "process"}
    /\ want \in 0 .. MaxWanted /\ w \in Streams
    /\ wpc \in {"idle", "put", "empty", "write", "end"}
    /\ req.writers \in 0 .. 2
    /\ \A s \in Streams : Len(out[s].buf) <= BuffLen
    /\ conn \in {"none", "open", "cut", "closed"}

\* What the web server has sent as parameters, or as the body.
Sent(type) == FlattenSeq([i \in DOMAIN talk |->
                 IF talk[i].type = type /\ talk[i].id = Begins(talk).id
                 THEN Content(talk[i].data) ELSE <<>>])

\* The application gets the parameters of its request, all of them unless the
\* connection failed, however they were cut into records and reads and
\* whatever came between (FCGX_Accept_r, ReadParams).
ParamsAreSent ==
    phase = "serve" => /\ IsPrefix(params, Sent("params"))
                       /\ hurt \/ params = Sent("params")

\* The application gets the body in order, and when it is told of its end without
\* an error it has all of it (FCGX_GetStr, FillBuffProc).
BodyIsSent ==
    phase = "serve" => /\ IsPrefix(got, Sent("stdin"))
                       /\ in.closed /\ ~in.err /\ in.sub = "none" /\ in.avail = 0
                            => got = Sent("stdin")

\* A management record the library does not know comes before the request, with
\* content.
Puzzled(t) == \E i \in DOMAIN t : /\ t[i].id = 0 /\ t[i].type = "unknown" /\ t[i].data # <<>>
                                 /\ \A j \in 1 .. i : t[j].type # "begin"

\* A request that was sent is answered to its end, or refused by closing its
\* connection if it has no number, a role the library does not know or such a record
\* before it, unless the connection fails (FCGX_Accept_r, FCGX_Finish_r).
Refused ==
    conn = "closed" /\ (Begins(talk).id = 0 \/ Begins(talk).data[1] # 0 \/ Puzzled(talk))
RequestIsAnswered ==
    \A n \in DOMAIN Talks :
        count = n ~> count = n /\ (peer.ended \/ Refused \/ hurt)

\* The answer is what Response promises: what the application has written
\* reaches the web server in order, and is complete when the end is.
Shown == IF peer.bad THEN [s \in Streams |-> -1] ELSE peer.shown
Answer == CASE conn = "none" -> "none"
            [] conn # "none" /\ peer.ended -> "complete"
            [] conn = "open" /\ ~peer.ended -> "open"
            [] OTHER -> "lost"

Promise == INSTANCE Response WITH shown <- Shown, answer <- Answer
AnswersAsPromised == Promise!Spec
=============================================================================
