-------------------------- MODULE FcgiAnswer_proof --------------------------
(***************************************************************************)
(* The answer to a request: what the web server makes of what the writers    *)
(* send, for every size of their buffers and however it is written.  With    *)
(* what Fcgi_proof says of the reader, this shows that the application gets   *)
(* the parameters and the body that were sent, and that its answer is what    *)
(* Response promises.                                                       *)
(***************************************************************************)
EXTENDS Fcgi_proof

(* The steps of the application, the writers and the web server.           *)

LEMMA AppStream ==
    ASSUME FcgiInv, StreamInv,
           AppRead \/ AppEnd \/ (\E s \in Streams : AppWrite(s) \/ AppFlush(s))
    PROVE  StreamInv'
<1>1. PICK t \in {talk} : StreamOf(t)
    BY DEF StreamInv
<1>2. /\ UNCHANGED <<phase, in, got, params, req, wire, conn, talk, hurt, peer>> /\ phase = "serve"
      /\ in.sub = "values" /\ want > 0 => want' > 0
    <2>1. CASE AppRead
        <3>1. \A i \in 1 .. MaxWanted : i > 0
            BY TalkAssumption
        <3> QED BY <2>1, <3>1 DEF AppRead, Free, peerVars
    <2>2. CASE AppEnd
        BY <2>2 DEF AppEnd, peerVars
    <2>3. ASSUME NEW s \in Streams, AppWrite(s) \/ AppFlush(s)
          PROVE  /\ UNCHANGED <<phase, in, got, params, req, wire, conn, talk, hurt, peer, want>>
                 /\ phase = "serve"
        BY <2>3 DEF AppWrite, AppFlush, Free, readVars, peerVars
    <2> QED BY <2>1, <2>2, <2>3
<1>3. Whole(in)' /\ LinkInv'
    BY <1>2 DEF StreamInv, LinkInv
<1>4. BodyAt(t) => BodyAt(t)'
    <2>1. \A v : Incoming(v) => Incoming(v)'
        BY <1>2 DEF Incoming
    <2> QED BY <1>2, <2>1 DEF BodyAt, Reading, Drifting, Halted
<1>5. StreamOf(t)'
    BY <1>1, <1>2, <1>4 DEF StreamOf, InAccept, InBegin, InParams, InServe, InFinish, ParamsGot
<1> QED BY <1>1, <1>2, <1>3, <1>5, StreamIs

LEMMA FinishStream ==
    ASSUME RegularTalks, FewFaults, FcgiInv, StreamInv, Finish
    PROVE  StreamInv'
<1>1. PICK t \in {talk} : StreamOf(t)
    BY DEF StreamInv
<1>2. /\ UNCHANGED <<in, req, wire, conn, talk, hurt, peer>> /\ phase = "serve" /\ phase' = "finish"
      /\ wpc' = "empty" /\ Sound(in) /\ (req.keep => in.closed) /\ Whole(in) /\ LinkInv
    BY DEF Finish, Free, readVars, peerVars, FcgiInv, ReaderInv, FewFaults, StreamInv
<1>3. in.sub = "none"
    <2>1. in.sub # "values"
        BY <1>1, <1>2 DEF Finish, Free, StreamOf, InServe
    <2> QED BY <1>2, <2>1, ReadersAre DEF FcgiInv, PhaseInv
<1>4. req.keep /\ ~in.err => wire = <<>>
    <2>1. SUFFICES ASSUME req.keep, ~in.err PROVE wire = <<>>
        OBVIOUS
    <2>2. Proper(t) /\ BodyAt(t)
        BY <1>1, <1>2 DEF StreamOf, InServe
    <2>3. Regular(t)
        BY <1>1, <1>2, TalkRegular DEF FcgiInv, TalkInv
    <2>4. Reading(t, "stdin", End(t), Len(t))
        BY <2>1, <2>2 DEF BodyAt, Drifting, Adrift, Halted
    <2> QED BY <1>2, <1>3, <2>1, <2>2, <2>3, <2>4, BodyFull
<1>5. StreamOf(t)'
    BY <1>2, <1>4 DEF StreamOf, InAccept, InBegin, InParams, InServe, InFinish
<1>6. LinkInv'
    BY <1>2, <1>3 DEF LinkInv
<1>7. Whole(in)'
    BY <1>2
<1> QED BY <1>1, <1>2, <1>5, <1>6, <1>7, StreamIs

\* A writer at work leaves the reader alone, and after the end of the request the
\* connection too.
LEMMA WriterStream ==
    ASSUME FcgiInv, StreamInv, Put \/ Empty \/ Write \/ WriteFails \/ WriteDone \/ StreamClosed
    PROVE  StreamInv'
<1>1. PICK t \in {talk} : StreamOf(t)
    BY DEF StreamInv
<1>2. UNCHANGED <<phase, readVars, wire, conn, talk, hurt>> /\ wpc # "idle"
    BY DEF Put, Empty, Write, WriteFails, WriteDone, StreamClosed, Writer, peerVars
<1>3. phase \in {"serve", "finish"} /\ w \in Streams /\ req \in Counts
    BY <1>2 DEF FcgiInv, PhaseInv, WriterInv, ReaderInv
<1>4. req'.id = req.id /\ req'.begun = req.begun /\ req'.keep = req.keep
    <2>1. UNCHANGED req \/ req' = [req EXCEPT !.writers = req.writers - 1]
        BY DEF Put, Empty, Write, WriteFails, WriteDone, StreamClosed
    <2> QED BY <1>3, <2>1 DEF Counts
<1>5. phase = "finish" => wpc' # "idle"
    BY <1>2 DEF Put, Empty, Write, WriteFails, WriteDone, StreamClosed, Back, Closing, Written
<1>6. Whole(in)' /\ LinkInv'
    BY <1>2, <1>4, <1>5 DEF StreamInv, LinkInv, readVars
<1>7. BodyAt(t) => BodyAt(t)'
    <2>1. \A v : Incoming(v) => Incoming(v)'
        BY <1>2 DEF Incoming
    <2> QED BY <1>2, <2>1 DEF BodyAt, Reading, Drifting, Halted, readVars
<1>8. phase = "finish" /\ Over => Over' /\ UNCHANGED peer
    <2>1. SUFFICES ASSUME phase = "finish", Over PROVE Over' /\ UNCHANGED peer
        OBVIOUS
    <2>2. WriteDone
        <3>1. ~(pos < pos)
            <4>1. pos \in Nat
                BY DEF FcgiInv, WriterInv
            <4> QED BY <4>1
        <3> QED BY <2>1, <3>1 DEF Over, Put, Empty, Write, WriteFails, WriteDone, StreamClosed, Buf
    <2>3. wpc' = "end"
        BY <2>1, <2>2 DEF Over, WriteDone, Written, Back, Closing
    <2> QED BY <2>1, <2>2, <2>3 DEF Over, WriteDone, Writer, Written
<1>9. InFinish(t) => InFinish(t)'
    <2>1. \A v : Incoming(v) => Incoming(v)'
        BY <1>2 DEF Incoming
    <2> QED BY <1>2, <1>4, <1>8, <2>1 DEF InFinish, readVars
<1>10. StreamOf(t)'
    BY <1>1, <1>2, <1>3, <1>7, <1>9
       DEF StreamOf, InAccept, InBegin, InParams, InServe, ParamsGot, readVars
<1> QED BY <1>1, <1>2, <1>6, <1>10, StreamIs

LEMMA FinishedStream ==
    ASSUME RegularTalks, FcgiInv, StreamInv, Finished
    PROVE  StreamInv'
<1>1. PICK t \in {talk} : StreamOf(t)
    BY DEF StreamInv
<1>2. UNCHANGED <<talk, hurt, peer>> /\ wpc = "end" /\ phase = "finish" /\ LinkInv
    BY DEF Finished, FcgiInv, PhaseInv, StreamInv
<1>3. CASE Close
    BY <1>2, <1>3, CloseStream
<1>4. CASE ~Close
    <2>1. /\ phase' = "begin" /\ in' = NewReader /\ UNCHANGED <<wire, conn>> /\ req.keep /\ ~in.err
          /\ req \in Counts /\ req' = [req EXCEPT !.begun = FALSE]
        BY <1>4 DEF Finished, FcgiInv, ReaderInv
    <2>2. wire = <<>> \/ (~peer.ended /\ Incoming(AllBytes(t)))
        BY <1>1, <1>2, <2>1 DEF StreamOf, InFinish
    <2>3. Regular(t)
        BY <1>1, <1>2, TalkRegular DEF FcgiInv, TalkInv
    <2>4. wire = <<>> => NoWire'
        BY <2>1 DEF NoWire
    <2>5. Incoming(AllBytes(t)) => Starting(t)'
        <3>1. Fresh(in, got, t, 0, AllBytes(t), req.id)'
            BY <2>1, <2>3, NewStarts
        <3>2. Incoming(AllBytes(t)) => Incoming(AllBytes(t))'
            BY <2>1 DEF Incoming
        <3>3. 0 \in 0 .. Start(t)
            BY <2>3, RegularIs
        <3> QED BY <3>1, <3>2, <3>3 DEF Starting
    <2>6. StreamOf(t)'
        BY <1>2, <2>1, <2>2, <2>4, <2>5
           DEF StreamOf, InAccept, InBegin, InParams, InServe, InFinish, Beginning
    <2>7. ~req'.begun
        BY <2>1 DEF Counts
    <2>8. LinkInv'
        BY <1>2, <2>1, <2>7 DEF LinkInv
    <2>9. Whole(in)'
        BY WholeNext DEF StreamInv
    <2> QED BY <1>1, <1>2, <2>6, <2>8, <2>9, StreamIs
<1> QED BY <1>3, <1>4

\* What the web server knows of the answer.
PeerInv ==
    conn = "open" => /\ phase \in {"params", "serve"} => ~peer.ended
                     /\ phase = "finish" /\ peer.ended => Over

LEMMA RequestStream ==
    ASSUME RegularTalks, FcgiInv, StreamInv, PeerInv, Request
    PROVE  StreamInv'
<1>1. PICK u \in {talk} : StreamOf(u)
    BY DEF StreamInv
<1>2. PICK t : t = talk'
    OBVIOUS
<1>3. /\ UNCHANGED <<phase, in, got, params, want, req, w, todo, wpc, pos, out>>
      /\ wire' = wire \o AllBytes(t) /\ conn' = "open" /\ peer' = NewPeer /\ LinkInv /\ Whole(in)
      /\ conn \in {"none", "closed"} \/ (conn = "open" /\ peer.ended)
    BY <1>2 DEF Request, readVars, StreamInv
<1>4. Regular(t)
    <2>1. count' \in 1 .. Len(Talks) /\ t \in Talks[count']
        BY <1>2, TalkAssumption DEF Request, FcgiInv, TalkInv
    <2> QED BY <2>1 DEF RegularTalks
<1>5. AllBytes(t) \in Seq(Unit) /\ t \in Seq(Record) /\ 0 \in 0 .. Start(t)
    BY <1>4, RegularIs, AheadStart
<1>6. (wire = <<>> /\ phase \in {"accept", "begin", "finish"}) \/ (phase = "finish" /\ ~(req.keep /\ ~in.err))
    <2>1. phase \in Phases
        BY DEF FcgiInv, PhaseInv
    <2>2. CASE conn \in {"none", "closed"}
        BY <1>3, <2>1, <2>2 DEF LinkInv, Phases
    <2>3. CASE conn = "open" /\ peer.ended
        BY <1>1, <2>1, <2>3 DEF PeerInv, Phases, StreamOf, InAccept, InBegin, InFinish, NoWire
    <2> QED BY <1>3, <2>2, <2>3
<1>7. wire = <<>> => Incoming(AllBytes(t))'
    <2>1. <<>> \o AllBytes(t) = AllBytes(t) /\ AllBytes(t) \o <<>> = AllBytes(t) /\ <<>> \in Seq(Unit)
        BY <1>5, UnitsJoin
    <2> QED BY <1>3, <2>1 DEF Incoming
<1>8. ~peer'.ended
    BY <1>3 DEF NewPeer
<1>9. phase = "begin" => Beginning(t)'
    <2>1. SUFFICES ASSUME phase = "begin" PROVE Beginning(t)'
        OBVIOUS
    <2>2. in \in {NewReader, Failed(NewReader)}
        BY <1>1, <1>3, <2>1 DEF LinkInv, StreamOf, InBegin, NoWire
    <2>3. CASE in = NewReader
        <3>1. Fresh(in, got, t, 0, AllBytes(t), req.id)'
            BY <1>3, <1>4, <2>3, NewStarts
        <3> QED BY <1>5, <1>6, <1>7, <2>1, <3>1 DEF Beginning, Starting
    <2>4. CASE in = Failed(NewReader)
        <3>1. Dead(in, got)
            BY <2>4, FailedNewIs DEF Dead
        <3>2. Dead(in, got)'
            BY <1>3, <3>1
        <3> QED BY <3>2 DEF Beginning
    <2> QED BY <2>2, <2>3, <2>4
<1>10. phase = "accept" => in = NewReader
    BY <1>1 DEF StreamOf, InAccept
<1>11. phase = "finish" => Over'
    <2>1. phase = "finish" => Over
        BY <1>3 DEF LinkInv, PeerInv
    <2> QED BY <1>3, <2>1 DEF Over
<1>12. StreamOf(t)'
    BY <1>3, <1>6, <1>7, <1>8, <1>9, <1>10, <1>11
       DEF StreamOf, InAccept, InBegin, InParams, InServe, InFinish
<1>13. LinkInv'
    BY <1>3 DEF LinkInv
<1>14. Whole(in)'
    BY <1>3
<1> QED BY <1>2, <1>12, <1>13, <1>14, StreamIs

LEMMA CutStream ==
    ASSUME FcgiInv, StreamInv, Cut
    PROVE  StreamInv'
<1>1. PICK t \in {talk} : StreamOf(t)
    BY DEF StreamInv
<1>2. /\ UNCHANGED <<phase, in, got, params, want, req, w, todo, wpc, pos, out, talk, peer>>
      /\ wire' \in {<<>>, wire} /\ conn = "open" /\ conn' = "cut" /\ hurt' = TRUE /\ ~peer.ended
      /\ LinkInv /\ Whole(in) /\ wire \in Seq(Unit)
    BY DEF Cut, readVars, writeVars, StreamInv, FcgiInv, ReaderInv
<1>3. \A v : Incoming(v) => Incoming(v)'
    <2>1. SUFFICES ASSUME NEW v, Incoming(v) PROVE Incoming(v)'
        OBVIOUS
    <2>2. v = wire
        BY <1>2, <2>1, UnitsJoin DEF Incoming
    <2>3. wire \o <<>> = wire /\ <<>> \o wire = wire /\ <<>> \in Seq(Unit)
        BY <1>2, UnitsJoin
    <2> QED BY <1>2, <2>2, <2>3 DEF Incoming
<1>4. /\ Beginning(t) => Beginning(t)'
      /\ ParamsAt(t) => ParamsAt(t)'
      /\ BodyAt(t) => BodyAt(t)'
      /\ ParamsGot(t) => ParamsGot(t)'
    <2>1. Starting(t) => Starting(t)'
        BY <1>2, <1>3 DEF Starting
    <2>2. NoWire => NoWire'
        BY <1>2 DEF NoWire
    <2>3. Beginning(t) => Beginning(t)'
        BY <1>2, <2>1, <2>2 DEF Beginning
    <2>4. ParamsAt(t) => ParamsAt(t)'
        BY <1>2, <1>3 DEF ParamsAt, Reading, Broken
    <2>5. BodyAt(t) => BodyAt(t)'
        BY <1>2, <1>3 DEF BodyAt, Reading, Drifting, Halted
    <2>6. ParamsGot(t) => ParamsGot(t)'
        BY <1>2 DEF ParamsGot
    <2> QED BY <2>3, <2>4, <2>5, <2>6
<1>5. InFinish(t) => InFinish(t)'
    <2>1. Over => Over'
        BY <1>2 DEF Over
    <2> QED BY <1>2, <1>3, <2>1 DEF InFinish
<1>6. InAccept(t) => InAccept(t)'
    BY <1>2, <1>3 DEF InAccept
<1>7. StreamOf(t)'
    BY <1>1, <1>2, <1>4, <1>5, <1>6 DEF StreamOf, InBegin, InParams, InServe
<1>8. LinkInv'
    BY <1>2 DEF LinkInv
<1>9. Whole(in)'
    BY <1>2
<1> QED BY <1>1, <1>2, <1>7, <1>8, <1>9, StreamIs

LEMMA StreamInit == Init => StreamInv
<1> SUFFICES ASSUME Init PROVE StreamInv
    OBVIOUS
<1>1. Whole(in)
    BY NewReaderIs, WholeIs DEF Init
<1>2. LinkInv
    BY DEF Init, LinkInv
<1>3. \A t : StreamOf(t)
    BY DEF Init, StreamOf, InAccept, InBegin, InParams, InServe, InFinish
<1> QED BY <1>1, <1>2, <1>3 DEF StreamInv

-----------------------------------------------------------------------------
(* What the web server makes of what it gets.                              *)

PeerUnit == OutUnit \cup ({"type"} \X {"result"} \X Nat)
Peers    == [hdr : Seq(PeerUnit), left : Nat, pad : Nat, shown : [Streams -> Nat],
             ended : BOOLEAN, bad : BOOLEAN]
Sees(p, s) == FoldLeft(Gets, p, s)
PeerStep   == [x \in Peers \X PeerUnit |-> Gets(x[1], x[2])]

LEMMA LenUnit ==
    ASSUME NEW u \in PeerUnit, u[1] = "len"
    PROVE  u[2] \in Nat /\ u[3] \in Nat
<1>1. u \notin {<<"pad">>} /\ u \notin {<<"room">>} /\ u \notin {"data"} \X Nat
    OBVIOUS
<1>2. u \notin {"type"} \X Types \X Nat /\ u \notin {"type"} \X {"result"} \X Nat
    OBVIOUS
<1>3. u \in {"len"} \X Nat \X Nat
    BY <1>1, <1>2 DEF PeerUnit, OutUnit, Unit
<1> QED BY <1>3

LEMMA GetsIs ==
    ASSUME NEW p \in Peers, NEW u \in PeerUnit
    PROVE  Gets(p, u) \in Peers
<1>1. p.left \in Nat /\ p.pad \in Nat /\ p.hdr \in Seq(PeerUnit) /\ p.shown \in [Streams -> Nat]
    BY DEF Peers
<1>2. ASSUME p.left > 0 PROVE InRecord(p, u) \in Peers
    <2> DEFINE q == [p EXCEPT !.left = p.left - 1]
               s == p.hdr[1][2]
    <2>1. q \in Peers
        <3> DEFINE n == p.left - 1
        <3>1. n \in Nat
            BY <1>1, <1>2
        <3> HIDE DEF n
        <3>2. [p EXCEPT !.left = n] \in Peers
            BY <3>1 DEF Peers
        <3> QED BY <3>2 DEF n
    <2>2. q.shown = p.shown /\ q.bad = p.bad /\ q.ended = p.ended
        BY DEF Peers
    <2> HIDE DEF q
    <2>3. [q EXCEPT !.bad = TRUE] \in Peers
        BY <2>1 DEF Peers
    <2>4. ASSUME s \in Streams
          PROVE  [q EXCEPT !.shown[s] = @ + 1, !.bad = @ \/ u[2] # q.shown[s] + 1] \in Peers
        <3> DEFINE sh == [q.shown EXCEPT ![s] = @ + 1]
                   b == q.bad \/ u[2] # q.shown[s] + 1
        <3>1. sh \in [Streams -> Nat]
            BY <1>1, <2>2, <2>4
        <3>2. b \in BOOLEAN
            OBVIOUS
        <3> HIDE DEF sh, b
        <3>3. [q EXCEPT !.shown = sh, !.bad = b] \in Peers
            BY <2>1, <3>1, <3>2 DEF Peers
        <3> QED BY <3>3 DEF sh, b
    <2>5. [q EXCEPT !.ended = @ \/ (s = "end" /\ q.left = 0 /\ p.hdr[1][3] = 1)] \in Peers
        <3> DEFINE b == q.ended \/ (s = "end" /\ q.left = 0 /\ p.hdr[1][3] = 1)
        <3>1. b \in BOOLEAN
            OBVIOUS
        <3> HIDE DEF b
        <3>2. [q EXCEPT !.ended = b] \in Peers
            BY <2>1, <3>1 DEF Peers
        <3> QED BY <3>2 DEF b
    <2> QED BY <1>2, <2>3, <2>4, <2>5 DEF InRecord, q
<1>3. ASSUME p.left = 0, p.pad > 0 PROVE InRecord(p, u) \in Peers
    <2> DEFINE b == p.bad \/ u[1] # "pad"
    <2>1. b \in BOOLEAN /\ p.pad - 1 \in Nat
        BY <1>1, <1>3
    <2> HIDE DEF b
    <2>2. [p EXCEPT !.pad = p.pad - 1, !.bad = b] \in Peers
        BY <2>1 DEF Peers
    <2> QED BY <1>3, <2>2 DEF InRecord, b
<1>4. Between(p, u) \in Peers
    <2>1. <<u>> \in Seq(PeerUnit) /\ Append(p.hdr, u) \in Seq(PeerUnit)
        BY <1>1
    <2>2. [p EXCEPT !.bad = TRUE] \in Peers
        BY DEF Peers
    <2>3. [p EXCEPT !.hdr = <<u>>, !.bad = p.bad \/ p.ended] \in Peers
        <3> DEFINE b == p.bad \/ p.ended
                   h == <<u>>
        <3>1. b \in BOOLEAN /\ h \in Seq(PeerUnit)
            BY <2>1
        <3> HIDE DEF b, h
        <3>2. [p EXCEPT !.hdr = h, !.bad = b] \in Peers
            BY <3>1 DEF Peers
        <3> QED BY <3>2 DEF b, h
    <2>4. ASSUME u[1] = "len"
          PROVE  [p EXCEPT !.hdr = Append(p.hdr, u), !.left = u[2], !.pad = u[3]] \in Peers
        <3>1. u[2] \in Nat /\ u[3] \in Nat
            BY <2>4, LenUnit
        <3> DEFINE h == Append(p.hdr, u)
        <3>2. h \in Seq(PeerUnit)
            BY <2>1
        <3> HIDE DEF h
        <3>3. [p EXCEPT !.hdr = h, !.left = u[2], !.pad = u[3]] \in Peers
            BY <3>1, <3>2 DEF Peers
        <3> QED BY <3>3 DEF h
    <2> QED BY <2>2, <2>3, <2>4 DEF Between
<1>5. p.left > 0 \/ (p.left = 0 /\ p.pad > 0) \/ ~(p.left + p.pad > 0)
    BY <1>1
<1> QED BY <1>2, <1>3, <1>4, <1>5 DEF Gets

LEMMA StepIs == IsStep(PeerStep, Peers, PeerUnit)
<1>1. \A x \in Peers \X PeerUnit : Gets(x[1], x[2]) \in Peers
    BY GetsIs
<1> QED BY <1>1 DEF PeerStep, IsStep

\* It goes through the units from the left.
LEMMA SeesRun ==
    ASSUME NEW p \in Peers, NEW s \in Seq(PeerUnit)
    PROVE  Sees(p, s) = RunTo(PeerStep, p, s)
<1> DEFINE G     == PeerStep
           Is(f) == f = [d \in SUBSET DOMAIN s |->
                       IF d = {} THEN p ELSE Gets(f[d \ {Max(d)}], s[Max(d)])]
           f     == CHOOSE f : Is(f)
<1>1. G \in [Peers \X PeerUnit -> Peers]
    BY StepIs DEF IsStep
<1>2. \A q \in Peers, u \in PeerUnit : G[<<q, u>>] = Gets(q, u)
    BY DEF PeerStep
<1> HIDE DEF G
<1>3. PICK h \in [SUBSET DOMAIN s -> Peers] : IsIter(h, G, p, s)
    BY <1>1, IterExists
<1>4. Is(h)
    <2>1. ASSUME NEW d \in SUBSET DOMAIN s, d # {}
          PROVE  G[<<h[d \ {Max(d)}], s[Max(d)]>>] = Gets(h[d \ {Max(d)}], s[Max(d)])
        BY <1>2, <1>3, <2>1, IterTakes
    <2> QED BY <1>3, <2>1 DEF IsIter
<1>5. Is(f)
    <2> HIDE DEF Is
    <2> QED BY <1>4
<1>6. Sees(p, s) = f[DOMAIN s]
    BY DEF Sees, FoldLeft, MapThenFoldSet
<1> HIDE DEF f
<1>7. f[DOMAIN s] = RunTo(G, p, s)
    <2>1. f[{}] = p
        BY <1>5
    <2>2. ASSUME NEW i \in 1 .. Len(s), f[1 .. i - 1] \in Peers
          PROVE  f[1 .. i] = G[<<f[1 .. i - 1], s[i]>>]
        <3>1. i \in Nat \ {0} /\ s[i] \in PeerUnit /\ 1 .. i \in SUBSET DOMAIN s
            OBVIOUS
        <3>2. 1 .. i # {} /\ Max(1 .. i) = i /\ (1 .. i) \ {Max(1 .. i)} = 1 .. i - 1
            BY <3>1, MaxOf
        <3>3. f[1 .. i] = Gets(f[1 .. i - 1], s[i])
            BY <1>5, <3>1, <3>2
        <3> QED BY <1>2, <2>2, <3>1, <3>3
    <2> HIDE DEF Is
    <2>3. Follows(f, Peers, PeerUnit, G, p, s)
        BY <1>1, <2>1, <2>2 DEF Follows
    <2>4. f[1 .. Len(s)] = RunTo(G, p, s)
        BY <2>3, IterRun
    <2>5. DOMAIN s = 1 .. Len(s)
        OBVIOUS
    <2> QED BY <2>4, <2>5
<1> QED BY <1>6, <1>7 DEF G

LEMMA SeesIs ==
    ASSUME NEW p \in Peers, NEW s \in Seq(PeerUnit)
    PROVE  Sees(p, s) \in Peers
<1>1. PeerStep \in [Peers \X PeerUnit -> Peers]
    BY StepIs DEF IsStep
<1>2. RunTo(PeerStep, p, s) \in Peers
    BY <1>1, RunType
<1> QED BY <1>2, SeesRun

LEMMA SeesNothing ==
    ASSUME NEW p \in Peers
    PROVE  Sees(p, <<>>) = p
<1>1. <<>> \in Seq(PeerUnit)
    OBVIOUS
<1> QED BY <1>1, SeesRun, StepIs, RunEmpty, ZenonT(40) DEF IsStep

LEMMA SeesOne ==
    ASSUME NEW p \in Peers, NEW u \in PeerUnit
    PROVE  Sees(p, <<u>>) = Gets(p, u)
<1>1. <<u>> \in Seq(PeerUnit)
    OBVIOUS
<1>2. Sees(p, <<u>>) = PeerStep[<<p, u>>]
    BY <1>1, SeesRun, RunOne
<1> QED BY <1>2 DEF PeerStep

LEMMA SeesMore ==
    ASSUME NEW p \in Peers, NEW s \in Seq(PeerUnit), NEW t \in Seq(PeerUnit)
    PROVE  Sees(p, s \o t) = Sees(Sees(p, s), t)
<1>1. s \o t \in Seq(PeerUnit) /\ Sees(p, s) \in Peers
    BY SeesIs
<1>2. RunTo(PeerStep, p, s \o t) = RunTo(PeerStep, RunTo(PeerStep, p, s), t)
    BY StepIs, RunConcat
<1> QED BY <1>1, <1>2, SeesRun

-----------------------------------------------------------------------------
LEMMA PairIs ==
    ASSUME NEW S, NEW u \in S, NEW v \in S
    PROVE  /\ <<u>> \in Seq(S) /\ <<v>> \in Seq(S) /\ <<u, v>> \in Seq(S)
           /\ <<u>> \o <<v>> = <<u, v>> /\ Append(<<u>>, v) = <<u, v>>
           /\ Len(<<u, v>>) = 2 /\ <<u, v>>[1] = u
<1>1. <<u>> \in Seq(S) /\ <<v>> \in Seq(S) /\ <<u, v>> \in Seq(S)
    OBVIOUS
<1> DEFINE a == <<u>>
           b == <<v>>
           c == <<u, v>>
<1>2. Len(a) = 1 /\ a[1] = u /\ Len(b) = 1 /\ b[1] = v /\ Len(c) = 2 /\ c[1] = u /\ c[2] = v
    OBVIOUS
<1>3. a \in Seq(S) /\ b \in Seq(S) /\ c \in Seq(S)
    BY <1>1
<1> HIDE DEF a, b, c
<1>4. Append(a, v) = c
    <2>1. Append(a, v) \in Seq(S) /\ Len(Append(a, v)) = 2 /\ Append(a, v)[1] = u /\ Append(a, v)[2] = v
        BY <1>2, <1>3, SMTT(40)
    <2>2. \A i \in 1 .. 2 : Append(a, v)[i] = c[i]
        BY <1>2, <2>1
    <2> HIDE DEF c
    <2> QED BY <1>2, <1>3, <2>1, <2>2, SequencesEqual
<1>5. a \o b = c
    <2>1. a \o b \in Seq(S) /\ Len(a \o b) = 2 /\ (a \o b)[1] = u /\ (a \o b)[2] = v
        <3>1. /\ a \o b \in Seq(S) /\ Len(a \o b) = Len(a) + Len(b)
              /\ \A i \in 1 .. Len(a) + Len(b) : (a \o b)[i] = IF i <= Len(a) THEN a[i] ELSE b[i - Len(a)]
            BY <1>3
        <3>2. 1 \in 1 .. Len(a) + Len(b) /\ 2 \in 1 .. Len(a) + Len(b)
            BY <1>2
        <3>3. (a \o b)[1] = a[1]
            BY <1>2, <3>1, <3>2
        <3>4. (a \o b)[2] = b[2 - 1]
            BY <1>2, <3>1, <3>2
        <3> QED BY <1>2, <3>1, <3>3, <3>4
    <2>2. \A i \in 1 .. 2 : (a \o b)[i] = c[i]
        BY <1>2, <2>1
    <2> QED BY <1>2, <1>3, <2>1, <2>2, SequencesEqual
<1> QED BY <1>1, <1>2, <1>4, <1>5 DEF a, b, c

\* It waits for a header, or for the rest of one that is complete.
Clean(p) == p.left = 0 /\ p.pad = 0 /\ Len(p.hdr) # 1 /\ ~p.bad

\* It has got n units of the stream s and is still in the same record.
Along(p, q, s, n) ==
    /\ q \in Peers /\ ~q.bad /\ q.hdr = p.hdr /\ q.pad = p.pad /\ q.left = p.left - n
    /\ q.ended = p.ended /\ q.shown[s] = p.shown[s] + n
    /\ \A x \in Streams \ {s} : q.shown[x] = p.shown[x]

\* It has got a header.
InHead(p, q, type, id, len, pad) ==
    /\ q \in Peers /\ ~q.bad /\ Len(q.hdr) = 2 /\ q.hdr[1] = <<"type", type, id>>
    /\ q.left = len /\ q.pad = pad /\ q.shown = p.shown /\ q.ended = p.ended

LEMMA HeaderSeen ==
    ASSUME NEW p \in Peers, Clean(p), ~p.ended, NEW type \in Types \cup {"result"}, NEW id \in Nat,
           NEW len \in Nat, NEW pad \in Nat
    PROVE  /\ Header(type, id, len, pad) \in Seq(PeerUnit)
           /\ InHead(p, Sees(p, Header(type, id, len, pad)), type, id, len, pad)
<1> DEFINE u == <<"type", type, id>>
           v == <<"len", len, pad>>
           q == Gets(p, u)
           r == Gets(q, v)
<1>1. u \in PeerUnit /\ v \in PeerUnit
    BY DEF PeerUnit, OutUnit, Unit
<1>2. u[1] = "type" /\ v[1] = "len" /\ v[2] = len /\ v[3] = pad
    OBVIOUS
<1> HIDE DEF u, v
<1>3. p.left + p.pad = 0 /\ ~p.bad /\ p.bad = FALSE /\ p.ended = FALSE
    BY DEF Clean, Peers
<1>4. q = [p EXCEPT !.hdr = <<u>>, !.bad = p.bad \/ p.ended]
    BY <1>2, <1>3 DEF Gets, Between, Clean
<1>5. q \in Peers /\ r \in Peers
    BY <1>1, GetsIs
<1>6. ~q.bad /\ q.left = 0 /\ q.pad = 0 /\ q.hdr = <<u>> /\ q.shown = p.shown /\ q.ended = p.ended
    BY <1>3, <1>4 DEF Peers, Clean
<1>61. Len(q.hdr) = 1 /\ q.left + q.pad = 0
    BY <1>6
<1>7. r = [q EXCEPT !.hdr = Append(q.hdr, v), !.left = len, !.pad = pad]
    <2>1. Gets(q, v) = Between(q, v)
        BY <1>6, <1>61 DEF Gets
    <2> HIDE DEF q
    <2> QED BY <1>2, <1>61, <2>1 DEF Between
<1> HIDE DEF q, r
<1>8. /\ r.hdr = Append(q.hdr, v) /\ r.left = len /\ r.pad = pad /\ r.bad = q.bad
      /\ r.shown = q.shown /\ r.ended = q.ended
    BY <1>5, <1>7 DEF Peers
<1>9. /\ <<u>> \in Seq(PeerUnit) /\ <<v>> \in Seq(PeerUnit) /\ <<u, v>> \in Seq(PeerUnit)
      /\ <<u>> \o <<v>> = <<u, v>> /\ Append(<<u>>, v) = <<u, v>>
      /\ Len(<<u, v>>) = 2 /\ <<u, v>>[1] = u
    BY <1>1, PairIs
<1>10. r.hdr[1] = u /\ Len(r.hdr) = 2
    BY <1>6, <1>8, <1>9
<1>11. InHead(p, r, type, id, len, pad)
    BY <1>5, <1>6, <1>8, <1>10 DEF InHead, u
<1>13. Sees(p, <<u, v>>) = r
    <2>1. Sees(p, <<u>>) = q
        BY <1>1, SeesOne DEF q
    <2>2. Sees(q, <<v>>) = r
        BY <1>1, <1>5, SeesOne DEF r
    <2>3. Sees(p, <<u>> \o <<v>>) = Sees(Sees(p, <<u>>), <<v>>)
        BY <1>9, SeesMore
    <2> QED BY <1>9, <2>1, <2>2, <2>3
<1>14. Header(type, id, len, pad) = <<u, v>>
    BY DEF Header, u, v
<1> QED BY <1>9, <1>11, <1>13, <1>14

LEMMA DataUnit ==
    ASSUME NEW x \in Nat
    PROVE  /\ <<"data", x>> \in PeerUnit /\ <<"data", x>>[1] = "data" /\ <<"data", x>>[2] = x
           /\ <<"pad">> \in PeerUnit /\ <<"pad">>[1] = "pad"
BY DEF PeerUnit, OutUnit, Unit

\* A unit of a stream that comes when it should.
LEMMA DataSeen ==
    ASSUME NEW p \in Peers, ~p.bad, p.left > 0, NEW s \in Streams, p.hdr[1][2] = s
    PROVE  Along(p, Gets(p, <<"data", p.shown[s] + 1>>), s, 1)
<1> DEFINE x == p.shown[s] + 1
           u == <<"data", x>>
           q == Gets(p, u)
           m == [p EXCEPT !.left = p.left - 1]
<1>1. p.left \in Nat /\ p.pad \in Nat /\ p.shown \in [Streams -> Nat] /\ p.bad = FALSE /\ p.shown[s] \in Nat
    BY DEF Peers
<1>2. x \in Nat
    BY <1>1
<1>3. u \in PeerUnit /\ u[1] = "data" /\ u[2] = x
    BY <1>2, DataUnit
<1>4. q \in Peers
    BY <1>3, GetsIs
<1> HIDE DEF x, u
<1>5. /\ m.shown = p.shown /\ m.bad = FALSE /\ m.hdr = p.hdr /\ m.pad = p.pad /\ m.ended = p.ended
      /\ m.left = p.left - 1 /\ DOMAIN m = {"hdr", "left", "pad", "shown", "ended", "bad"}
    BY <1>1 DEF Peers
<1>6. q = [m EXCEPT !.shown[s] = @ + 1, !.bad = @ \/ u[2] # m.shown[s] + 1]
    <2>1. p.left + p.pad > 0
        BY <1>1
    <2> QED BY <1>3, <2>1 DEF Gets, InRecord, m
<1> HIDE DEF m, q
<1>7. q.left = m.left /\ q.hdr = m.hdr /\ q.pad = m.pad /\ q.ended = m.ended
    BY <1>5, <1>6
<1>8. q.shown = [p.shown EXCEPT ![s] = @ + 1]
    BY <1>5, <1>6
<1>9. ~q.bad
    <2>1. u[2] = m.shown[s] + 1
        BY <1>3, <1>5 DEF x
    <2> QED BY <1>5, <1>6, <2>1
<1>10. q.shown[s] = p.shown[s] + 1 /\ \A y \in Streams \ {s} : q.shown[y] = p.shown[y]
    BY <1>1, <1>8
<1>11. Along(p, q, s, 1)
    BY <1>4, <1>5, <1>7, <1>9, <1>10 DEF Along
<1> QED BY <1>11 DEF q, u, x

\* What it may have been told.
Ending(p) == p.hdr[1][2] = "end" /\ p.left = 1 /\ p.hdr[1][3] = 1

\* The content of a record that is not of a stream.
LEMMA OtherSeen ==
    ASSUME NEW p \in Peers, ~p.bad, p.left > 0, p.hdr[1][2] \notin Streams, NEW x \in Nat
    PROVE  LET q == Gets(p, <<"data", x>>) IN
           /\ q \in Peers /\ ~q.bad /\ q.hdr = p.hdr /\ q.pad = p.pad /\ q.left = p.left - 1
           /\ q.shown = p.shown /\ (q.ended <=> p.ended \/ Ending(p))
<1> DEFINE u == <<"data", x>>
           q == Gets(p, u)
           m == [p EXCEPT !.left = p.left - 1]
<1>1. p.left \in Nat /\ p.pad \in Nat /\ p.bad = FALSE
    BY DEF Peers
<1>2. u \in PeerUnit /\ u[1] = "data"
    BY DataUnit
<1>3. q \in Peers
    BY <1>2, GetsIs
<1> HIDE DEF u
<1>4. /\ m.shown = p.shown /\ m.bad = FALSE /\ m.hdr = p.hdr /\ m.pad = p.pad /\ m.ended = p.ended
      /\ m.left = p.left - 1 /\ DOMAIN m = {"hdr", "left", "pad", "shown", "ended", "bad"}
    BY <1>1 DEF Peers
<1>5. q = [m EXCEPT !.ended = @ \/ (p.hdr[1][2] = "end" /\ m.left = 0 /\ p.hdr[1][3] = 1)]
    <2>1. p.left + p.pad > 0
        BY <1>1
    <2> QED BY <1>2, <2>1 DEF Gets, InRecord, m
<1> HIDE DEF m, q
<1>6. q.left = m.left /\ q.hdr = m.hdr /\ q.pad = m.pad /\ q.shown = m.shown /\ q.bad = m.bad
    BY <1>4, <1>5
<1>7. m.left = 0 <=> p.left = 1
    BY <1>1, <1>4
<1>8. q.ended = (m.ended \/ (p.hdr[1][2] = "end" /\ m.left = 0 /\ p.hdr[1][3] = 1))
    BY <1>4, <1>5
<1>9. q.ended <=> p.ended \/ Ending(p)
    BY <1>4, <1>7, <1>8 DEF Ending
<1> QED BY <1>3, <1>4, <1>6, <1>9 DEF q, u

\* The padding of one unit.
LEMMA PadSeen ==
    ASSUME NEW p \in Peers, ~p.bad, p.left = 0, p.pad = 1
    PROVE  LET q == Gets(p, <<"pad">>) IN
           /\ q \in Peers /\ ~q.bad /\ q.hdr = p.hdr /\ q.pad = 0 /\ q.left = 0
           /\ q.shown = p.shown /\ q.ended = p.ended
<1> DEFINE u == <<"pad">>
           q == Gets(p, u)
<1>1. u \in PeerUnit /\ u[1] = "pad" /\ p.bad = FALSE
    <2>1. 0 \in Nat
        OBVIOUS
    <2> QED BY <2>1, DataUnit DEF Peers
<1>2. q \in Peers
    BY <1>1, GetsIs
<1> HIDE DEF u
<1>3. q = [p EXCEPT !.pad = p.pad - 1, !.bad = p.bad \/ u[1] # "pad"]
    <2>1. p.left + p.pad > 0 /\ ~(p.left > 0)
        OBVIOUS
    <2> QED BY <1>1, <2>1 DEF Gets, InRecord
<1> HIDE DEF q
<1>4. ~q.bad /\ q.hdr = p.hdr /\ q.pad = p.pad - 1 /\ q.left = p.left /\ q.shown = p.shown
      /\ q.ended = p.ended
    BY <1>1, <1>3 DEF Peers
<1> QED BY <1>2, <1>4 DEF q, u

-----------------------------------------------------------------------------
(* The content of the answer.                                              *)

LEMMA PartAt ==
    ASSUME NEW S, NEW s \in Seq(S), NEW n \in 0 .. Len(s)
    PROVE  /\ SubSeq(s, 1, n) \in Seq(S) /\ Len(SubSeq(s, 1, n)) = n
           /\ \A i \in 1 .. n : SubSeq(s, 1, n)[i] = s[i]
           /\ Rest(s, n) \in Seq(S) /\ Len(Rest(s, n)) = Len(s) - n
           /\ \A i \in 1 .. Len(s) - n : Rest(s, n)[i] = s[n + i]
<1>1. \A i \in 1 .. n : SubSeq(s, 1, n)[i] = s[i]
    OBVIOUS
<1> QED BY <1>1, FirstIs, RestOf

Numb(k, n) == Content(Numbered(k, n))

LEMMA AsPeer ==
    ASSUME NEW s \in Seq(OutUnit)
    PROVE  s \in Seq(PeerUnit)
<1>1. OutUnit \subseteq PeerUnit
    BY DEF PeerUnit
<1> QED BY <1>1

LEMMA NumbIs ==
    ASSUME NEW k \in Nat, NEW n \in Nat
    PROVE  /\ Numb(k, n) \in Seq(OutUnit) /\ Len(Numb(k, n)) = n /\ Numb(k, n) \in Seq(PeerUnit)
           /\ \A i \in 1 .. n : Numb(k, n)[i] = <<"data", k + i>>
<1> DEFINE d == Numbered(k, n)
<1>1. d \in Seq(Nat) /\ Len(d) = n /\ DOMAIN d = 1 .. n /\ \A i \in 1 .. n : d[i] = k + i
    BY DEF Numbered
<1> HIDE DEF d
<1>2. Content(d) \in Seq(OutUnit) /\ Len(Content(d)) = n
    BY <1>1, ContentIs
<1>3. \A i \in 1 .. n : Content(d)[i] = <<"data", k + i>>
    BY <1>1 DEF Content
<1> QED BY <1>2, <1>3, AsPeer DEF Numb, d

LEMMA NumbSplit ==
    ASSUME NEW k \in Nat, NEW n \in Nat, NEW m \in 0 .. n
    PROVE  SubSeq(Numb(k, n), 1, m) = Numb(k, m) /\ Rest(Numb(k, n), m) = Numb(k + m, n - m)
<1> DEFINE a == Numb(k, n)
           b == Numb(k, m)
           c == Numb(k + m, n - m)
<1>1. m \in Nat /\ n - m \in Nat /\ k + m \in Nat
    OBVIOUS
<1>2. /\ a \in Seq(OutUnit) /\ Len(a) = n /\ \A i \in 1 .. n : a[i] = <<"data", k + i>>
      /\ b \in Seq(OutUnit) /\ Len(b) = m /\ \A i \in 1 .. m : b[i] = <<"data", k + i>>
      /\ c \in Seq(OutUnit) /\ Len(c) = n - m /\ \A i \in 1 .. n - m : c[i] = <<"data", (k + m) + i>>
    BY <1>1, NumbIs
<1> HIDE DEF a, b, c
<1>3. m \in 0 .. Len(a)
    BY <1>2
<1>4. /\ SubSeq(a, 1, m) \in Seq(OutUnit) /\ Len(SubSeq(a, 1, m)) = m
      /\ \A i \in 1 .. m : SubSeq(a, 1, m)[i] = a[i]
      /\ Rest(a, m) \in Seq(OutUnit) /\ Len(Rest(a, m)) = Len(a) - m
      /\ \A i \in 1 .. Len(a) - m : Rest(a, m)[i] = a[m + i]
    BY <1>2, <1>3, PartAt
<1>5. SubSeq(a, 1, m) = b
    <2>1. \A i \in 1 .. m : i \in 1 .. n
        OBVIOUS
    <2>2. \A i \in 1 .. m : SubSeq(a, 1, m)[i] = b[i]
        BY <1>2, <1>4, <2>1
    <2> QED BY <1>2, <1>4, <2>2, SequencesEqual
<1>6. Rest(a, m) = c
    <2>1. \A i \in 1 .. n - m : m + i \in 1 .. n /\ k + (m + i) = (k + m) + i
        OBVIOUS
    <2>2. ASSUME NEW i \in 1 .. n - m PROVE Rest(a, m)[i] = c[i]
        <3>1. Rest(a, m)[i] = a[m + i] /\ m + i \in 1 .. n
            BY <1>2, <1>4, <2>1
        <3>2. a[m + i] = <<"data", k + (m + i)>>
            BY <1>2, <3>1
        <3> QED BY <1>2, <2>1, <3>1, <3>2
    <2> QED BY <1>2, <1>4, <2>2, SequencesEqual
<1> QED BY <1>5, <1>6 DEF a, b, c

LEMMA NumbJoin ==
    ASSUME NEW k \in Nat, NEW m \in Nat, NEW n \in Nat
    PROVE  Numb(k, m) \o Numb(k + m, n) = Numb(k, m + n)
<1> DEFINE a == Numb(k, m)
           b == Numb(k + m, n)
           c == Numb(k, m + n)
<1>1. m + n \in Nat /\ k + m \in Nat
    OBVIOUS
<1>2. /\ a \in Seq(OutUnit) /\ Len(a) = m /\ \A i \in 1 .. m : a[i] = <<"data", k + i>>
      /\ b \in Seq(OutUnit) /\ Len(b) = n /\ \A i \in 1 .. n : b[i] = <<"data", (k + m) + i>>
      /\ c \in Seq(OutUnit) /\ Len(c) = m + n /\ \A i \in 1 .. m + n : c[i] = <<"data", k + i>>
    BY <1>1, NumbIs
<1> HIDE DEF a, b, c
<1>3. /\ a \o b \in Seq(OutUnit) /\ Len(a \o b) = m + n
      /\ \A i \in 1 .. m : (a \o b)[i] = a[i]
      /\ \A i \in 1 .. n : (a \o b)[m + i] = b[i]
    <2>1. a \in Seq(OutUnit) /\ b \in Seq(OutUnit)
        BY <1>2
    <2>2. /\ a \o b \in Seq(OutUnit) /\ Len(a \o b) = Len(a) + Len(b)
          /\ \A i \in 1 .. Len(a) : (a \o b)[i] = a[i]
          /\ \A i \in 1 .. Len(b) : (a \o b)[Len(a) + i] = b[i]
        BY <2>1, JoinAt
    <2>3. Len(a) = m /\ Len(b) = n
        BY <1>2
    <2> QED BY <2>2, <2>3
<1>4. ASSUME NEW i \in 1 .. m + n PROVE (a \o b)[i] = c[i]
    <2>1. CASE i <= m
        <3>1. i \in 1 .. m
            BY <2>1
        <3> QED BY <1>2, <1>3, <3>1
    <2>2. CASE i > m
        <3>1. i - m \in 1 .. n /\ m + (i - m) = i /\ (k + m) + (i - m) = k + i
            BY <2>2
        <3>2. (a \o b)[m + (i - m)] = b[i - m]
            BY <1>3, <3>1
        <3>3. b[i - m] = <<"data", (k + m) + (i - m)>> /\ c[i] = <<"data", k + i>>
            BY <1>2, <3>1
        <3> QED BY <3>1, <3>2, <3>3
    <2>3. i <= m \/ i > m
        OBVIOUS
    <2> QED BY <2>1, <2>2, <2>3
<1>5. a \o b = c
    BY <1>2, <1>3, <1>4, SequencesEqual
<1> QED BY <1>5 DEF a, b, c

LEMMA NumbOne ==
    ASSUME NEW k \in Nat
    PROVE  Numb(k, 1) = << <<"data", k + 1>> >> /\ Numb(k, 0) = <<>>
<1> DEFINE a == Numb(k, 1)
           b == Numb(k, 0)
<1>1. 1 \in Nat /\ 0 \in Nat /\ 1 \in 1 .. 1
    OBVIOUS
<1>2. a \in Seq(OutUnit) /\ Len(a) = 1 /\ a[1] = <<"data", k + 1>>
    BY <1>1, NumbIs
<1>3. b \in Seq(OutUnit) /\ Len(b) = 0
    BY <1>1, NumbIs
<1> HIDE DEF a, b
<1>4. b = <<>>
    BY <1>3
<1>5. PICK u : u = <<"data", k + 1>>
    OBVIOUS
<1>6. a = <<u>>
    BY <1>2, <1>5
<1> QED BY <1>4, <1>5, <1>6 DEF a, b

\* The units of a stream, one after the other.
LEMMA ContentSeen ==
    ASSUME NEW p \in Peers, ~p.bad, NEW s \in Streams, p.hdr[1][2] = s, NEW c \in 0 .. p.left
    PROVE  Along(p, Sees(p, Numb(p.shown[s], c)), s, c)
<1> DEFINE k == p.shown[s]
           T == {n \in 0 .. c : Along(p, Sees(p, Numb(k, n)), s, n)}
<1>1. k \in Nat /\ c \in Nat /\ p.left \in Nat /\ p.shown \in [Streams -> Nat]
    BY DEF Peers
<1>2. 0 \in T
    <2>1. Sees(p, Numb(k, 0)) = p
        BY <1>1, NumbOne, SeesNothing
    <2>2. Along(p, p, s, 0)
        BY <1>1 DEF Along
    <2> QED BY <1>1, <2>1, <2>2
<1> HIDE DEF k
<1>3. ASSUME NEW n \in 0 .. c - 1, n \in T PROVE n + 1 \in T
    <2> DEFINE q == Sees(p, Numb(k, n))
               r == Gets(q, <<"data", k + n + 1>>)
    <2>1. Along(p, q, s, n) /\ n \in Nat /\ n + 1 \in 0 .. c
        BY <1>1, <1>3
    <2>2. Sees(p, Numb(k, n + 1)) = r
        <3>1. /\ Numb(k, n) \in Seq(PeerUnit) /\ Numb(k + n, 1) \in Seq(PeerUnit)
              /\ Numb(k, n + 1) = Numb(k, n) \o Numb(k + n, 1)
            <4>1. n \in Nat /\ 1 \in Nat /\ k + n \in Nat
                BY <1>1, <2>1
            <4>2. Numb(k, n) \in Seq(PeerUnit) /\ Numb(k + n, 1) \in Seq(PeerUnit)
                BY <1>1, <4>1, NumbIs
            <4>3. Numb(k, n) \o Numb(k + n, 1) = Numb(k, n + 1)
                BY <1>1, <4>1, NumbJoin
            <4> QED BY <4>2, <4>3
        <3>2. Sees(p, Numb(k, n + 1)) = Sees(q, Numb(k + n, 1))
            <4>1. Sees(p, Numb(k, n) \o Numb(k + n, 1)) = Sees(Sees(p, Numb(k, n)), Numb(k + n, 1))
                BY <3>1, SeesMore
            <4> QED BY <3>1, <4>1
        <3>3. k + n \in Nat /\ k + n + 1 \in Nat /\ (k + n) + 1 = k + n + 1
            BY <1>1, <2>1
        <3>4. Numb(k + n, 1) = << <<"data", k + n + 1>> >>
            BY <3>3, NumbOne
        <3>5. <<"data", k + n + 1>> \in PeerUnit /\ q \in Peers
            BY <2>1, <3>3, DataUnit DEF Along
        <3> HIDE DEF q
        <3>6. Sees(q, << <<"data", k + n + 1>> >>) = r
            BY <3>5, SeesOne
        <3> QED BY <3>2, <3>4, <3>6
    <2> HIDE DEF q
    <2>3. Along(q, r, s, 1)
        <3>1. /\ q \in Peers /\ ~q.bad /\ q.left > 0 /\ q.hdr[1][2] = s /\ q.shown[s] = k + n
            BY <1>1, <2>1 DEF Along, k
        <3> QED BY <3>1, DataSeen
    <2> HIDE DEF r
    <2>4. /\ r \in Peers /\ ~r.bad /\ r.hdr = p.hdr /\ r.pad = p.pad /\ r.ended = p.ended
          /\ r.left = (p.left - n) - 1 /\ r.shown[s] = (p.shown[s] + n) + 1
          /\ \A x \in Streams \ {s} : r.shown[x] = p.shown[x]
        BY <2>1, <2>3 DEF Along
    <2>5. (p.left - n) - 1 = p.left - (n + 1) /\ (p.shown[s] + n) + 1 = p.shown[s] + (n + 1)
        BY <1>1, <2>1 DEF k
    <2>6. Along(p, r, s, n + 1)
        BY <2>4, <2>5 DEF Along
    <2> QED BY <2>1, <2>2, <2>6
<1> HIDE DEF T
<1>4. 0 .. c \subseteq T
    BY <1>1, <1>2, <1>3, InductionUpTo
<1>5. c \in T
    BY <1>1, <1>4
<1> QED BY <1>5 DEF T, k

-----------------------------------------------------------------------------
\* The answer has gone on by n units of s, and has it ended?
Told(p, q, s, n, e) ==
    /\ q \in Peers /\ Clean(q) /\ (q.ended <=> e) /\ q.shown[s] = p.shown[s] + n
    /\ \A x \in Streams \ {s} : q.shown[x] = p.shown[x]

LEMMA PadUnits == Padding(0) = <<>> /\ Padding(1) = << <<"pad">> >>
<1> DEFINE a == Padding(0)
           b == Padding(1)
<1>1. 1 \in Nat /\ 0 \in Nat /\ 1 \in 1 .. 1
    OBVIOUS
<1>2. a \in Seq(OutUnit) /\ Len(a) = 0 /\ b \in Seq(OutUnit) /\ Len(b) = 1
    BY <1>1, PaddingIs
<1>3. b[1] = <<"pad">>
    BY <1>1 DEF Padding
<1> HIDE DEF a, b
<1>4. a = <<>> /\ b = << <<"pad">> >>
    BY <1>2, <1>3
<1> QED BY <1>4 DEF a, b

\* A record of a stream.
LEMMA RecordSeen ==
    ASSUME NEW p \in Peers, Clean(p), ~p.ended, NEW s \in Streams, NEW id \in Nat, NEW c \in Nat,
           NEW n \in {0, 1}
    PROVE  Told(p, Sees(p, (Header(s, id, c, n) \o Numb(p.shown[s], c)) \o Padding(n)), s, c, FALSE)
<1> DEFINE h == Header(s, id, c, n)
           d == Numb(p.shown[s], c)
           a == Padding(n)
           q == Sees(p, h)
           r == Sees(q, d)
           z == Sees(r, a)
<1>1. s \in Types /\ p.shown[s] \in Nat /\ n \in Nat /\ p.shown \in [Streams -> Nat]
    BY DEF Peers, Types
<1>2. h \in Seq(PeerUnit) /\ InHead(p, q, s, id, c, n)
    BY <1>1, HeaderSeen
<1>3. d \in Seq(PeerUnit) /\ a \in Seq(PeerUnit)
    BY <1>1, NumbIs, PaddingIs, AsPeer
<1>4. Along(q, r, s, c)
    <2> HIDE DEF q
    <2>1. /\ q \in Peers /\ ~q.bad /\ q.hdr[1][2] = s /\ q.left = c /\ q.shown[s] = p.shown[s]
          /\ c \in 0 .. q.left
        BY <1>2 DEF InHead
    <2>2. Along(q, Sees(q, Numb(q.shown[s], c)), s, c)
        BY <2>1, ContentSeen
    <2> QED BY <2>1, <2>2
<1>5. Sees(p, (h \o d) \o a) = z
    <2> HIDE DEF h, d, a
    <2>1. h \o d \in Seq(PeerUnit)
        BY <1>2, <1>3
    <2>2. Sees(p, (h \o d) \o a) = Sees(Sees(p, h \o d), a)
        BY <1>3, <2>1, SeesMore
    <2>3. Sees(p, h \o d) = r
        BY <1>2, <1>3, SeesMore
    <2> QED BY <2>2, <2>3
<1> HIDE DEF q, r, h, d
<1>6. /\ r \in Peers /\ ~r.bad /\ Len(r.hdr) = 2 /\ r.pad = n /\ r.left = 0 /\ r.ended = p.ended
      /\ r.shown[s] = p.shown[s] + c /\ \A x \in Streams \ {s} : r.shown[x] = p.shown[x]
    <2>1. c - c = 0
        OBVIOUS
    <2> QED BY <1>2, <1>4, <2>1 DEF InHead, Along
<1>7. /\ z \in Peers /\ ~z.bad /\ z.hdr = r.hdr /\ z.pad = 0 /\ z.left = 0 /\ z.ended = r.ended
      /\ z.shown = r.shown
    <2>1. CASE n = 0
        <3>1. z = r
            BY <1>6, <2>1, PadUnits, SeesNothing
        <3> QED BY <1>6, <2>1, <3>1
    <2>2. CASE n = 1
        <3>1. <<"pad">> \in PeerUnit
            <4>1. 0 \in Nat
                OBVIOUS
            <4> QED BY <4>1, DataUnit
        <3>2. z = Gets(r, <<"pad">>)
            BY <1>6, <2>2, <3>1, PadUnits, SeesOne
        <3> QED BY <1>6, <2>2, <3>2, PadSeen
    <2> QED BY <2>1, <2>2
<1> HIDE DEF z
<1>8. Told(p, z, s, c, FALSE)
    BY <1>6, <1>7 DEF Told, Clean
<1> QED BY <1>5, <1>8 DEF h, d, a

LEMMA TwoUnits ==
    ASSUME NEW x \in Nat, NEW y \in Nat
    PROVE  Content(<<x, y>>) = << <<"data", x>> >> \o << <<"data", y>> >>
<1> DEFINE u == <<"data", x>>
           v == <<"data", y>>
<1>1. u \in PeerUnit /\ v \in PeerUnit
    BY DataUnit
<1>2. Content(<<x, y>>) = <<u, v>>
    BY DEF Content
<1> HIDE DEF u, v
<1>3. <<u>> \o <<v>> = <<u, v>>
    BY <1>1, PairIs
<1> QED BY <1>2, <1>3 DEF u, v

\* A record of the library's own.
LEMMA ShortSeen ==
    ASSUME NEW p \in Peers, Clean(p), ~p.ended, NEW type \in {"end", "result"}, NEW id \in Nat,
           NEW x \in Nat, NEW y \in Nat, NEW s \in Streams
    PROVE  /\ Header(type, id, 2, 0) \o Content(<<x, y>>) \in Seq(PeerUnit)
           /\ Told(p, Sees(p, Header(type, id, 2, 0) \o Content(<<x, y>>)), s, 0,
                   type = "end" /\ id = 1)
<1> DEFINE h == Header(type, id, 2, 0)
           u == <<"data", x>>
           v == <<"data", y>>
           q == Sees(p, h)
           r == Gets(q, u)
           z == Gets(r, v)
<1>1. type \in Types \cup {"result"} /\ 2 \in Nat /\ 0 \in Nat /\ type \notin Streams
    BY DEF Types, Streams
<1>2. h \in Seq(PeerUnit) /\ InHead(p, q, type, id, 2, 0)
    BY <1>1, HeaderSeen
<1>3. u \in PeerUnit /\ v \in PeerUnit
    BY DataUnit
<1> HIDE DEF h, q
<1>4. q \in Peers /\ ~q.bad /\ q.left = 2 /\ q.pad = 0 /\ Len(q.hdr) = 2 /\ q.shown = p.shown /\ ~q.ended
      /\ q.hdr[1] = <<"type", type, id>>
    BY <1>2 DEF InHead
<1>5. q.hdr[1][2] = type /\ q.hdr[1][3] = id /\ q.left > 0
    BY <1>4
<1>6. /\ r \in Peers /\ ~r.bad /\ r.hdr = q.hdr /\ r.pad = 0 /\ r.left = 1 /\ r.shown = p.shown
      /\ ~r.ended
    <2>1. /\ r \in Peers /\ ~r.bad /\ r.hdr = q.hdr /\ r.pad = q.pad /\ r.left = q.left - 1
          /\ r.shown = q.shown /\ (r.ended <=> q.ended \/ Ending(q))
        BY <1>1, <1>4, <1>5, OtherSeen
    <2>2. ~Ending(q)
        BY <1>4 DEF Ending
    <2> QED BY <1>4, <2>1, <2>2
<1> HIDE DEF r
<1>7. /\ z \in Peers /\ ~z.bad /\ z.hdr = q.hdr /\ z.pad = 0 /\ z.left = 0 /\ z.shown = p.shown
      /\ (z.ended <=> type = "end" /\ id = 1)
    <2>1. r.left > 0 /\ r.hdr[1][2] \notin Streams
        BY <1>1, <1>5, <1>6
    <2>2. /\ z \in Peers /\ ~z.bad /\ z.hdr = r.hdr /\ z.pad = r.pad /\ z.left = r.left - 1
          /\ z.shown = r.shown /\ (z.ended <=> r.ended \/ Ending(r))
        BY <1>6, <2>1, OtherSeen
    <2>3. Ending(r) <=> type = "end" /\ id = 1
        BY <1>5, <1>6 DEF Ending
    <2> QED BY <1>6, <2>2, <2>3
<1> HIDE DEF z
<1>8. Told(p, z, s, 0, type = "end" /\ id = 1)
    <2>1. p.shown[s] + 0 = p.shown[s]
        <3>1. p.shown \in [Streams -> Nat]
            BY DEF Peers
        <3> QED BY <3>1
    <2> QED BY <1>4, <1>7, <2>1 DEF Told, Clean
<1>9. Sees(p, h \o (<<u>> \o <<v>>)) = z /\ h \o (<<u>> \o <<v>>) \in Seq(PeerUnit)
    <2>1. <<u>> \in Seq(PeerUnit) /\ <<v>> \in Seq(PeerUnit) /\ <<u>> \o <<v>> \in Seq(PeerUnit)
        BY <1>3
    <2>2. Sees(p, h \o (<<u>> \o <<v>>)) = Sees(q, <<u>> \o <<v>>)
        BY <1>2, <2>1, SeesMore DEF q
    <2>3. Sees(q, <<u>> \o <<v>>) = Sees(Sees(q, <<u>>), <<v>>)
        BY <1>4, <2>1, SeesMore
    <2>4. Sees(q, <<u>>) = r
        BY <1>3, <1>4, SeesOne DEF r
    <2>5. Sees(r, <<v>>) = z
        BY <1>3, <1>6, SeesOne DEF z
    <2> QED BY <1>2, <2>1, <2>2, <2>3, <2>4, <2>5
<1>10. Content(<<x, y>>) = <<u>> \o <<v>>
    BY TwoUnits
<1> QED BY <1>8, <1>9, <1>10 DEF h

\* A record without content.
LEMMA EmptySeen ==
    ASSUME NEW p \in Peers, Clean(p), ~p.ended, NEW type \in Types, NEW id \in Nat, NEW s \in Streams
    PROVE  /\ Header(type, id, 0, 0) \in Seq(PeerUnit)
           /\ Told(p, Sees(p, Header(type, id, 0, 0)), s, 0, FALSE)
<1> DEFINE h == Header(type, id, 0, 0)
           q == Sees(p, h)
<1>1. 0 \in Nat
    OBVIOUS
<1>2. h \in Seq(PeerUnit) /\ InHead(p, q, type, id, 0, 0)
    BY <1>1, HeaderSeen
<1> HIDE DEF q, h
<1>3. p.shown[s] + 0 = p.shown[s]
    <2>1. p.shown \in [Streams -> Nat]
        BY DEF Peers
    <2> QED BY <2>1
<1>4. Told(p, q, s, 0, FALSE)
    BY <1>2, <1>3 DEF InHead, Told, Clean
<1> QED BY <1>2, <1>4 DEF q, h

-----------------------------------------------------------------------------
(* What it has got it keeps.                                               *)

\* Content belongs to a header, and nothing follows the end.
Done(p) == /\ p.left + p.pad > 0 => Len(p.hdr) = 2
           /\ p.ended => p.bad \/ (p.left = 0 /\ Len(p.hdr) # 1)
Grows(p, q) == /\ p.bad => q.bad
               /\ p.ended => q.ended
               /\ Done(p) => Done(q)
               /\ \A s \in Streams : p.shown[s] <= q.shown[s]

LEMMA GetsGrows ==
    ASSUME NEW p \in Peers, NEW u \in PeerUnit
    PROVE  Grows(p, Gets(p, u))
<1> DEFINE r == Gets(p, u)
<1>1. /\ p.left \in Nat /\ p.pad \in Nat /\ p.hdr \in Seq(PeerUnit) /\ p.shown \in [Streams -> Nat]
      /\ p.bad \in BOOLEAN /\ p.ended \in BOOLEAN
    BY DEF Peers
<1>2. r \in Peers
    BY GetsIs
<1>3. ASSUME NEW f \in [Streams -> Nat], f = p.shown PROVE \A s \in Streams : p.shown[s] <= f[s]
    BY <1>3
<1>4. CASE p.bad
    <2>1. r = p
        BY <1>4 DEF Gets
    <2> QED BY <1>1, <1>3, <2>1 DEF Grows
<1>5. CASE ~p.bad /\ p.left > 0
    <2> DEFINE q == [p EXCEPT !.left = p.left - 1]
               s == p.hdr[1][2]
    <2>1. /\ q.shown = p.shown /\ q.bad = p.bad /\ q.ended = p.ended /\ q.hdr = p.hdr
          /\ q.left = p.left - 1 /\ q.pad = p.pad
          /\ DOMAIN q = {"hdr", "left", "pad", "shown", "ended", "bad"}
        BY DEF Peers
    <2>2. \/ r = [q EXCEPT !.bad = TRUE]
          \/ s \in Streams /\ r = [q EXCEPT !.shown[s] = @ + 1, !.bad = @ \/ u[2] # q.shown[s] + 1]
          \/ r = [q EXCEPT !.ended = @ \/ (s = "end" /\ q.left = 0 /\ p.hdr[1][3] = 1)]
        <3>1. p.left + p.pad > 0
            BY <1>1, <1>5
        <3> QED BY <1>5, <3>1 DEF Gets, InRecord
    <2> HIDE DEF q, s, r
    <2>3. r.hdr = p.hdr /\ r.pad = p.pad /\ r.left = p.left - 1
        BY <2>1, <2>2
    <2>4. p.ended => r.ended
        BY <2>1, <2>2
    <2>5. \A x \in Streams : p.shown[x] <= r.shown[x]
        <3>1. r.shown = p.shown \/ (s \in Streams /\ r.shown = [p.shown EXCEPT ![s] = @ + 1])
            BY <2>1, <2>2
        <3> QED BY <1>1, <3>1
    <2>6. Done(p) => Done(r)
        <3>1. SUFFICES ASSUME Done(p) PROVE Done(r)
            OBVIOUS
        <3>2. Len(p.hdr) = 2 /\ ~p.ended
            BY <1>1, <1>5, <3>1 DEF Done
        <3>3. r.ended => r.left = 0
            BY <2>1, <2>2, <3>2
        <3> QED BY <2>3, <3>2, <3>3 DEF Done
    <2> QED BY <1>5, <2>4, <2>5, <2>6 DEF Grows, r
<1>6. CASE ~p.bad /\ p.left = 0 /\ p.pad > 0
    <2>1. r = [p EXCEPT !.pad = @ - 1, !.bad = @ \/ u[1] # "pad"]
        <3>1. p.left + p.pad > 0 /\ ~(p.left > 0)
            BY <1>1, <1>6
        <3> QED BY <1>6, <3>1 DEF Gets, InRecord
    <2> HIDE DEF r
    <2>2. r.hdr = p.hdr /\ r.pad = p.pad - 1 /\ r.left = p.left /\ r.shown = p.shown /\ r.ended = p.ended
        BY <2>1 DEF Peers
    <2>3. Done(p) => Done(r)
        <3>1. p.left + p.pad > 0
            BY <1>1, <1>6
        <3> QED BY <1>6, <2>2, <3>1 DEF Done
    <2> QED BY <1>1, <1>2, <1>3, <1>6, <2>2, <2>3 DEF Grows, r
<1>7. CASE ~p.bad /\ p.left = 0 /\ p.pad = 0
    <2>1. r = Between(p, u)
        BY <1>7 DEF Gets
    <2>2. \/ u[1] = "type" /\ Len(p.hdr) # 1 /\ r = [p EXCEPT !.hdr = <<u>>, !.bad = @ \/ p.ended]
          \/ /\ u[1] = "len" /\ Len(p.hdr) = 1
             /\ r = [p EXCEPT !.hdr = Append(@, u), !.left = u[2], !.pad = u[3]]
          \/ r = [p EXCEPT !.bad = TRUE]
        BY <2>1 DEF Between
    <2> HIDE DEF r
    <2>3. r.shown = p.shown /\ r.ended = p.ended
        BY <2>2 DEF Peers
    <2>4. Done(p) => Done(r)
        <3>1. CASE r = [p EXCEPT !.bad = TRUE]
            <4>1. r.bad /\ r.hdr = p.hdr /\ r.left = p.left /\ r.pad = p.pad
                BY <3>1 DEF Peers
            <4> QED BY <4>1 DEF Done
        <3>2. CASE r = [p EXCEPT !.hdr = <<u>>, !.bad = @ \/ p.ended]
            <4>1. r.bad = (p.bad \/ p.ended) /\ r.left = p.left /\ r.pad = p.pad
                BY <3>2 DEF Peers
            <4>2. r.left + r.pad = 0
                BY <1>7, <4>1
            <4>3. ~(r.left + r.pad > 0)
                BY <4>2
            <4>4. r.ended => r.bad
                BY <2>3, <4>1
            <4> QED BY <4>3, <4>4 DEF Done
        <3>3. CASE /\ Len(p.hdr) = 1
                   /\ r = [p EXCEPT !.hdr = Append(@, u), !.left = u[2], !.pad = u[3]]
            <4>1. r.hdr = Append(p.hdr, u) /\ r.bad = p.bad
                BY <3>3 DEF Peers
            <4>2. Len(r.hdr) = 2
                <5>1. \A h \in Seq(PeerUnit) : Len(Append(h, u)) = Len(h) + 1
                    OBVIOUS
                <5>2. Len(Append(p.hdr, u)) = Len(p.hdr) + 1
                    BY <1>1, <5>1
                <5> QED BY <3>3, <4>1, <5>2
            <4>3. Done(p) => ~p.ended
                BY <1>7, <3>3 DEF Done
            <4> QED BY <2>3, <4>2, <4>3 DEF Done
        <3> QED BY <2>2, <3>1, <3>2, <3>3
    <2> QED BY <1>1, <1>3, <1>7, <2>3, <2>4 DEF Grows, r
<1>8. p.left > 0 \/ (p.left = 0 /\ p.pad > 0) \/ (p.left = 0 /\ p.pad = 0)
    BY <1>1
<1> QED BY <1>4, <1>5, <1>6, <1>7, <1>8

LEMMA GrowsOn ==
    ASSUME NEW p \in Peers, NEW q \in Peers, NEW r \in Peers, Grows(p, q), Grows(q, r)
    PROVE  Grows(p, r)
<1>1. p.shown \in [Streams -> Nat] /\ q.shown \in [Streams -> Nat] /\ r.shown \in [Streams -> Nat]
    BY DEF Peers
<1>2. \A s \in Streams : p.shown[s] <= r.shown[s]
    <2>1. ASSUME NEW s \in Streams PROVE p.shown[s] <= r.shown[s]
        <3>1. p.shown[s] \in Nat /\ q.shown[s] \in Nat /\ r.shown[s] \in Nat
            BY <1>1
        <3>2. p.shown[s] <= q.shown[s] /\ q.shown[s] <= r.shown[s]
            BY DEF Grows
        <3> QED BY <3>1, <3>2
    <2> QED BY <2>1
<1> QED BY <1>2 DEF Grows

LEMMA SeesGrows ==
    ASSUME NEW p \in Peers, NEW s \in Seq(PeerUnit)
    PROVE  Grows(p, Sees(p, s))
<1> DEFINE T == {n \in 0 .. Len(s) : Grows(p, Sees(p, SubSeq(s, 1, n)))}
<1>1. Len(s) \in Nat /\ SubSeq(s, 1, Len(s)) = s /\ SubSeq(s, 1, 0) = <<>>
    OBVIOUS
<1>2. 0 \in T
    <2>1. Sees(p, SubSeq(s, 1, 0)) = p
        BY <1>1, SeesNothing
    <2>2. Grows(p, p)
        <3>1. p.shown \in [Streams -> Nat]
            BY DEF Peers
        <3> QED BY <3>1 DEF Grows
    <2> QED BY <1>1, <2>1, <2>2
<1>3. ASSUME NEW n \in 0 .. Len(s) - 1, n \in T PROVE n + 1 \in T
    <2> DEFINE a == SubSeq(s, 1, n)
               u == s[n + 1]
               q == Sees(p, a)
    <2>1. n \in 0 .. Len(s) /\ n + 1 \in 0 .. Len(s) /\ n + 1 \in 1 .. Len(s)
        BY <1>1
    <2>2. a \in Seq(PeerUnit) /\ u \in PeerUnit /\ <<u>> \in Seq(PeerUnit)
        <3>1. a \in Seq(PeerUnit)
            BY <2>1, FirstIs
        <3>2. u \in PeerUnit
            BY <2>1
        <3> QED BY <3>1, <3>2
    <2>3. SubSeq(s, 1, n + 1) = a \o <<u>>
        OBVIOUS
    <2> HIDE DEF a, u
    <2>4. q \in Peers /\ Sees(p, a \o <<u>>) = Sees(q, <<u>>)
        BY <2>2, SeesIs, SeesMore
    <2>5. Grows(p, q)
        BY <1>3 DEF a
    <2> HIDE DEF q
    <2>6. Sees(q, <<u>>) = Gets(q, u) /\ Gets(q, u) \in Peers /\ Grows(q, Gets(q, u))
        BY <2>2, <2>4, SeesOne, GetsIs, GetsGrows
    <2>7. Grows(p, Gets(q, u))
        BY <2>4, <2>5, <2>6, GrowsOn
    <2> QED BY <2>1, <2>3, <2>4, <2>6, <2>7
<1> HIDE DEF T
<1>4. 0 .. Len(s) \subseteq T
    BY <1>1, <1>2, <1>3, InductionUpTo
<1>5. Len(s) \in T
    BY <1>1, <1>4
<1> QED BY <1>1, <1>5 DEF T

\* Content after the end is wrong.
LEMMA EndIsLast ==
    ASSUME NEW p \in Peers, Done(p), p.ended, NEW c \in Seq(PeerUnit), c # <<>>,
           c[Len(c)][1] = "data"
    PROVE  Sees(p, c).bad
<1> DEFINE n == Len(c) - 1
           a == SubSeq(c, 1, n)
           u == c[Len(c)]
           q == Sees(p, a)
<1>1. /\ n \in 0 .. Len(c) /\ a \in Seq(PeerUnit) /\ u \in PeerUnit /\ <<u>> \in Seq(PeerUnit)
      /\ c = a \o <<u>>
    <2>1. Len(c) \in Nat /\ Len(c) > 0
        OBVIOUS
    <2>2. n \in 0 .. Len(c) /\ Len(c) \in 1 .. Len(c) /\ n \in 0 .. Len(c) - 1 /\ n + 1 = Len(c)
        BY <2>1
    <2>3. a \in Seq(PeerUnit)
        BY <2>2, FirstIs
    <2>4. u \in PeerUnit
        BY <2>2
    <2>5. SubSeq(c, 1, Len(c)) = c
        OBVIOUS
    <2> HIDE DEF n
    <2>6. SubSeq(c, 1, n + 1) = a \o <<c[n + 1]>>
        BY <2>2
    <2> QED BY <2>2, <2>3, <2>4, <2>5, <2>6
<1>2. u[1] = "data"
    OBVIOUS
<1> HIDE DEF n, a, u
<1>3. q \in Peers /\ Grows(p, q)
    BY <1>1, SeesIs, SeesGrows
<1>4. Sees(p, c) = Gets(q, u)
    BY <1>1, <1>3, SeesMore, SeesOne
<1> HIDE DEF q
<1>5. q.ended /\ Done(q) /\ q.left \in Nat /\ q.pad \in Nat
    BY <1>3 DEF Grows, Peers
<1>6. Gets(q, u).bad
    <2>1. CASE q.bad
        BY <2>1 DEF Gets
    <2>2. CASE ~q.bad /\ q.pad > 0
        <3>1. q.left = 0 /\ q.left + q.pad > 0 /\ ~(q.left > 0)
            BY <1>5, <2>2 DEF Done
        <3>2. Gets(q, u) = [q EXCEPT !.pad = @ - 1, !.bad = @ \/ u[1] # "pad"]
            BY <2>2, <3>1 DEF Gets, InRecord
        <3> QED BY <1>2, <1>3, <3>2 DEF Peers
    <2>3. CASE ~q.bad /\ q.pad = 0
        <3>1. q.left = 0 /\ ~(q.left + q.pad > 0)
            BY <1>5, <2>3 DEF Done
        <3>2. Gets(q, u) = [q EXCEPT !.bad = TRUE]
            BY <1>2, <2>3, <3>1 DEF Gets, Between
        <3> QED BY <1>3, <3>2 DEF Peers
    <2> QED BY <1>5, <2>1, <2>2, <2>3
<1> QED BY <1>4, <1>6

-----------------------------------------------------------------------------
(* What holds of the writers and of what the web server has got.           *)

\* Of a stream of which the web server has got k units, and the application has handed
\* over h, those after k are in the buffer of its writer o, and then in t.
Filled(o, k, h, t) ==
    /\ ~o.raw
    /\ \E n, m \in Nat : o.buf = Room \o Numb(k, n) /\ t = Numb(k + n, m) /\ h = k + n + m

\* From p, the web server gets the units c of the writer of s.
Delivers(p, c, s) == /\ c \in Seq(PeerUnit) /\ Clean(Sees(p, c))
                     /\ \A x \in Streams \ {s} : Sees(p, c).shown[x] = p.shown[x]

\* Then those after these are in t.
Sending(p, c, s, h, t) ==
    /\ Delivers(p, c, s) /\ ~Sees(p, c).ended
    /\ \E m \in Nat : t = Numb(Sees(p, c).shown[s], m) /\ h = Sees(p, c).shown[s] + m

\* Then the stream is complete, and with "out" the answer is.
ClosesWith(p, c, s, h) ==
    /\ Delivers(p, c, s) /\ Sees(p, c).shown[s] = h
    /\ s = "err" => ~Sees(p, c).ended
    /\ s = "out" => \/ Sees(p, c).ended /\ (c = <<>> \/ c[Len(c)][1] = "data")
                    \/ p = NewPeer /\ c = <<>>

TidyInv ==
    /\ phase \in {"accept", "begin", "params"} => out = [s \in Streams |-> NewWriter]
    /\ wpc # "write" => pos = 0
    /\ wpc \in {"idle", "end"} => todo = <<>>
    /\ wpc # "idle" => want = 0

PeerSound == /\ peer \in Peers /\ ~peer.bad /\ Done(peer)
             /\ \A s \in Streams : peer.shown[s] <= handed[s]

Resting == /\ Clean(peer) /\ (peer.ended => phase = "begin")
           /\ \A s \in Streams : Filled(out[s], peer.shown[s], handed[s], <<>>)
Others  == \A s \in Streams \ {w} :
               IF s = "err" /\ phase = "finish" THEN out[s].raw /\ handed[s] = peer.shown[s]
               ELSE Filled(out[s], peer.shown[s], handed[s], <<>>)
Buffering == Clean(peer) /\ Filled(out[w], peer.shown[w], handed[w], todo)
Live ==
    /\ \A s \in Streams : ~out[s].err
    /\ wpc = "idle" => Resting
    /\ wpc # "idle" => Others
    /\ wpc \in {"put", "empty"} => ~peer.ended /\ (~out[w].raw => Buffering)
    /\ wpc = "write" => /\ pos <= Len(out[w].buf)
                        /\ ~out[w].raw => Sending(peer, Rest(out[w].buf, pos), w, handed[w], todo)
    /\ wpc # "idle" /\ out[w].raw => ClosesWith(peer, Rest(out[w].buf, pos) \o todo, w, handed[w])
    /\ phase = "finish" /\ ~out[w].raw => wpc = "empty" /\ todo = <<>>
    /\ wpc = "end" => out[w].buf = <<>>

WriteInv == TidyInv /\ PeerSound /\ (conn = "open" => Live)

-----------------------------------------------------------------------------
LEMMA PeersAre ==
    ASSUME NEW p \in Peers
    PROVE  /\ p.left \in Nat /\ p.pad \in Nat /\ p.shown \in [Streams -> Nat]
           /\ p.ended \in BOOLEAN /\ p.bad \in BOOLEAN /\ \A s \in Streams : p.shown[s] \in Nat
<1>1. p.left \in Nat /\ p.pad \in Nat /\ p.shown \in [Streams -> Nat] /\ p.ended \in BOOLEAN
      /\ p.bad \in BOOLEAN
    BY DEF Peers
<1> QED BY <1>1

LEMMA NewPeerIs ==
    /\ NewPeer \in Peers /\ Clean(NewPeer) /\ ~NewPeer.ended /\ ~NewPeer.bad /\ Done(NewPeer)
    /\ \A s \in Streams : NewPeer.shown[s] = 0
<1> DEFINE f == [s \in Streams |-> 0]
           e == <<>>
<1>1. f \in [Streams -> Nat] /\ \A s \in Streams : f[s] = 0
    OBVIOUS
<1>2. e \in Seq(PeerUnit) /\ Len(e) = 0
    OBVIOUS
<1> HIDE DEF f, e
<1>3. NewPeer = [hdr |-> e, left |-> 0, pad |-> 0, shown |-> f, ended |-> FALSE, bad |-> FALSE]
    BY DEF NewPeer, f, e
<1>4. NewPeer \in Peers /\ NewPeer.shown = f /\ NewPeer.hdr = e /\ NewPeer.left = 0 /\ NewPeer.pad = 0
      /\ ~NewPeer.ended /\ ~NewPeer.bad
    BY <1>1, <1>2, <1>3 DEF Peers
<1>5. Clean(NewPeer) /\ Done(NewPeer)
    BY <1>2, <1>4 DEF Clean, Done
<1> QED BY <1>1, <1>4, <1>5

\* A part of what comes.
Partly(p, r, q, s) ==
    /\ r \in Peers /\ ~r.bad /\ Done(r) /\ (p.ended => r.ended) /\ (r.ended => q.ended)
    /\ p.shown[s] <= r.shown[s] /\ r.shown[s] <= q.shown[s]
    /\ \A x \in Streams \ {s} : r.shown[x] = p.shown[x]

LEMMA DeliversPart ==
    ASSUME NEW p \in Peers, Done(p), NEW s \in Streams, NEW a \in Seq(PeerUnit), NEW b \in Seq(PeerUnit),
           Delivers(p, a \o b, s)
    PROVE  /\ Partly(p, Sees(p, a), Sees(p, a \o b), s)
           /\ Delivers(Sees(p, a), b, s) /\ Sees(Sees(p, a), b) = Sees(p, a \o b)
<1> DEFINE r == Sees(p, a)
           q == Sees(p, a \o b)
<1>1. r \in Peers /\ Grows(p, r)
    BY SeesIs, SeesGrows
<1>2. q = Sees(r, b)
    BY SeesMore
<1>3. q \in Peers /\ Grows(r, q)
    <2> HIDE DEF r
    <2> QED BY <1>1, <1>2, SeesIs, SeesGrows
<1>4. Clean(q) /\ \A x \in Streams \ {s} : q.shown[x] = p.shown[x]
    BY DEF Delivers
<1> HIDE DEF r, q
<1>5. ASSUME NEW x \in Streams
      PROVE  /\ p.shown[x] <= r.shown[x] /\ r.shown[x] <= q.shown[x]
             /\ p.shown[x] \in Nat /\ r.shown[x] \in Nat /\ q.shown[x] \in Nat
    BY <1>1, <1>3, PeersAre DEF Grows
<1>6. \A x \in Streams \ {s} : r.shown[x] = p.shown[x]
    <2>1. ASSUME NEW x \in Streams \ {s} PROVE r.shown[x] = p.shown[x]
        <3>1. \A i, j, k \in Nat : i <= j /\ j <= k /\ k = i => j = i
            OBVIOUS
        <3> QED BY <1>4, <1>5, <3>1
    <2> QED BY <2>1
<1>7. Partly(p, r, q, s)
    BY <1>1, <1>3, <1>4, <1>5, <1>6 DEF Partly, Grows, Clean
<1>8. Delivers(r, b, s)
    BY <1>2, <1>4, <1>6 DEF Delivers
<1> QED BY <1>2, <1>7, <1>8 DEF r, q

\* All of it.
LEMMA DeliversAll ==
    ASSUME NEW p \in Peers, Done(p), NEW s \in Streams, NEW c \in Seq(PeerUnit), Delivers(p, c, s)
    PROVE  Partly(p, Sees(p, c), Sees(p, c), s) /\ (Sees(p, c).ended \/ ~p.ended)
<1>1. <<>> \in Seq(PeerUnit) /\ c \o <<>> = c
    <2>1. <<>> \in Seq(PeerUnit)
        OBVIOUS
    <2> QED BY <2>1, JoinEmpty
<1>2. Partly(p, Sees(p, c), Sees(p, c \o <<>>), s)
    <2>1. Delivers(p, c \o <<>>, s)
        BY <1>1
    <2> QED BY <1>1, <2>1, DeliversPart
<1> QED BY <1>1, <1>2 DEF Partly

\* Nothing is left to come when the answer has ended.
LEMMA EndedComplete ==
    ASSUME NEW p \in Peers, Done(p), NEW c, NEW h, ClosesWith(p, c, "out", h), p.ended
    PROVE  c = <<>> /\ p.shown["out"] = h
<1>1. c \in Seq(PeerUnit) /\ ~Sees(p, c).bad
    BY DEF ClosesWith, Delivers, Clean
<1>2. c = <<>>
    BY <1>1, EndIsLast, NewPeerIs DEF ClosesWith
<1> QED BY <1>2, SeesNothing DEF ClosesWith

-----------------------------------------------------------------------------
LEMMA RoomIs ==
    ASSUME NEW k \in Nat, NEW n \in Nat
    PROVE  /\ Room \in Seq(OutUnit) /\ Len(Room) = HeaderLen /\ Room \o Numb(k, n) \in Seq(OutUnit)
           /\ Len(Room \o Numb(k, n)) = HeaderLen + n /\ Rest(Room \o Numb(k, n), HeaderLen) = Numb(k, n)
<1> DEFINE a == Room
           b == Numb(k, n)
<1>1. a \in Seq(OutUnit) /\ Len(a) = HeaderLen /\ HeaderLen \in Nat
    BY DEF Room, HeaderLen, OutUnit
<1>2. b \in Seq(OutUnit) /\ Len(b) = n
    BY NumbIs
<1> HIDE DEF a, b
<1>3. /\ a \o b \in Seq(OutUnit) /\ Len(a \o b) = Len(a) + Len(b)
      /\ \A i \in 1 .. Len(b) : (a \o b)[Len(a) + i] = b[i]
    <2>1. a \in Seq(OutUnit) /\ b \in Seq(OutUnit)
        BY <1>1, <1>2
    <2> QED BY <2>1, JoinAt
<1>4. Len(a) \in 0 .. Len(a \o b) /\ Len(a \o b) - Len(a) = n
    BY <1>1, <1>2, <1>3
<1>5. /\ Rest(a \o b, Len(a)) \in Seq(OutUnit) /\ Len(Rest(a \o b, Len(a))) = n
      /\ \A i \in 1 .. n : Rest(a \o b, Len(a))[i] = (a \o b)[Len(a) + i]
    BY <1>3, <1>4, PartAt
<1>6. Rest(a \o b, Len(a)) = b
    BY <1>2, <1>3, <1>5, SequencesEqual
<1> QED BY <1>1, <1>2, <1>3, <1>6 DEF a, b

LEMMA RoomOnly == Room \o <<>> = Room /\ Room \in Seq(OutUnit)
<1>1. Room \in Seq(OutUnit)
    BY DEF Room, HeaderLen, OutUnit
<1> QED BY <1>1, JoinEmpty

LEMMA FilledNew ==
    ASSUME NEW o, ~o.raw, o.buf = Room, NEW k \in Nat, NEW m \in Nat
    PROVE  Filled(o, k, k + m, Numb(k, m))
<1>1. 0 \in Nat /\ k + 0 = k /\ k + m = k + 0 + m
    OBVIOUS
<1>2. o.buf = Room \o Numb(k, 0)
    BY NumbOne, RoomOnly
<1> QED BY <1>1, <1>2 DEF Filled

LEMMA FilledFresh ==
    ASSUME NEW o, ~o.raw, o.buf = Room, NEW k \in Nat
    PROVE  Filled(o, k, k, <<>>)
<1>1. 0 \in Nat /\ k + 0 = k
    OBVIOUS
<1>2. Filled(o, k, k + 0, Numb(k, 0))
    BY <1>1, FilledNew
<1> QED BY <1>1, <1>2, NumbOne

\* The application hands over m more.
LEMMA FilledMore ==
    ASSUME NEW o, NEW k \in Nat, NEW h, Filled(o, k, h, <<>>), NEW m \in Nat
    PROVE  Filled(o, k, h + m, Numb(h, m))
<1>1. PICK n \in Nat, i \in Nat : o.buf = Room \o Numb(k, n) /\ <<>> = Numb(k + n, i) /\ h = k + n + i
    BY DEF Filled
<1>2. i = 0
    <2>1. k + n \in Nat
        OBVIOUS
    <2>2. Len(Numb(k + n, i)) = i
        BY <2>1, NumbIs
    <2> QED BY <1>1, <2>2
<1>3. h = k + n /\ h + m = k + n + m
    BY <1>1, <1>2
<1> QED BY <1>1, <1>3 DEF Filled

\* FCGX_PutStr puts j units into the buffer.
LEMMA FilledPut ==
    ASSUME NEW o, NEW k \in Nat, NEW h, NEW t, Filled(o, k, h, t), NEW j \in 0 .. Len(t),
           NEW q, ~q.raw, q.buf = o.buf \o SubSeq(t, 1, j)
    PROVE  Filled(q, k, h, Rest(t, j))
<1>1. PICK n \in Nat, m \in Nat : o.buf = Room \o Numb(k, n) /\ t = Numb(k + n, m) /\ h = k + n + m
    BY DEF Filled
<1>2. k + n \in Nat
    OBVIOUS
<1>3. Len(t) = m
    BY <1>1, <1>2, NumbIs
<1>4. j \in 0 .. m /\ j \in Nat /\ m - j \in Nat /\ n + j \in Nat
    BY <1>3
<1>5. SubSeq(t, 1, j) = Numb(k + n, j) /\ Rest(t, j) = Numb((k + n) + j, m - j)
    BY <1>1, <1>2, <1>4, NumbSplit
<1>6. q.buf = Room \o Numb(k, n + j)
    <2>1. Numb(k, n) \o Numb(k + n, j) = Numb(k, n + j)
        BY <1>4, NumbJoin
    <2>2. Room \in Seq(OutUnit) /\ Numb(k, n) \in Seq(OutUnit) /\ Numb(k + n, j) \in Seq(OutUnit)
        BY <1>2, <1>4, NumbIs, RoomIs
    <2>3. (Room \o Numb(k, n)) \o Numb(k + n, j) = Room \o (Numb(k, n) \o Numb(k + n, j))
        <3> DEFINE x == Room
                   y == Numb(k, n)
                   z == Numb(k + n, j)
        <3> HIDE DEF x, y, z
        <3>1. x \in Seq(OutUnit) /\ y \in Seq(OutUnit) /\ z \in Seq(OutUnit)
            BY <2>2 DEF x, y, z
        <3>2. (x \o y) \o z = x \o (y \o z)
            BY <3>1, JoinAssoc, SMTT(40)
        <3> QED BY <3>2 DEF x, y, z
    <2> QED BY <1>1, <1>5, <2>1, <2>3
<1>7. (k + n) + j = k + (n + j) /\ h = k + (n + j) + (m - j)
    BY <1>1, <1>4
<1>8. Rest(t, j) = Numb(k + (n + j), m - j)
    BY <1>5, <1>7
<1> QED BY <1>4, <1>6, <1>7, <1>8 DEF Filled

\* What is in the buffer goes out as a record.
LEMMA Encapsulates ==
    ASSUME FcgiInv, wpc = "empty", NEW p \in Peers, Clean(p), ~p.ended, NEW h, NEW t,
           Filled(out[w], p.shown[w], h, t)
    PROVE  Sending(p, Encapsulated(Buf), w, h, t)
<1>1. PICK s \in Streams : s = w
    BY DEF FcgiInv, WriterInv
<1> DEFINE k == p.shown[s]
           b == Encapsulated(Buf)
           q == Sees(p, b)
<1>2. k \in Nat
    BY PeersAre
<1>3. b \in Seq(PeerUnit)
    <2>1. ~out[w].raw
        BY DEF Filled
    <2> QED BY <2>1, EncapsulatedIs, AsPeer
<1>4. PICK n \in Nat, m \in Nat : Buf = Room \o Numb(k, n) /\ t = Numb(k + n, m) /\ h = k + n + m
    BY <1>1 DEF Filled, Buf
<1>5. Len(Buf) - HeaderLen = n /\ Rest(Buf, HeaderLen) = Numb(k, n)
    <2>1. Len(Buf) = HeaderLen + n /\ Rest(Buf, HeaderLen) = Numb(k, n)
        BY <1>2, <1>4, RoomIs
    <2> QED BY <2>1 DEF HeaderLen
<1>6. Told(p, q, s, n, FALSE)
    <2>1. CASE n > 0
        <3> DEFINE i == n % 2
        <3>1. i \in {0, 1} /\ req.id \in Nat
            BY IdsAre
        <3> HIDE DEF i
        <3>2. Encapsulated(Buf) = (Header(s, req.id, n, i) \o Numb(k, n)) \o Padding(i)
            BY <1>1, <1>5, <2>1 DEF Encapsulated, i
        <3>3. Told(p, Sees(p, (Header(s, req.id, n, i) \o Numb(k, n)) \o Padding(i)), s, n, FALSE)
            BY <3>1, RecordSeen
        <3> QED BY <3>2, <3>3
    <2>2. CASE n = 0
        <3>1. Encapsulated(Buf) = <<>>
            BY <1>5, <2>2 DEF Encapsulated
        <3>2. q = p
            BY <3>1, SeesNothing
        <3>3. p.shown[s] + n = p.shown[s]
            BY <1>2, <2>2
        <3> QED BY <3>2, <3>3 DEF Told
    <2>3. n > 0 \/ n = 0
        OBVIOUS
    <2> QED BY <2>1, <2>2, <2>3
<1> HIDE DEF b, k
<1>7. Delivers(p, b, s) /\ ~q.ended /\ q.shown[s] = k + n
    BY <1>3, <1>6 DEF Told, Delivers, k
<1>8. Sending(p, b, s, h, t)
    BY <1>4, <1>7 DEF Sending
<1> QED BY <1>1, <1>8 DEF b

-----------------------------------------------------------------------------
(* The steps that leave the writers alone.                                 *)

LEMMA WriteInit == Init => WriteInv
<1> SUFFICES ASSUME Init PROVE WriteInv
    OBVIOUS
<1>1. TidyInv
    BY DEF Init, TidyInv
<1>2. peer = NewPeer /\ conn = "none" /\ \A s \in Streams : handed[s] = 0
    BY DEF Init
<1>3. PeerSound
    <2>1. \A s \in Streams : peer.shown[s] <= handed[s]
        <3>1. 0 <= 0
            OBVIOUS
        <3> QED BY <1>2, <3>1, NewPeerIs
    <2> QED BY <1>2, <2>1, NewPeerIs DEF PeerSound
<1> QED BY <1>1, <1>2, <1>3 DEF WriteInv

LEMMA QuietWrite ==
    ASSUME WriteInv, UNCHANGED <<out, w, wpc, todo, pos, handed, conn, peer>>,
           phase' = phase \/ (phase # "finish" /\ phase' # "finish"),
           phase' \in {"accept", "begin", "params"} => phase \in {"accept", "begin", "params"},
           want' = want \/ wpc = "idle",
           conn = "open" /\ wpc = "idle" /\ peer.ended => phase' = "begin"
    PROVE  WriteInv'
<1>1. TidyInv'
    BY DEF WriteInv, TidyInv
<1>2. PeerSound'
    BY DEF WriteInv, PeerSound
<1>3. ASSUME conn = "open" PROVE Live'
    <2>1. Live
        BY <1>3 DEF WriteInv
    <2>2. wpc = "idle" => Resting'
        BY <1>3, <2>1 DEF Live, Resting
    <2>3. wpc # "idle" => Others'
        BY <2>1 DEF Live, Others
    <2>4. Buffering => Buffering'
        BY DEF Buffering
    <2> QED BY <2>1, <2>2, <2>3, <2>4 DEF Live
<1> QED BY <1>1, <1>2, <1>3 DEF WriteInv

\* The connection is gone, and the writers are new or as they were.
LEMMA GoneWrite ==
    ASSUME WriteInv, UNCHANGED <<peer, handed>>, conn' # "open", TidyInv'
    PROVE  WriteInv'
<1>1. PeerSound'
    BY DEF WriteInv, PeerSound
<1> QED BY <1>1 DEF WriteInv

LEMMA CloseWrite ==
    ASSUME WriteInv, TryAgain, phase \in {"begin", "params"}
    PROVE  WriteInv'
<1>1. UNCHANGED <<out, w, wpc, todo, pos, handed, want, peer>> /\ conn' = "closed"
    BY DEF TryAgain, Close, writeVars
<1>2. TidyInv'
    BY <1>1 DEF WriteInv, TidyInv
<1> QED BY <1>1, <1>2, GoneWrite

\* What the library answers itself does not belong to the request.
LEMMA ReplyWrite ==
    ASSUME LinkInv, WriteInv, wpc = "idle", phase # "accept", NEW r, NEW u, Reply(r, u),
           conn = "open" => ~peer.ended,
           conn = "open" /\ Clean(peer) =>
               u \in Seq(PeerUnit) /\ Told(peer, Sees(peer, u), "out", 0, FALSE)
    PROVE  WriteInv' /\ peer'.ended = peer.ended /\ peer'.shown = peer.shown
<1>1. UNCHANGED <<out, w, wpc, todo, pos, handed, want, conn, phase>>
      /\ (UNCHANGED peer \/ (conn # "cut" /\ peer' = Sees(peer, u)))
    BY DEF Reply, writeVars, PeerGets, Sees
<1>2. CASE UNCHANGED peer
    <2>1. WriteInv'
        BY <1>1, <1>2, QuietWrite
    <2> QED BY <1>2, <2>1
<1>3. CASE conn # "cut" /\ peer' = Sees(peer, u)
    <2> DEFINE q == Sees(peer, u)
    <2>1. conn = "open" /\ Live /\ Resting /\ ~peer.ended
        <3>1. conn = "open"
            BY <1>3 DEF LinkInv
        <3> QED BY <3>1 DEF WriteInv, Live
    <2>2. peer \in Peers /\ Done(peer) /\ Clean(peer) /\ Grows(peer, q)
        <3>1. peer \in Peers /\ Done(peer) /\ Clean(peer)
            BY <2>1 DEF Resting, WriteInv, PeerSound
        <3>2. u \in Seq(PeerUnit)
            BY <2>1, <3>1
        <3> QED BY <3>1, <3>2, SeesGrows
    <2>3. Told(peer, q, "out", 0, FALSE)
        BY <2>1, <2>2
    <2> HIDE DEF q
    <2>4. q \in Peers /\ Clean(q) /\ ~q.ended /\ q.shown = peer.shown
        <3>1. q \in Peers /\ Clean(q) /\ ~q.ended /\ q.shown["out"] = peer.shown["out"] + 0
              /\ \A x \in Streams \ {"out"} : q.shown[x] = peer.shown[x]
            BY <2>3 DEF Told
        <3>2. q.shown \in [Streams -> Nat] /\ peer.shown \in [Streams -> Nat] /\ "out" \in Streams
            BY <2>2, <3>1, PeersAre DEF Streams
        <3>3. peer.shown["out"] + 0 = peer.shown["out"]
            BY <3>2
        <3>4. \A x \in Streams : q.shown[x] = peer.shown[x]
            BY <3>1, <3>3
        <3>5. q.shown = peer.shown
            BY <3>2, <3>4
        <3> QED BY <3>1, <3>5
    <2>5. peer' = q /\ Done(q) /\ ~q.bad
        BY <1>3, <2>2, <2>4 DEF q, Grows, Clean
    <2>6. TidyInv'
        BY <1>1 DEF WriteInv, TidyInv
    <2>7. PeerSound'
        BY <1>1, <2>4, <2>5 DEF WriteInv, PeerSound
    <2>8. Resting'
        BY <1>1, <2>1, <2>4, <2>5 DEF Resting
    <2>9. phase # "finish" \/ ~(phase = "finish" /\ ~out[w].raw)
        BY <2>1 DEF Live
    <2>10. Live'
        BY <1>1, <2>1, <2>8, <2>9 DEF Live
    <2>11. peer'.ended = peer.ended
        <3>1. peer.ended = FALSE /\ q.ended = FALSE
            BY <2>1, <2>2, <2>4 DEF Peers
        <3> QED BY <2>5, <3>1
    <2> QED BY <2>4, <2>5, <2>6, <2>7, <2>10, <2>11 DEF WriteInv
<1> QED BY <1>1, <1>2, <1>3

-----------------------------------------------------------------------------
(* The steps of the reader leave the writers alone.                        *)

\* Who answers by itself is still busy with the request.
LEMMA Answering ==
    ASSUME FcgiInv, StreamInv, WriteInv, Filling("process") \/ in.sub = "values"
    PROVE  /\ phase \in {"begin", "params", "serve"} /\ wpc = "idle"
           /\ conn = "open" => ~peer.ended
<1>1. PICK t \in {talk} : StreamOf(t)
    BY DEF StreamInv
<1>2. phase \in {"begin", "params", "serve"}
    BY ReaderPhases DEF Filling
<1>3. wpc = "idle"
    <2>1. CASE Filling("process")
        BY <2>1 DEF Filling
    <2>2. CASE in.sub = "values"
        <3>1. CASE phase = "serve"
            <4>1. want > 0
                BY <1>1, <2>2, <3>1 DEF StreamOf, InServe
            <4> QED BY <4>1 DEF WriteInv, TidyInv
        <3>2. CASE phase # "serve"
            BY <1>2, <3>2 DEF FcgiInv, PhaseInv
        <3> QED BY <3>1, <3>2
    <2> QED BY <2>1, <2>2
<1>4. ASSUME conn = "open", peer.ended PROVE FALSE
    <2>1. phase = "begin"
        BY <1>3, <1>4 DEF WriteInv, Live, Resting
    <2>2. NoWire
        BY <1>1, <1>4, <2>1 DEF StreamOf, InBegin
    <2>3. in.sub = "none" /\ in.at = "top"
        BY <2>2, NoWireIdle
    <2> QED BY <2>3 DEF Filling
<1> QED BY <1>2, <1>3, <1>4

\* It goes on as it was.
LEMMA SamePhase ==
    ASSUME WriteInv, UNCHANGED <<phase, out, w, wpc, todo, pos, handed, conn, peer>>,
           want' = want \/ wpc = "idle"
    PROVE  WriteInv'
<1>1. conn = "open" /\ wpc = "idle" /\ peer.ended => phase' = "begin"
    BY DEF WriteInv, Live, Resting
<1> QED BY <1>1, QuietWrite

LEMMA ReadWrite ==
    ASSUME WriteInv,
           \/ Read \/ FillContent \/ FillPadding \/ FillHeader \/ Take
           \/ AppRead \/ AppTakes \/ AppEnd
    PROVE  WriteInv' /\ peer' = peer /\ handed' = handed
<1>1. /\ UNCHANGED <<phase, out, w, wpc, todo, pos, handed, conn, peer>>
      /\ want' = want \/ wpc = "idle"
    <2>1. CASE Read \/ FillContent \/ FillPadding \/ FillHeader \/ Take
        BY <2>1 DEF Read, FillContent, FillPadding, FillHeader, Take, Reader, writeVars, peerVars
    <2>2. CASE AppRead
        BY <2>2 DEF AppRead, Free, writeVars, peerVars
    <2>3. ASSUME AppTakes \/ AppEnd
          PROVE  UNCHANGED <<phase, out, w, wpc, todo, pos, handed, conn, peer>> /\ want > 0
        BY <2>3 DEF AppTakes, AppEnd, writeVars, peerVars
    <2>4. wpc # "idle" => want = 0
        BY DEF WriteInv, TidyInv
    <2>5. ~(0 > 0)
        OBVIOUS
    <2> QED BY <2>1, <2>2, <2>3, <2>4, <2>5
<1> QED BY <1>1, SamePhase

-----------------------------------------------------------------------------
(* A second FCGI_BEGIN_REQUEST is that of another request.                 *)

LEMMA HeadNotOne ==
    ASSUME FcgiInv, ProcessSecondBegin, NEW t \in Seq(Record), NEW lo, NEW hi,
           NEW type \in {"params", "stdin"}, Segment(t, type, lo, hi), NEW k \in lo .. hi,
           NEW v, NEW g, Place(in, v, t, k, g), g = <<>> => k # hi
    PROVE  HdrId # 1
<1>1. Sound(in) /\ Len(in.hdr) = HeaderLen
    BY AtProcess DEF ProcessHeader
<1>2. IsHeader /\ HdrType = "begin"
    BY DEF ProcessSecondBegin, IsRecord
<1>3. g = <<>>
    BY <1>1, <1>2, HeaderPlace DEF IsHeader
<1>4. HeadOfNext(in, v, t, k)
    BY <1>1, <1>3, HeaderPlace
<1> DEFINE c == t[k + 1]
<1>5. HdrType = c.type /\ HdrId = c.id
    BY <1>4 DEF HeadOfNext, Header, HdrType, HdrId
<1>6. k + 1 \in lo + 1 .. hi
    <2>1. lo \in 0 .. Len(t) /\ hi \in lo + 1 .. Len(t) /\ k # hi
        BY <1>3 DEF Segment
    <2> QED BY <2>1
<1>7. c.id = 1 => c.type = type
    BY <1>6 DEF Segment
<1> HIDE DEF c
<1> QED BY <1>2, <1>5, <1>7

LEMMA OtherBegins ==
    ASSUME RegularTalks, FcgiInv, StreamInv, ProcessSecondBegin
    PROVE  HdrId # 1
<1>1. PICK t \in {talk} : StreamOf(t)
    BY DEF StreamInv
<1>2. Wanted /\ ~in.closed /\ req.begun
    BY DEF ProcessSecondBegin, IsRecord, Filling
<1>3. phase \in {"params", "serve"}
    <2>1. phase \in {"begin", "params", "serve"}
        BY <1>2, ReaderPhases
    <2>2. phase = "begin" => ~req.begun
        BY DEF StreamInv, LinkInv
    <2> QED BY <1>2, <2>1, <2>2
<1>4. Regular(t)
    BY <1>1, <1>3, TalkRegular DEF FcgiInv, TalkInv
<1>5. Proper(t)
    BY <1>1, <1>3 DEF StreamOf, InParams, InServe
<1> DEFINE b == Start(t)
           e == End(t)
           m == Len(t)
<1>6. t \in Seq(Record) /\ Segment(t, "params", b, e) /\ Segment(t, "stdin", e, m) /\ e \in Nat
    BY <1>4, <1>5, Bounds
<1>7. Reading(t, "params", b, e) \/ Reading(t, "stdin", e, m) \/ Drifting(t, b, e)
    BY <1>1, <1>2, <1>3
       DEF StreamOf, InParams, InServe, ParamsAt, BodyAt, Broken, Stopped, Halted
<1> HIDE DEF b, e, m
<1>8. ASSUME NEW type \in {"params", "stdin"}, NEW lo, NEW hi, Segment(t, type, lo, hi),
             Reading(t, type, lo, hi)
      PROVE  HdrId # 1
    <2>1. PICK k, v : k \in lo .. hi /\ OnCourse(in, got, t, type, k, hi, v)
        BY <1>8 DEF Reading
    <2>2. Place(in, v, t, k, <<>>) /\ k # hi
        BY <1>2, <2>1 DEF OnCourse
    <2>3. PICK g : g = <<>>
        OBVIOUS
    <2> QED BY <1>6, <1>8, <2>1, <2>2, <2>3, HeadNotOne
<1>9. CASE Drifting(t, b, e)
    <2>1. PICK k, v, g : k \in b .. e /\ Adrift(in, got, t, k, e, v, g)
        BY <1>9 DEF Drifting
    <2>2. Place(in, v, t, k, g) /\ (g = <<>> => k < e)
        BY <2>1 DEF Adrift
    <2>3. ~(e < e)
        BY <1>6
    <2>4. g = <<>> => k # e
        BY <2>2, <2>3
    <2>5. PICK type \in {"params", "stdin"} : type = "params"
        OBVIOUS
    <2> QED BY <1>6, <2>1, <2>2, <2>4, <2>5, HeadNotOne
<1> QED BY <1>6, <1>7, <1>8, <1>9

-----------------------------------------------------------------------------
\* What the answers of the library's own leave as it was.
Undisturbed == WriteInv' /\ peer'.ended = peer.ended /\ peer'.shown = peer.shown /\ handed' = handed

LEMMA HeaderWrite ==
    ASSUME RegularTalks, FcgiInv, StreamInv, WriteInv, ProcessHeader
    PROVE  Undisturbed
<1>1. LinkInv /\ Filling("process")
    BY DEF StreamInv, ProcessHeader, ProcessWrong, ProcessBegin, ProcessSecondBegin, ProcessOther,
           ProcessValues, ProcessUnknown, ProcessStream, IsRecord
<1>2. phase \in {"begin", "params", "serve"} /\ wpc = "idle" /\ (conn = "open" => ~peer.ended)
    BY <1>1, Answering
<1>3. phase # "accept" /\ handed' = handed
    BY <1>2 DEF ProcessHeader, ProcessWrong, ProcessBegin, ProcessSecondBegin, ProcessOther,
           ProcessValues, ProcessUnknown, ProcessStream, Reader, Reply, writeVars
<1>4. CASE ProcessSecondBegin
    <2> DEFINE r == [AtHeader EXCEPT !.skip = TRUE]
               u == Header("end", HdrId, 2, 0) \o Content(<<0, 1>>)
    <2>1. Reply(r, u)
        BY <1>4 DEF ProcessSecondBegin
    <2>2. HdrId \in Nat /\ HdrId # 1
        <3>1. IsHeader
            BY <1>4 DEF ProcessSecondBegin, IsRecord
        <3> QED BY <1>1, <1>4, <3>1, HeaderRead, OtherBegins
    <2>3. ASSUME conn = "open", Clean(peer)
          PROVE  u \in Seq(PeerUnit) /\ Told(peer, Sees(peer, u), "out", 0, FALSE)
        <3>1. peer \in Peers /\ ~peer.ended
            BY <1>2, <2>3 DEF WriteInv, PeerSound
        <3>2. 0 \in Nat /\ 1 \in Nat /\ "out" \in Streams
            BY DEF Streams
        <3>3. PICK i \in Nat : i = HdrId
            BY <2>2
        <3>4. PICK e : e = ("end" = "end" /\ i = 1)
            OBVIOUS
        <3>5. u \in Seq(PeerUnit) /\ Told(peer, Sees(peer, u), "out", 0, e)
            BY <2>3, <3>1, <3>2, <3>3, <3>4, ShortSeen
        <3>6. e = FALSE
            BY <2>2, <3>3, <3>4
        <3> QED BY <3>5, <3>6
    <2> HIDE DEF r, u
    <2>4. WriteInv' /\ peer'.ended = peer.ended /\ peer'.shown = peer.shown
        BY <1>1, <1>2, <1>3, <2>1, <2>3, ReplyWrite
    <2> QED BY <1>3, <2>4 DEF Undisturbed
<1>5. CASE ProcessUnknown
    <2> DEFINE r == AtHeader
               u == Header("unknown", 0, 0, 0)
    <2>1. Reply(r, u)
        BY <1>5 DEF ProcessUnknown
    <2>2. ASSUME conn = "open", Clean(peer)
          PROVE  u \in Seq(PeerUnit) /\ Told(peer, Sees(peer, u), "out", 0, FALSE)
        <3>1. peer \in Peers /\ ~peer.ended
            BY <1>2, <2>2 DEF WriteInv, PeerSound
        <3>2. 0 \in Nat /\ "out" \in Streams /\ "unknown" \in Types
            BY DEF Streams, Types
        <3> QED BY <2>2, <3>1, <3>2, EmptySeen
    <2> HIDE DEF r, u
    <2>3. WriteInv' /\ peer'.ended = peer.ended /\ peer'.shown = peer.shown
        BY <1>1, <1>2, <1>3, <2>1, <2>2, ReplyWrite
    <2> QED BY <1>3, <2>3 DEF Undisturbed
<1>6. CASE ProcessWrong \/ ProcessBegin \/ ProcessOther \/ ProcessValues \/ ProcessStream
    <2>1. UNCHANGED <<phase, out, w, wpc, todo, pos, handed, want, conn, peer>>
        BY <1>6 DEF ProcessWrong, ProcessBegin, ProcessOther, ProcessValues, ProcessStream, Reader,
                    writeVars, peerVars
    <2>2. WriteInv'
        BY <2>1, SamePhase
    <2> QED BY <2>1, <2>2 DEF Undisturbed
<1> QED BY <1>4, <1>5, <1>6 DEF ProcessHeader

LEMMA ValuesWrite ==
    ASSUME FcgiInv, StreamInv, WriteInv, ValuesRead
    PROVE  Undisturbed
<1>1. LinkInv /\ in.sub = "values"
    BY DEF StreamInv, ValuesRead
<1>2. phase \in {"begin", "params", "serve"} /\ wpc = "idle" /\ (conn = "open" => ~peer.ended)
    BY <1>1, Answering
<1>3. phase # "accept" /\ handed' = handed
    BY <1>2 DEF ValuesRead, Reader, Reply, writeVars
<1> DEFINE r == [in EXCEPT !.sub = "none", !.closed = FALSE]
           u == Header("result", 0, 2, 0) \o Content(<<0, 0>>)
<1>4. CASE Reply(r, u)
    <2>1. ASSUME conn = "open", Clean(peer)
          PROVE  u \in Seq(PeerUnit) /\ Told(peer, Sees(peer, u), "out", 0, FALSE)
        <3>1. peer \in Peers /\ ~peer.ended
            BY <1>2, <2>1 DEF WriteInv, PeerSound
        <3>2. 0 \in Nat /\ "out" \in Streams
            BY DEF Streams
        <3>3. PICK i \in Nat : i = 0
            OBVIOUS
        <3>4. PICK e : e = ("result" = "end" /\ i = 1)
            OBVIOUS
        <3>5. u \in Seq(PeerUnit) /\ Told(peer, Sees(peer, u), "out", 0, e)
            BY <2>1, <3>1, <3>2, <3>3, <3>4, ShortSeen
        <3>6. e = FALSE
            BY <3>4
        <3> QED BY <3>5, <3>6
    <2> HIDE DEF r, u
    <2>2. WriteInv' /\ peer'.ended = peer.ended /\ peer'.shown = peer.shown
        BY <1>1, <1>2, <1>3, <1>4, <2>1, ReplyWrite
    <2> QED BY <1>3, <2>2 DEF Undisturbed
<1>5. CASE Reader([Failed(in) EXCEPT !.sub = "none"])
    <2>1. UNCHANGED <<phase, out, w, wpc, todo, pos, handed, want, conn, peer>>
        BY <1>5 DEF Reader, writeVars, peerVars
    <2>2. WriteInv'
        BY <2>1, SamePhase
    <2> QED BY <2>1, <2>2 DEF Undisturbed
<1> QED BY <1>4, <1>5 DEF ValuesRead

-----------------------------------------------------------------------------
(* From one phase to the next.                                             *)

LEMMA TurnWrite ==
    ASSUME FcgiInv, StreamInv, WriteInv, Accept \/ Begun \/ NotBegun \/ ParamsRead
    PROVE  WriteInv' /\ peer' = peer /\ handed' = handed
<1>1. PICK t \in {talk} : StreamOf(t)
    BY DEF StreamInv
<1>2. in.sub = "body" => phase = "begin"
    BY DEF FcgiInv, PhaseInv
<1>3. CASE TryAgain
    <2>1. phase \in {"begin", "params"}
        BY <1>2, <1>3 DEF Accept, Begun, NotBegun, ParamsRead, TryAgain, Close
    <2>2. peer' = peer /\ handed' = handed
        BY <1>3 DEF TryAgain, writeVars
    <2> QED BY <1>3, <2>1, <2>2, CloseWrite
<1>4. CASE Accept
    <2>1. UNCHANGED <<out, w, wpc, todo, pos, handed, conn, peer, want>> /\ phase = "accept"
          /\ phase' = "begin"
        BY <1>4 DEF Accept, readVars, writeVars, peerVars
    <2> QED BY <2>1, QuietWrite
<1>5. CASE Begun /\ ~TryAgain
    <2>1. /\ UNCHANGED <<out, w, wpc, todo, pos, handed, conn, peer, want>> /\ phase = "begin"
          /\ phase' = "params" /\ in.sub = "body"
        BY <1>2, <1>5 DEF Begun, writeVars, peerVars
    <2>2. ~peer.ended
        <3>1. peer.ended => NoWire
            BY <1>1, <2>1 DEF StreamOf, InBegin
        <3> QED BY <2>1, <3>1, NoWireIdle
    <2> QED BY <2>1, <2>2, QuietWrite
<1>6. CASE ParamsRead /\ ~TryAgain
    <2>1. /\ UNCHANGED <<out, w, wpc, todo, pos, handed, conn, peer, want>> /\ phase = "params"
          /\ phase' = "serve"
        BY <1>6 DEF ParamsRead, writeVars, peerVars
    <2>2. conn = "open" => Live
        BY DEF WriteInv
    <2>3. conn = "open" /\ wpc = "idle" => ~peer.ended
        BY <2>1, <2>2 DEF Live, Resting
    <2> QED BY <2>1, <2>3, QuietWrite
<1> QED BY <1>3, <1>4, <1>5, <1>6 DEF NotBegun

-----------------------------------------------------------------------------
(* The steps of the application and of the web server.                     *)

LEMMA HandedIs ==
    ASSUME FcgiInv
    PROVE  /\ handed \in [Streams -> Nat] /\ w \in Streams /\ DOMAIN out = Streams /\ pos \in Nat
           /\ todo \in Seq(OutUnit) /\ \A s \in Streams : handed[s] \in Nat
           /\ \A s \in Streams : out[s] \in Writers /\ out[s].buf \in Seq(OutUnit) /\ out[s].raw \in BOOLEAN
<1>1. handed \in [Streams -> Nat] /\ w \in Streams /\ DOMAIN out = Streams /\ pos \in Nat
      /\ todo \in Seq(OutUnit)
    BY DEF FcgiInv, WriterInv
<1>2. \A s \in Streams : out[s] \in Writers
    BY DEF FcgiInv, WriterInv, Roomy
<1>3. \A o \in Writers : o.buf \in Seq(OutUnit) /\ o.raw \in BOOLEAN
    BY DEF Writers
<1> QED BY <1>1, <1>2, <1>3

LEMMA AppWriteWrite ==
    ASSUME FcgiInv, StreamInv, WriteInv, NEW s \in Streams, AppWrite(s)
    PROVE  WriteInv' /\ peer' = peer
<1>1. /\ UNCHANGED <<phase, want, out, pos, conn, peer>> /\ phase = "serve" /\ want = 0 /\ wpc = "idle"
      /\ w' = s /\ wpc' = "put"
    BY DEF AppWrite, Free, readVars, peerVars
<1>2. MaxHanded[talk][s] \in Nat /\ handed \in [Streams -> Nat]
    BY <1>1, TalkAssumption DEF FcgiInv, TalkInv, WriterInv
<1>3. PICK n \in 1 .. MaxHanded[talk][s] - handed[s] :
          /\ todo' = Content(Numbered(handed[s], n))
          /\ handed' = [handed EXCEPT ![s] = @ + n]
    BY DEF AppWrite
<1>4. n \in Nat /\ handed[s] \in Nat /\ handed'[s] = handed[s] + n /\ todo' = Numb(handed[s], n)
    BY <1>2, <1>3 DEF Numb
<1>5. \A x \in Streams \ {s} : handed'[x] = handed[x]
    BY <1>2, <1>3
<1>6. TidyInv'
    BY <1>1 DEF WriteInv, TidyInv
<1>7. peer \in Peers /\ ~peer.bad /\ Done(peer) /\ \A x \in Streams : peer.shown[x] \in Nat
    BY PeersAre DEF WriteInv, PeerSound
<1>8. PeerSound'
    <2>1. ASSUME NEW x \in Streams PROVE peer.shown[x] <= handed'[x]
        <3>1. peer.shown[x] <= handed[x]
            BY DEF WriteInv, PeerSound
        <3>2. CASE x = s
            BY <1>4, <1>7, <3>1, <3>2
        <3>3. CASE x # s
            BY <1>5, <3>1, <3>3
        <3> QED BY <3>2, <3>3
    <2> QED BY <1>1, <1>7, <2>1 DEF PeerSound
<1>9. ASSUME conn = "open" PROVE Live'
    <2>1. Live /\ Resting
        BY <1>1, <1>9 DEF WriteInv, Live
    <2>2. Clean(peer) /\ ~peer.ended
        BY <1>1, <2>1 DEF Resting
    <2>3. Others'
        BY <1>1, <1>5, <2>1 DEF Resting, Others
    <2>4. ~out[s].raw
        BY <1>1 DEF FcgiInv, CountInv
    <2>5. Filled(out[s], peer.shown[s], handed[s] + n, Numb(handed[s], n))
        BY <1>4, <1>7, <2>1, FilledMore DEF Resting
    <2>6. Buffering'
        BY <1>1, <1>4, <2>2, <2>5 DEF Buffering
    <2> QED BY <1>1, <2>1, <2>2, <2>3, <2>4, <2>6 DEF Live
<1> QED BY <1>1, <1>6, <1>8, <1>9 DEF WriteInv

\* What the application has handed over goes out.
LEMMA FlushWrite ==
    ASSUME FcgiInv, StreamInv, WriteInv, Finish \/ \E s \in Streams : AppFlush(s)
    PROVE  WriteInv' /\ peer' = peer /\ handed' = handed
<1>1. PICK s \in Streams :
          /\ UNCHANGED <<want, out, todo, pos, handed, conn, peer>> /\ phase = "serve" /\ want = 0
             /\ wpc = "idle"
          /\ w' = s /\ wpc' = "empty" /\ (phase' = "serve" \/ (phase' = "finish" /\ s = "err"))
    <2>1. "err" \in Streams
        BY DEF Streams
    <2>2. CASE Finish
        BY <2>1, <2>2 DEF Finish, Free, readVars, peerVars
    <2>3. ASSUME NEW s \in Streams, AppFlush(s)
          PROVE  /\ UNCHANGED <<phase, want, out, todo, pos, handed, conn, peer>>
                    /\ phase = "serve" /\ want = 0
                 /\ wpc = "idle" /\ w' = s /\ wpc' = "empty"
        BY <2>3 DEF AppFlush, Free, readVars, peerVars
    <2> QED BY <2>2, <2>3
<1>2. TidyInv'
    BY <1>1 DEF WriteInv, TidyInv
<1>3. PeerSound'
    BY <1>1 DEF WriteInv, PeerSound
<1>4. ASSUME conn = "open" PROVE Live'
    <2>1. Live /\ Resting
        BY <1>1, <1>4 DEF WriteInv, Live
    <2>2. Clean(peer) /\ ~peer.ended /\ todo = <<>>
        BY <1>1, <2>1 DEF Resting, WriteInv, TidyInv
    <2>3. Others'
        BY <1>1, <2>1 DEF Resting, Others
    <2>4. ~out[s].raw
        BY <1>1 DEF FcgiInv, CountInv
    <2>5. Buffering'
        BY <1>1, <2>1, <2>2 DEF Buffering, Resting
    <2> QED BY <1>1, <2>1, <2>2, <2>3, <2>4, <2>5 DEF Live
<1> QED BY <1>1, <1>2, <1>3, <1>4 DEF WriteInv

LEMMA CutWrite ==
    ASSUME WriteInv, Cut
    PROVE  WriteInv' /\ peer' = peer /\ handed' = handed
<1>1. UNCHANGED <<phase, want, out, w, wpc, todo, pos, handed, peer>> /\ conn' = "cut"
    BY DEF Cut, readVars, writeVars
<1>2. TidyInv'
    BY <1>1 DEF WriteInv, TidyInv
<1> QED BY <1>1, <1>2, GoneWrite

-----------------------------------------------------------------------------
(* The end of the answer.                                                  *)

\* Both streams are closed and have been written.
Closed == /\ phase = "finish" /\ w = "out" /\ wpc \in {"write", "end"} /\ out["out"].raw /\ out["err"].raw
          /\ todo = <<>> /\ pos = Len(out["out"].buf)
          /\ \A s \in Streams : handed[s] = peer.shown[s]

LEMMA EndedLive ==
    ASSUME FcgiInv, LinkInv, WriteInv, conn = "open", peer.ended
    PROVE  (phase = "begin" /\ wpc = "idle") \/ Closed
<1>1. Live /\ peer \in Peers /\ Done(peer) /\ ~peer.bad
    BY DEF WriteInv, PeerSound
<1>2. CASE wpc = "idle"
    BY <1>1, <1>2 DEF Live, Resting
<1>3. CASE wpc # "idle"
    <2>1. wpc \in {"write", "end"}
        BY <1>1, <1>3 DEF Live, FcgiInv, PhaseInv
    <2>2. pos \in Nat /\ todo \in Seq(OutUnit) /\ w \in Streams /\ out[w].buf \in Seq(OutUnit)
        BY HandedIs
    <2>3. out[w].raw
        <3>1. ASSUME wpc = "write", ~out[w].raw PROVE FALSE
            <4> DEFINE c == Rest(out[w].buf, pos)
            <4>1. Sending(peer, c, w, handed[w], todo)
                BY <1>1, <3>1 DEF Live
            <4> HIDE DEF c
            <4>2. c \in Seq(PeerUnit) /\ Delivers(peer, c, w) /\ ~Sees(peer, c).ended
                BY <4>1 DEF Sending, Delivers
            <4> QED BY <1>1, <2>2, <4>2, DeliversAll
        <3>2. wpc = "end" /\ ~out[w].raw => FALSE
            BY <1>1 DEF Live, FcgiInv, PhaseInv
        <3> QED BY <2>1, <3>1, <3>2
    <2>4. phase = "finish"
        BY <2>2, <2>3 DEF FcgiInv, CountInv
    <2> DEFINE c == Rest(out[w].buf, pos)
               d == c \o todo
    <2>5. ClosesWith(peer, d, w, handed[w])
        BY <1>1, <1>3, <2>3 DEF Live
    <2>6. w = "out"
        <3>1. ASSUME w = "err" PROVE FALSE
            <4> HIDE DEF d
            <4>1. d \in Seq(PeerUnit) /\ Delivers(peer, d, w) /\ ~Sees(peer, d).ended
                BY <2>5, <3>1 DEF ClosesWith, Delivers
            <4> QED BY <1>1, <2>2, <4>1, DeliversAll
        <3> QED BY <2>2, <3>1 DEF Streams
    <2>7. d = <<>> /\ peer.shown["out"] = handed["out"]
        <3> HIDE DEF d
        <3> QED BY <1>1, <2>5, <2>6, EndedComplete
    <2>8. pos <= Len(out[w].buf)
        <3>1. CASE wpc = "write"
            BY <1>1, <3>1 DEF Live
        <3>2. CASE wpc = "end"
            <4>1. pos = 0
                BY <3>2 DEF WriteInv, TidyInv
            <4>2. 0 <= Len(out[w].buf)
                BY <2>2
            <4> QED BY <4>1, <4>2
        <3> QED BY <2>1, <3>1, <3>2
    <2>9. c \in Seq(OutUnit) /\ Len(c) = Len(out[w].buf) - pos /\ Len(out[w].buf) \in Nat
        <3>1. pos \in 0 .. Len(out[w].buf)
            BY <2>2, <2>8
        <3>2. PICK b \in Seq(OutUnit) : b = out[w].buf
            BY <2>2
        <3>3. Rest(b, pos) \in Seq(OutUnit) /\ Len(Rest(b, pos)) = Len(b) - pos /\ Len(b) \in Nat
            <4>1. pos \in 0 .. Len(b) /\ Len(b) \in Nat
                BY <3>1, <3>2
            <4> QED BY <4>1, RestOf
        <3> QED BY <3>2, <3>3
    <2> HIDE DEF c
    <2>10. todo = <<>> /\ pos = Len(out[w].buf)
        <3>1. Len(d) = Len(c) + Len(todo) /\ Len(d) = 0
            BY <2>2, <2>7, <2>9, JoinIs
        <3>2. Len(c) \in Nat /\ Len(todo) \in Nat
            BY <2>2, <2>9
        <3>3. Len(c) = 0 /\ Len(todo) = 0
            BY <3>1, <3>2
        <3>4. todo = <<>>
            BY <2>2, <3>3
        <3> QED BY <2>2, <2>9, <3>3, <3>4
    <2>11. out["err"].raw /\ handed["err"] = peer.shown["err"]
        <3>1. "err" \in Streams \ {w}
            BY <2>6 DEF Streams
        <3> QED BY <1>1, <1>3, <2>4, <3>1 DEF Live, Others
    <2>12. \A s \in Streams : handed[s] = peer.shown[s]
        BY <2>7, <2>11 DEF Streams
    <2> QED BY <2>1, <2>3, <2>4, <2>6, <2>10, <2>11, <2>12 DEF Closed
<1> QED BY <1>2, <1>3

LEMMA PeerFollows ==
    ASSUME FcgiInv, LinkInv, WriteInv
    PROVE  PeerInv
<1>1. CASE conn = "open" /\ peer.ended
    <2>1. (phase = "begin" /\ wpc = "idle") \/ Closed
        BY <1>1, EndedLive
    <2>2. CASE Closed
        <3>1. wpc = "end" \/ (wpc = "write" /\ pos = Len(out[w].buf))
            BY <2>2 DEF Closed
        <3> QED BY <2>2, <3>1 DEF Closed, PeerInv, Over
    <2>3. CASE phase = "begin"
        BY <2>3 DEF PeerInv
    <2> QED BY <2>1, <2>2, <2>3
<1> QED BY <1>1 DEF PeerInv

LEMMA RequestWrite ==
    ASSUME FcgiInv, StreamInv, WriteInv, Request
    PROVE  WriteInv'
<1> DEFINE z == [s \in Streams |-> 0]
<1>1. /\ UNCHANGED <<phase, want, out, w, wpc, todo, pos>> /\ conn' = "open" /\ peer' = NewPeer
      /\ handed' = z /\ LinkInv
      /\ conn \in {"none", "closed"} \/ (conn = "open" /\ peer.ended)
    BY DEF Request, readVars, StreamInv
<1>2. \A s \in Streams : handed'[s] = 0
    BY <1>1
<1>3. /\ NewPeer \in Peers /\ Clean(NewPeer) /\ ~NewPeer.ended /\ ~NewPeer.bad /\ Done(NewPeer)
      /\ \A s \in Streams : NewPeer.shown[s] = 0
    BY NewPeerIs
<1> HIDE DEF z
<1>4. TidyInv'
    BY <1>1 DEF WriteInv, TidyInv
<1>5. PeerSound'
    <2>1. 0 <= 0
        OBVIOUS
    <2> QED BY <1>1, <1>2, <1>3, <2>1 DEF PeerSound
<1>6. Live'
    <2>1. (phase \in {"accept", "begin"} /\ wpc = "idle") \/ (conn = "open" /\ Closed)
        <3>1. CASE conn \in {"none", "closed"}
            <4>1. phase = "accept"
                BY <1>1, <3>1 DEF LinkInv
            <4> QED BY <4>1 DEF FcgiInv, PhaseInv
        <3>2. CASE conn = "open" /\ peer.ended
            BY <1>1, <3>2, EndedLive
        <3> QED BY <1>1, <3>1, <3>2
    <2>2. CASE phase \in {"accept", "begin"} /\ wpc = "idle"
        <3>1. out = [s \in Streams |-> NewWriter]
            BY <2>2 DEF WriteInv, TidyInv
        <3>2. ~NewWriter.raw /\ ~NewWriter.err /\ NewWriter.buf = Room
            BY DEF NewWriter
        <3>3. ASSUME NEW s \in Streams
              PROVE  /\ ~out[s].err /\ ~out[s].raw
                     /\ Filled(out[s], 0, 0, <<>>)
            <4>1. out[s] = NewWriter /\ 0 \in Nat
                BY <3>1
            <4> QED BY <3>2, <4>1, FilledFresh
        <3>4. Resting'
            BY <1>1, <1>2, <1>3, <3>3 DEF Resting
        <3>5. w \in Streams
            BY HandedIs
        <3> QED BY <1>1, <2>2, <3>3, <3>4, <3>5 DEF Live
    <2>3. CASE conn = "open" /\ Closed
        <3>1. Live
            BY <2>3 DEF WriteInv
        <3>2. out["out"].buf \in Seq(OutUnit) /\ "out" \in Streams /\ "err" \in Streams
            <4>1. "out" \in Streams /\ "err" \in Streams
                BY DEF Streams
            <4> QED BY <4>1, HandedIs
        <3> DEFINE c == Rest(out["out"].buf, pos)
        <3>3. c \o todo = <<>>
            <4>1. c = <<>>
                BY <2>3, <3>2, RestOf DEF Closed
            <4>2. <<>> \o <<>> = <<>>
                OBVIOUS
            <4> QED BY <2>3, <4>1, <4>2 DEF Closed
        <3> HIDE DEF c
        <3>4. ClosesWith(NewPeer, <<>>, "out", 0)
            <4>1. <<>> \in Seq(PeerUnit) /\ Sees(NewPeer, <<>>) = NewPeer
                BY <1>3, SeesNothing
            <4>2. PICK e : e = <<>>
                OBVIOUS
            <4>3. e \in Seq(PeerUnit) /\ Sees(NewPeer, e) = NewPeer
                BY <4>1, <4>2
            <4>4. Delivers(NewPeer, e, "out")
                BY <1>3, <4>3 DEF Delivers
            <4>5. ClosesWith(NewPeer, e, "out", 0)
                BY <1>3, <3>2, <4>2, <4>3, <4>4 DEF ClosesWith
            <4> QED BY <4>2, <4>5
        <3>5. Others'
            <4>1. ASSUME NEW s \in Streams \ {w} PROVE s = "err"
                BY <2>3 DEF Closed, Streams
            <4> QED BY <1>1, <1>2, <1>3, <2>3, <4>1 DEF Others, Closed
        <3>6. pos' <= Len(out'[w'].buf)
            <4>1. Len(out["out"].buf) <= Len(out["out"].buf)
                BY <3>2
            <4> QED BY <1>1, <2>3, <4>1 DEF Closed
        <3>7. ClosesWith(peer, Rest(out[w].buf, pos) \o todo, w, handed[w])'
            BY <1>1, <1>2, <2>3, <3>2, <3>3, <3>4 DEF Closed, c
        <3>8. wpc \in {"write", "end"} /\ out[w].raw
            BY <2>3 DEF Closed
        <3> QED BY <1>1, <3>1, <3>5, <3>6, <3>7, <3>8 DEF Live
    <2> QED BY <2>1, <2>2, <2>3
<1> QED BY <1>1, <1>4, <1>5, <1>6 DEF WriteInv

-----------------------------------------------------------------------------
(* The steps of a writer.                                                  *)

\* The writer in use may go on as o at c, with n units of its buffer written and t still
\* to be put, when the web server is at p.
Working(o, p, n, t, c) ==
    /\ ~o.err /\ \A s \in Streams \ {w} : p.shown[s] = peer.shown[s]
    /\ c = "idle" => phase # "finish" /\ Clean(p) /\ ~p.ended /\ Filled(o, p.shown[w], handed[w], <<>>)
    /\ c \in {"put", "empty"} =>
          ~p.ended /\ (~o.raw => Clean(p) /\ Filled(o, p.shown[w], handed[w], t))
    /\ c = "write" => n <= Len(o.buf) /\ (~o.raw => Sending(p, Rest(o.buf, n), w, handed[w], t))
    /\ o.raw => ClosesWith(p, Rest(o.buf, n) \o t, w, handed[w])
    /\ phase = "finish" => o.raw
    /\ c = "end" => o.buf = <<>>

LEMMA WriterWrite ==
    ASSUME FcgiInv, WriteInv, wpc # "idle", NEW o, Writer(o),
           wpc' # "write" => pos' = 0, wpc' \in {"idle", "end"} => todo' = <<>>, PeerSound',
           conn = "open" => Working(o, peer', pos', todo', wpc')
    PROVE  WriteInv'
<1>1. /\ UNCHANGED <<phase, want, w, handed, conn>> /\ out' = [out EXCEPT ![w] = o]
      /\ w \in Streams /\ DOMAIN out = Streams /\ want = 0
    BY HandedIs DEF Writer, readVars, WriteInv, TidyInv
<1>2. out'[w] = o /\ \A s \in Streams \ {w} : out'[s] = out[s]
    BY <1>1
<1>3. phase \in {"serve", "finish"}
    BY DEF FcgiInv, PhaseInv
<1>4. TidyInv'
    BY <1>1, <1>3 DEF TidyInv
<1>5. ASSUME conn = "open" PROVE Live'
    <2>1. Live /\ Others
        BY <1>5 DEF WriteInv, Live
    <2>2. /\ ~o.err /\ \A s \in Streams \ {w} : peer'.shown[s] = peer.shown[s]
          /\ wpc' = "idle" =>
                phase # "finish" /\ Clean(peer') /\ ~peer'.ended
                /\ Filled(o, peer'.shown[w], handed[w], <<>>)
          /\ wpc' \in {"put", "empty"} =>
                ~peer'.ended /\ (~o.raw => Clean(peer') /\ Filled(o, peer'.shown[w], handed[w], todo'))
          /\ wpc' = "write" => pos' <= Len(o.buf) /\ (~o.raw => Sending(peer', Rest(o.buf, pos'), w, handed[w], todo'))
          /\ o.raw => ClosesWith(peer', Rest(o.buf, pos') \o todo', w, handed[w])
          /\ phase = "finish" => o.raw
          /\ wpc' = "end" => o.buf = <<>>
        BY <1>5 DEF Working
    <2>3. Others'
        BY <1>1, <1>2, <2>1, <2>2 DEF Others
    <2>4. \A s \in Streams : ~out'[s].err
        BY <1>2, <2>1, <2>2 DEF Live
    <2>5. wpc' = "idle" => Resting'
        <3>1. SUFFICES ASSUME wpc' = "idle" PROVE Resting'
            OBVIOUS
        <3>2. \A s \in Streams : Filled(out'[s], peer'.shown[s], handed'[s], <<>>)
            <4>1. ASSUME NEW s \in Streams PROVE Filled(out'[s], peer'.shown[s], handed'[s], <<>>)
                <5>1. CASE s = w
                    BY <1>1, <1>2, <2>2, <3>1, <5>1
                <5>2. CASE s # w
                    <6>1. s \in Streams \ {w}
                        BY <5>2
                    <6>2. Filled(out[s], peer.shown[s], handed[s], <<>>)
                        BY <2>1, <2>2, <3>1, <6>1 DEF Others
                    <6> QED BY <1>1, <1>2, <2>2, <6>1, <6>2
                <5> QED BY <5>1, <5>2
            <4> QED BY <4>1
        <3> QED BY <2>2, <3>1, <3>2 DEF Resting
    <2>6. wpc' \in {"put", "empty"} => ~peer'.ended /\ (~out'[w].raw => Buffering')
        BY <1>1, <1>2, <2>2 DEF Buffering
    <2>7. wpc' = "write" =>
              /\ pos' <= Len(out'[w].buf)
              /\ ~out'[w].raw => Sending(peer', Rest(out'[w].buf, pos'), w, handed[w], todo')
        BY <1>2, <2>2
    <2>8. wpc' # "idle" /\ out'[w].raw => ClosesWith(peer', Rest(out'[w].buf, pos') \o todo', w, handed[w])
        BY <1>2, <2>2
    <2>9. phase = "finish" => out'[w].raw
        BY <1>2, <2>2
    <2>10. wpc' = "end" => out'[w].buf = <<>>
        BY <1>2, <2>2
    <2> QED BY <1>1, <2>3, <2>4, <2>5, <2>6, <2>7, <2>8, <2>9, <2>10 DEF Live
<1> QED BY <1>1, <1>4, <1>5 DEF WriteInv

LEMMA SamePeer ==
    ASSUME WriteInv, UNCHANGED <<peer, handed>>
    PROVE  PeerSound'
BY DEF WriteInv, PeerSound

LEMMA PutWrite ==
    ASSUME FcgiInv, WriteInv, Put
    PROVE  WriteInv' /\ peer' = peer /\ handed' = handed
<1> DEFINE n    == Smaller(Len(todo), BuffLen - Len(Buf))
           b    == Buf \o SubSeq(todo, 1, n)
           left == Rest(todo, n)
           o    == [out[w] EXCEPT !.buf = b]
<1>1. /\ Writer(o) /\ wpc = "put" /\ UNCHANGED <<pos, peer>>
      /\ \/ left = <<>> /\ wpc' = Back("write") /\ todo' = <<>>
         \/ left # <<>> /\ ~out[w].err /\ wpc' = "empty" /\ todo' = left
         \/ left # <<>> /\ out[w].err /\ wpc' = Back("write") /\ todo' = <<>>
    BY DEF Put, Buf
<1>2. n \in 0 .. Len(todo) /\ Buf \in Seq(OutUnit) /\ todo \in Seq(OutUnit) /\ w \in Streams
    BY InUse DEF Smaller
<1>3. SubSeq(todo, 1, n) \in Seq(OutUnit) /\ left \in Seq(OutUnit) /\ todo = SubSeq(todo, 1, n) \o left
    BY <1>2, FirstIs, RestIs, SplitAt
<1>4. b \in Seq(OutUnit) /\ Rest(b, 0) \o left = Rest(Buf, 0) \o todo
    <2> DEFINE f == SubSeq(todo, 1, n)
    <2>1. f \in Seq(OutUnit) /\ todo = f \o left /\ b = Buf \o f /\ left \in Seq(OutUnit)
        BY <1>3
    <2> HIDE DEF f, left, b
    <2>2. b \in Seq(OutUnit)
        BY <1>2, <2>1, JoinIs
    <2>3. Rest(b, 0) = b /\ Rest(Buf, 0) = Buf
        BY <1>2, <2>2, RestOf
    <2>4. (Buf \o f) \o left = Buf \o (f \o left)
        <3>1. Buf \in Seq(OutUnit) /\ f \in Seq(OutUnit) /\ left \in Seq(OutUnit)
            BY <1>2, <2>1
        <3> QED BY <3>1, JoinAssoc
    <2> QED BY <2>1, <2>2, <2>3, <2>4
<1>5. wpc' \in {"idle", "write", "empty"} /\ (wpc' = "idle" => todo' = <<>>) /\ (wpc' = "write" => phase = "finish")
      /\ (wpc' = "idle" => phase # "finish")
    BY <1>1 DEF Back, Closing
<1>6. pos = 0 /\ handed' = handed
    BY <1>1 DEF WriteInv, TidyInv, Writer
<1> HIDE DEF n, b, left
<1>7. o.buf = b /\ o.raw = out[w].raw /\ o.err = out[w].err
    BY InUse DEF Writers
<1> HIDE DEF o
<1>8. ASSUME conn = "open" PROVE Working(o, peer, 0, todo', wpc')
    <2>1. Live /\ ~out[w].err /\ ~peer.ended
        BY <1>1, <1>2, <1>8 DEF WriteInv, Live
    <2>2. todo' = left
        BY <1>1, <2>1
    <2>3. CASE out[w].raw
        <3>1. ClosesWith(peer, Rest(out[w].buf, 0) \o todo, w, handed[w])
            BY <1>1, <1>6, <2>1, <2>3 DEF Live
        <3>2. ClosesWith(peer, Rest(o.buf, 0) \o todo', w, handed[w])
            BY <1>4, <1>7, <2>2, <3>1 DEF Buf
        <3>3. phase = "finish"
            BY <1>2, <2>3 DEF FcgiInv, CountInv
        <3>4. 0 <= Len(o.buf)
            BY <1>4, <1>7
        <3> QED BY <1>5, <1>7, <2>1, <2>3, <3>2, <3>3, <3>4 DEF Working
    <2>4. CASE ~out[w].raw
        <3>1. Clean(peer) /\ Filled(out[w], peer.shown[w], handed[w], todo)
            BY <1>1, <2>1, <2>4 DEF Live, Buffering
        <3>2. phase # "finish"
            BY <1>1, <2>1, <2>4 DEF Live
        <3>3. peer.shown[w] \in Nat
            BY <1>2, PeersAre DEF WriteInv, PeerSound
        <3>4. o.buf = out[w].buf \o SubSeq(todo, 1, n) /\ ~o.raw
            BY <1>7, <2>4 DEF b, Buf
        <3>5. Filled(o, peer.shown[w], handed[w], Rest(todo, n))
            BY <1>2, <3>1, <3>3, <3>4, FilledPut
        <3>6. Filled(o, peer.shown[w], handed[w], todo')
            BY <2>2, <3>5 DEF left
        <3> QED BY <1>5, <1>7, <2>1, <2>4, <3>1, <3>2, <3>6 DEF Working
    <2> QED BY <2>3, <2>4
<1>9. PeerSound'
    BY <1>1, <1>6, SamePeer
<1>10. wpc' # "write" => pos' = 0
    BY <1>1, <1>6
<1>11. conn = "open" => Working(o, peer', pos', todo', wpc')
    BY <1>1, <1>6, <1>8
<1>12. wpc' \in {"idle", "end"} => todo' = <<>>
    BY <1>5
<1>13. WriteInv'
    BY <1>1, <1>9, <1>10, <1>11, <1>12, WriterWrite
<1> QED BY <1>1, <1>6, <1>13

LEMMA FailsWrite ==
    ASSUME FewFaults, FcgiInv, WriteInv, WriteFails
    PROVE  WriteInv' /\ peer' = peer /\ handed' = handed
<1> DEFINE o == [out[w] EXCEPT !.any = TRUE, !.err = TRUE]
<1>1. /\ Writer(o) /\ wpc = "write" /\ conn = "cut" /\ wpc' = Written /\ pos' = 0
         /\ UNCHANGED <<todo, peer>>
    BY DEF WriteFails, FewFaults
<1>2. handed' = handed
    BY <1>1 DEF Writer
<1>3. wpc' \in {"idle", "end"} => todo' = <<>>
    BY <1>1 DEF Written
<1>4. PeerSound'
    BY <1>1, <1>2, SamePeer
<1> HIDE DEF o
<1>5. WriteInv'
    BY <1>1, <1>3, <1>4, WriterWrite
<1> QED BY <1>1, <1>2, <1>5

LEMMA DoneWrite ==
    ASSUME FcgiInv, WriteInv, WriteDone
    PROVE  WriteInv' /\ peer' = peer /\ handed' = handed
<1> DEFINE b == IF out[w].raw THEN <<>> ELSE Room
           o == [out[w] EXCEPT !.buf = b]
<1>1. /\ Writer(o) /\ wpc = "write" /\ pos = Len(Buf) /\ wpc' = Written /\ pos' = 0
         /\ UNCHANGED <<todo, peer>>
    BY DEF WriteDone
<1>2. handed' = handed
    BY <1>1 DEF Writer
<1>3. /\ wpc' \in {"put", "idle", "end"} /\ (wpc' = "put" <=> todo # <<>>)
      /\ (wpc' = "idle" => phase # "finish") /\ (wpc' = "end" => phase = "finish")
    BY <1>1 DEF Written, Back, Closing
<1>4. PeerSound'
    BY <1>1, <1>2, SamePeer
<1>5. w \in Streams /\ Buf \in Seq(OutUnit) /\ todo \in Seq(OutUnit) /\ out[w].raw \in BOOLEAN
    BY InUse, HandedIs
<1>6. Rest(Buf, pos) = <<>>
    BY <1>1, <1>5, RestOf
<1>7. peer \in Peers /\ Done(peer) /\ ~peer.bad /\ peer.shown[w] \in Nat
    BY <1>5, PeersAre DEF WriteInv, PeerSound
<1> HIDE DEF b
<1>8. o.buf = b /\ o.raw = out[w].raw /\ o.err = out[w].err
    BY InUse DEF Writers
<1> HIDE DEF o
<1>9. ASSUME conn = "open" PROVE Working(o, peer, 0, todo, wpc')
    <2>1. Live /\ ~out[w].err
        BY <1>5, <1>9 DEF WriteInv, Live
    <2>2. CASE out[w].raw
        <3>1. phase = "finish"
            BY <1>5, <2>2 DEF FcgiInv, CountInv
        <3>2. ClosesWith(peer, <<>> \o todo, w, handed[w])
            BY <1>1, <1>6, <2>1, <2>2 DEF Live, Buf
        <3>3. <<>> \o todo = todo /\ b = <<>> /\ Rest(b, 0) \o todo = todo
            <4>1. <<>> \o todo = todo
                BY <1>5, JoinEmpty
            <4>2. b = <<>>
                BY <2>2 DEF b
            <4>3. Rest(b, 0) = b
                <5>1. b \in Seq(OutUnit)
                    BY <4>2
                <5> QED BY <5>1, RestOf
            <4> QED BY <4>1, <4>2, <4>3
        <3>4. ASSUME todo # <<>> PROVE ~peer.ended
            <4>1. ClosesWith(peer, todo, w, handed[w])
                BY <3>2, <3>3
            <4>2. CASE w = "out"
                BY <1>7, <3>4, <4>1, <4>2, EndedComplete
            <4>3. CASE w = "err"
                <5>1. todo \in Seq(PeerUnit) /\ Delivers(peer, todo, w) /\ ~Sees(peer, todo).ended
                    BY <4>1, <4>3 DEF ClosesWith, Delivers
                <5> QED BY <1>5, <1>7, <5>1, DeliversAll
            <4> QED BY <1>5, <4>2, <4>3 DEF Streams
        <3>5. ClosesWith(peer, Rest(o.buf, 0) \o todo, w, handed[w])
            BY <1>8, <3>2, <3>3
        <3> QED BY <1>3, <1>8, <2>1, <2>2, <3>1, <3>3, <3>4, <3>5 DEF Working
    <2>3. CASE ~out[w].raw
        <3>1. Sending(peer, Rest(Buf, pos), w, handed[w], todo)
            BY <1>1, <2>1, <2>3 DEF Live, Buf
        <3>2. PICK e : e = <<>>
            OBVIOUS
        <3>3. Sending(peer, e, w, handed[w], todo) /\ Sees(peer, e) = peer
            BY <1>6, <1>7, <3>1, <3>2, SeesNothing
        <3>4. Clean(peer) /\ ~peer.ended
            BY <3>3 DEF Sending, Delivers
        <3>5. PICK m \in Nat : todo = Numb(peer.shown[w], m) /\ handed[w] = peer.shown[w] + m
            BY <3>3 DEF Sending
        <3>6. phase # "finish"
            BY <1>1, <2>1, <2>3 DEF Live
        <3>7. o.buf = Room /\ ~o.raw
            BY <1>8, <2>3 DEF b
        <3>8. Filled(o, peer.shown[w], handed[w], todo)
            BY <1>7, <3>5, <3>7, FilledNew
        <3> QED BY <1>3, <1>8, <2>1, <3>4, <3>6, <3>7, <3>8 DEF Working
    <2> QED BY <2>2, <2>3
<1>10. conn = "open" => Working(o, peer', pos', todo', wpc')
    BY <1>1, <1>9
<1>11. wpc' \in {"idle", "end"} => todo' = <<>>
    BY <1>1, <1>3
<1>12. WriteInv'
    BY <1>1, <1>4, <1>10, <1>11, WriterWrite
<1> QED BY <1>1, <1>2, <1>12

-----------------------------------------------------------------------------
(* write_it_all.                                                           *)

LEMMA PartRest ==
    ASSUME NEW S, NEW s \in Seq(S), NEW p \in 0 .. Len(s), NEW n \in 0 .. Len(s) - p
    PROVE  /\ SubSeq(s, p + 1, p + n) \in Seq(S) /\ Len(SubSeq(s, p + 1, p + n)) = n
           /\ Rest(s, p) \in Seq(S) /\ Rest(s, p + n) \in Seq(S)
           /\ Rest(s, p) = SubSeq(s, p + 1, p + n) \o Rest(s, p + n)
<1> DEFINE a == SubSeq(s, p + 1, p + n)
           r == Rest(s, p)
           d == Rest(s, p + n)
<1>1. /\ Len(s) \in Nat /\ p \in Nat /\ n \in Nat /\ p + n \in 0 .. Len(s)
    OBVIOUS
<1>2. a \in Seq(S) /\ Len(a) = n /\ \A i \in 1 .. n : a[i] = s[p + i]
    <2>1. \A i \in p + 1 .. p + n : s[i] \in S
        BY <1>1
    <2>2. Len(a) = n /\ \A i \in 1 .. n : a[i] = s[p + i]
        BY <1>1
    <2> QED BY <1>1, <2>1, <2>2
<1>3. /\ r \in Seq(S) /\ Len(r) = Len(s) - p /\ \A i \in 1 .. Len(s) - p : r[i] = s[p + i]
    BY <1>1, PartAt
<1>4. /\ d \in Seq(S) /\ Len(d) = Len(s) - (p + n) /\ \A i \in 1 .. Len(s) - (p + n) : d[i] = s[(p + n) + i]
    BY <1>1, PartAt
<1> HIDE DEF a, r, d
<1>5. /\ a \o d \in Seq(S) /\ Len(a \o d) = Len(a) + Len(d)
      /\ \A i \in 1 .. Len(a) : (a \o d)[i] = a[i]
      /\ \A i \in 1 .. Len(d) : (a \o d)[Len(a) + i] = d[i]
    <2>1. a \in Seq(S) /\ d \in Seq(S)
        BY <1>2, <1>4
    <2> QED BY <2>1, JoinAt
<1>6. Len(r) = Len(a \o d)
    BY <1>1, <1>2, <1>3, <1>4, <1>5
<1>7. ASSUME NEW i \in 1 .. Len(r) PROVE r[i] = (a \o d)[i]
    <2>1. CASE i <= n
        <3>1. i \in 1 .. n /\ i \in 1 .. Len(s) - p /\ i \in 1 .. Len(a)
            BY <1>1, <1>2, <1>3, <1>7, <2>1
        <3> QED BY <1>2, <1>3, <1>5, <3>1
    <2>2. CASE i > n
        <3> DEFINE j == i - n
        <3>1. j \in 1 .. Len(d) /\ n + j = i /\ (p + n) + j = p + i
            BY <1>1, <1>3, <1>4, <1>7, <2>2
        <3> HIDE DEF j
        <3>2. (a \o d)[i] = d[j]
            BY <1>2, <1>5, <3>1
        <3>3. d[j] = s[p + i]
            BY <1>4, <3>1
        <3> QED BY <1>3, <1>7, <3>2, <3>3
    <2>3. i <= n \/ i > n
        BY <1>1, <1>3, <1>7
    <2> QED BY <2>1, <2>2, <2>3
<1>8. r = a \o d
    BY <1>3, <1>5, <1>6, <1>7, SequencesEqual
<1> QED BY <1>2, <1>3, <1>4, <1>8 DEF a, r, d

LEMMA LastOf ==
    ASSUME NEW S, NEW a \in Seq(S), NEW b \in Seq(S), b # <<>>
    PROVE  (a \o b)[Len(a \o b)] = b[Len(b)]
<1>1. Len(a) \in Nat /\ Len(b) \in Nat /\ Len(b) \in 1 .. Len(b)
    OBVIOUS
<1>2. Len(a \o b) = Len(a) + Len(b) /\ \A i \in 1 .. Len(b) : (a \o b)[Len(a) + i] = b[i]
    BY JoinAt
<1> QED BY <1>1, <1>2

\* The web server has got a part of what the writer sends.
Arrived(p, r, s, h) ==
    /\ r \in Peers /\ ~r.bad /\ Done(r) /\ p.shown[s] <= r.shown[s] /\ r.shown[s] <= h
    /\ \A x \in Streams \ {s} : r.shown[x] = p.shown[x]

LEMMA SendingPart ==
    ASSUME NEW p \in Peers, Done(p), NEW s \in Streams, NEW a \in Seq(PeerUnit), NEW b \in Seq(PeerUnit),
           NEW h, NEW t, Sending(p, a \o b, s, h, t)
    PROVE  Sending(Sees(p, a), b, s, h, t) /\ Arrived(p, Sees(p, a), s, h)
<1> DEFINE r == Sees(p, a)
           q == Sees(p, a \o b)
<1>1. Delivers(p, a \o b, s)
    BY DEF Sending
<1>2. Partly(p, r, q, s) /\ Delivers(r, b, s) /\ Sees(r, b) = q
    BY <1>1, DeliversPart
<1>3. q \in Peers
    <2>1. a \o b \in Seq(PeerUnit)
        BY JoinAt
    <2> QED BY <2>1, SeesIs
<1> HIDE DEF r, q
<1>4. ~q.ended /\ \E m \in Nat : t = Numb(q.shown[s], m) /\ h = q.shown[s] + m
    BY DEF Sending, q
<1>5. Sending(r, b, s, h, t)
    BY <1>2, <1>4 DEF Sending
<1>6. r.shown[s] <= h
    <2>1. r \in Peers /\ r.shown[s] <= q.shown[s]
        BY <1>2 DEF Partly
    <2>2. r.shown[s] \in Nat /\ q.shown[s] \in Nat
        BY <1>3, <2>1, PeersAre
    <2> QED BY <1>4, <2>1, <2>2
<1>7. Arrived(p, r, s, h)
    BY <1>2, <1>6 DEF Arrived, Partly
<1> QED BY <1>5, <1>7 DEF r

LEMMA ClosesPart ==
    ASSUME NEW p \in Peers, Done(p), NEW s \in Streams, NEW a \in Seq(PeerUnit), NEW b \in Seq(PeerUnit),
           a # <<>>, NEW h, ClosesWith(p, a \o b, s, h)
    PROVE  ClosesWith(Sees(p, a), b, s, h) /\ Arrived(p, Sees(p, a), s, h)
<1> DEFINE r == Sees(p, a)
           c == a \o b
           q == Sees(p, c)
<1>1. Delivers(p, c, s)
    BY DEF ClosesWith
<1>2. Partly(p, r, q, s) /\ Delivers(r, b, s) /\ Sees(r, b) = q
    BY <1>1, DeliversPart
<1>3. c # <<>> /\ (b # <<>> => c[Len(c)] = b[Len(b)])
    <2>1. b # <<>> => c[Len(c)] = b[Len(b)]
        BY LastOf
    <2>2. Len(c) = Len(a) + Len(b) /\ Len(a) \in Nat /\ Len(b) \in Nat /\ Len(a) # 0
        BY JoinAt
    <2>3. Len(c) # 0
        BY <2>2
    <2>4. Len(<<>>) = 0
        OBVIOUS
    <2> HIDE DEF c
    <2> QED BY <2>1, <2>3, <2>4
<1> HIDE DEF r, c, q
<1>4. /\ q.shown[s] = h /\ (s = "err" => ~q.ended)
      /\ s = "out" => q.ended /\ c[Len(c)][1] = "data"
    BY <1>3 DEF ClosesWith, c, q
<1>5. s = "out" => q.ended /\ (b = <<>> \/ b[Len(b)][1] = "data")
    BY <1>3, <1>4
<1>6. ClosesWith(r, b, s, h)
    BY <1>2, <1>4, <1>5 DEF ClosesWith
<1>7. Arrived(p, r, s, h)
    BY <1>2, <1>4 DEF Arrived, Partly
<1> QED BY <1>6, <1>7 DEF r

\* What a step of a writer brings the web server.
Progress(p, q) ==
    /\ \A s \in Streams : p.shown[s] <= q.shown[s] /\ q.shown[s] <= handed[s]
    /\ p.ended => q.ended

LEMMA WriteWrite ==
    ASSUME FcgiInv, LinkInv, WriteInv, Write
    PROVE  WriteInv' /\ handed' = handed /\ Progress(peer, peer') /\ conn = "open"
<1> DEFINE o == [out[w] EXCEPT !.any = TRUE]
<1>1. /\ Writer(o) /\ wpc = "write" /\ pos < Len(Buf) /\ conn # "cut" /\ UNCHANGED <<wpc, todo>>
    BY DEF Write
<1>2. PICK n \in OneOrAll(Len(Buf) - pos) :
          pos' = pos + n /\ PeerGets(SubSeq(Buf, pos + 1, pos + n))
    BY DEF Write
<1>3. handed' = handed /\ conn = "open" /\ Live
    <2>1. conn = "open"
        BY <1>1 DEF FcgiInv, PhaseInv, LinkInv
    <2> QED BY <1>1, <2>1 DEF Writer, WriteInv
<1>4. /\ w \in Streams /\ Buf \in Seq(OutUnit) /\ Buf \in Seq(PeerUnit) /\ pos \in Nat
         /\ out[w].raw \in BOOLEAN
      /\ todo \in Seq(PeerUnit) /\ Len(Buf) \in Nat /\ ~out[w].err
    <2>1. w \in Streams /\ Buf \in Seq(OutUnit) /\ todo \in Seq(OutUnit) /\ pos \in Nat
          /\ out[w].raw \in BOOLEAN
          /\ Len(Buf) \in Nat
        BY InUse, HandedIs
    <2>2. Buf \in Seq(PeerUnit) /\ todo \in Seq(PeerUnit)
        BY <2>1, AsPeer
    <2> QED BY <1>3, <2>1, <2>2 DEF Live
<1>5. n \in 1 .. Len(Buf) - pos /\ pos \in 0 .. Len(Buf) /\ pos + n <= Len(Buf) /\ pos + n \in Nat
    BY <1>1, <1>2, <1>4 DEF OneOrAll
<1> DEFINE a == SubSeq(Buf, pos + 1, pos + n)
           b == Rest(Buf, pos + n)
<1>6. /\ a \in Seq(PeerUnit) /\ Len(a) = n /\ b \in Seq(PeerUnit) /\ Rest(Buf, pos) = a \o b
    <2>1. PICK d \in Seq(PeerUnit) : d = Buf
        BY <1>4
    <2>2. pos \in 0 .. Len(d) /\ n \in 0 .. Len(d) - pos
        BY <1>4, <1>5, <2>1
    <2>3. /\ SubSeq(d, pos + 1, pos + n) \in Seq(PeerUnit) /\ Len(SubSeq(d, pos + 1, pos + n)) = n
          /\ Rest(d, pos + n) \in Seq(PeerUnit)
          /\ Rest(d, pos) = SubSeq(d, pos + 1, pos + n) \o Rest(d, pos + n)
        BY <2>2, PartRest, ZenonT(40)
    <2> QED BY <2>1, <2>3
<1>7. peer' = Sees(peer, a)
    BY <1>2 DEF PeerGets, Sees
<1> HIDE DEF a, b
<1>8. a # <<>>
    <2>1. Len(<<>>) = 0 /\ n # 0
        BY <1>5
    <2> QED BY <1>6, <2>1
<1>9. peer \in Peers /\ Done(peer)
    BY DEF WriteInv, PeerSound
<1> DEFINE r == Sees(peer, a)
<1>10. /\ ~out[w].raw => Sending(r, b, w, handed[w], todo) /\ phase # "finish"
       /\ out[w].raw => ClosesWith(r, b \o todo, w, handed[w])
       /\ Arrived(peer, r, w, handed[w])
    <2>1. CASE out[w].raw
        <3>1. ClosesWith(peer, (a \o b) \o todo, w, handed[w])
            BY <1>1, <1>3, <1>6, <2>1 DEF Live, Buf
        <3>2. (a \o b) \o todo = a \o (b \o todo) /\ b \o todo \in Seq(PeerUnit)
            <4>1. a \in Seq(PeerUnit) /\ b \in Seq(PeerUnit) /\ todo \in Seq(PeerUnit)
                BY <1>4, <1>6
            <4>2. (a \o b) \o todo = a \o (b \o todo)
                BY <4>1, JoinAssoc, SMTT(40)
            <4>3. b \o todo \in Seq(PeerUnit)
                BY <4>1, JoinAt
            <4> QED BY <4>2, <4>3
        <3> DEFINE c == b \o todo
        <3>3. c \in Seq(PeerUnit) /\ ClosesWith(peer, a \o c, w, handed[w])
            BY <3>1, <3>2
        <3> HIDE DEF c
        <3>4. ClosesWith(Sees(peer, a), c, w, handed[w]) /\ Arrived(peer, Sees(peer, a), w, handed[w])
            BY <1>4, <1>6, <1>8, <1>9, <3>3, ClosesPart
        <3> QED BY <2>1, <3>4 DEF c
    <2>2. CASE ~out[w].raw
        <3>1. Sending(peer, a \o b, w, handed[w], todo) /\ phase # "finish"
            BY <1>1, <1>3, <1>6, <2>2 DEF Live, Buf
        <3>2. Sending(Sees(peer, a), b, w, handed[w], todo) /\ Arrived(peer, Sees(peer, a), w, handed[w])
            BY <1>4, <1>6, <1>9, <3>1, SendingPart
        <3> QED BY <2>2, <3>1, <3>2
    <2> QED BY <2>1, <2>2
<1>11. peer' = r
    BY <1>7
<1>12. Grows(peer, r)
    BY <1>6, <1>9, SeesGrows
<1> HIDE DEF r
<1>13. o.buf = out[w].buf /\ o.raw = out[w].raw /\ o.err = out[w].err
    BY InUse DEF Writers
<1> HIDE DEF o
<1>14. Working(o, r, pos + n, todo, wpc)
    <2>1. b = Rest(o.buf, pos + n) /\ pos + n <= Len(o.buf)
        BY <1>5, <1>13 DEF b, Buf
    <2>2. \A s \in Streams \ {w} : r.shown[s] = peer.shown[s]
        BY <1>10 DEF Arrived
    <2> QED BY <1>1, <1>4, <1>10, <1>13, <2>1, <2>2 DEF Working
<1>15. Progress(peer, r) /\ \A s \in Streams : r.shown[s] <= handed[s]
    <2>1. ASSUME NEW s \in Streams PROVE peer.shown[s] <= r.shown[s] /\ r.shown[s] <= handed[s]
        <3>1. peer.shown[s] <= handed[s] /\ peer.shown[s] <= r.shown[s]
            BY <1>12 DEF WriteInv, PeerSound, Grows
        <3> QED BY <1>10, <3>1 DEF Arrived
    <2> QED BY <1>12, <2>1 DEF Progress, Grows
<1>16. PeerSound'
    BY <1>3, <1>10, <1>11, <1>15 DEF PeerSound, Arrived
<1>17. Working(o, peer', pos', todo', wpc')
    BY <1>1, <1>2, <1>11, <1>14
<1>18. WriteInv'
    BY <1>1, <1>16, <1>17, WriterWrite
<1> QED BY <1>3, <1>11, <1>15, <1>18

-----------------------------------------------------------------------------
(* EmptyBuffProc and the end of the streams.                               *)

EndOf(id) == Header("end", id, 2, 0) \o Content(<<0, 0>>)

LEMMA EndOfIs ==
    ASSUME NEW id \in Nat
    PROVE  /\ EndOf(id) \in Seq(PeerUnit) /\ EndOf(id) # <<>>
           /\ EndOf(id)[Len(EndOf(id))][1] = "data"
<1> DEFINE h == Header("end", id, 2, 0)
           d == Content(<<0, 0>>)
           u == <<"data", 0>>
           x == <<u>>
<1>1. h \in Seq(PeerUnit)
    <2>1. "end" \in Types /\ 2 \in Nat /\ 0 \in Nat
        BY DEF Types
    <2>2. h \in Seq(OutUnit)
        BY <2>1, HeaderIs
    <2> QED BY <2>2, AsPeer
<1>2. u \in PeerUnit /\ u[1] = "data"
    BY DataUnit
<1>3. x \in Seq(PeerUnit) /\ x # <<>> /\ Len(x) = 1 /\ x[1] = u /\ d = x \o x
    <2>1. d = x \o x
        <3>1. 0 \in Nat
            OBVIOUS
        <3> QED BY <3>1, TwoUnits
    <2> QED BY <1>2, <2>1
<1> HIDE DEF h, d, x
<1>4. d \in Seq(PeerUnit) /\ Len(d) = 2 /\ d[Len(d)] = x[Len(x)]
    <2>1. d \in Seq(PeerUnit) /\ Len(d) = 2
        BY <1>3, JoinAt
    <2>2. (x \o x)[Len(x \o x)] = x[Len(x)]
        BY <1>3, LastOf
    <2> QED BY <1>3, <2>1, <2>2
<1>5. d # <<>>
    BY <1>4, NotEmpty
<1>6. (h \o d)[Len(h \o d)] = d[Len(d)]
    BY <1>1, <1>4, <1>5, LastOf
<1>7. h \o d \in Seq(PeerUnit) /\ Len(h \o d) # 0
    <2>1. h \o d \in Seq(PeerUnit) /\ Len(h \o d) = Len(h) + Len(d)
        BY <1>1, <1>4, JoinAt
    <2>2. PICK a \in Nat : a = Len(h)
        BY <1>1
    <2>3. a + 2 # 0
        OBVIOUS
    <2>4. Len(h \o d) = a + 2
        BY <1>4, <2>1, <2>2
    <2> QED BY <2>1, <2>3, <2>4
<1>8. h \o d # <<>>
    <2>1. Len(<<>>) = 0
        OBVIOUS
    <2> QED BY <1>7, <2>1
<1> QED BY <1>2, <1>3, <1>4, <1>6, <1>7, <1>8 DEF EndOf, h, d

\* The end of the stream, if it has one.
LEMMA LastSeen ==
    ASSUME NEW p \in Peers, Clean(p), ~p.ended, NEW s \in Streams, NEW id \in Nat,
           NEW x, x \in {<<>>, Header(s, id, 0, 0)}
    PROVE  x \in Seq(PeerUnit) /\ Told(p, Sees(p, x), s, 0, FALSE)
<1>1. CASE x = Header(s, id, 0, 0)
    <2>1. s \in Types
        BY DEF Types
    <2> QED BY <1>1, <2>1, EmptySeen
<1>2. CASE x = <<>>
    <2>1. x \in Seq(PeerUnit) /\ Sees(p, x) = p
        BY <1>2, SeesNothing
    <2>2. p.shown[s] + 0 = p.shown[s]
        <3>1. p.shown[s] \in Nat
            BY PeersAre
        <3> QED BY <3>1
    <2> QED BY <2>1, <2>2 DEF Told
<1> QED BY <1>1, <1>2

\* FCGX_FClose after what was in the buffer.
LEMMA Closes ==
    ASSUME NEW p \in Peers, Clean(p), ~p.ended, NEW s \in Streams, NEW h, NEW b,
           Sending(p, b, s, h, <<>>), NEW id \in Nat, NEW x, x \in {<<>>, Header(s, id, 0, 0)},
           NEW y, s = "err" => y = <<>>, s = "out" => y = EndOf(id) /\ id = 1
    PROVE  ClosesWith(p, b \o (x \o y), s, h)
<1> DEFINE q == Sees(p, b)
           r == Sees(q, x)
<1>1. b \in Seq(PeerUnit) /\ Clean(q) /\ ~q.ended /\ \A z \in Streams \ {s} : q.shown[z] = p.shown[z]
    BY DEF Sending, Delivers
<1>2. q \in Peers
    BY <1>1, SeesIs
<1>3. q.shown[s] = h
    <2>1. PICK m \in Nat : <<>> = Numb(q.shown[s], m) /\ h = q.shown[s] + m
        BY DEF Sending
    <2> HIDE DEF q
    <2>2. q.shown[s] \in Nat
        BY <1>2, PeersAre
    <2>3. Len(Numb(q.shown[s], m)) = m
        BY <2>2, NumbIs
    <2>4. m = 0
        BY <2>1, <2>3
    <2> QED BY <2>1, <2>2, <2>4
<1> HIDE DEF q
<1>4. x \in Seq(PeerUnit) /\ Told(q, r, s, 0, FALSE)
    BY <1>1, <1>2, LastSeen
<1>5. /\ r \in Peers /\ Clean(r) /\ ~r.ended /\ r.shown[s] = h
      /\ \A z \in Streams \ {s} : r.shown[z] = p.shown[z]
    <2>1. q.shown[s] + 0 = q.shown[s]
        <3>1. q.shown[s] \in Nat
            BY <1>2, PeersAre
        <3> QED BY <3>1
    <2> QED BY <1>1, <1>3, <1>4, <2>1 DEF Told
<1> HIDE DEF r
<1>6. y \in Seq(PeerUnit)
    <2>1. <<>> \in Seq(PeerUnit)
        OBVIOUS
    <2> QED BY <2>1, EndOfIs DEF Streams
<1> DEFINE c == b \o (x \o y)
<1>7. x \o y \in Seq(PeerUnit) /\ c \in Seq(PeerUnit)
    <2>1. x \o y \in Seq(PeerUnit)
        BY <1>4, <1>6, JoinAt
    <2> QED BY <1>1, <2>1, JoinAt
<1>8. Sees(p, c) = Sees(r, y)
    <2>1. Sees(p, c) = Sees(q, x \o y)
        BY <1>1, <1>7, SeesMore DEF q
    <2>2. Sees(q, x \o y) = Sees(r, y)
        BY <1>2, <1>4, <1>6, SeesMore DEF r
    <2> QED BY <2>1, <2>2
<1>9. CASE s = "err"
    <2>1. Sees(p, c) = r
        BY <1>5, <1>8, <1>9, SeesNothing
    <2> HIDE DEF c
    <2>2. Delivers(p, c, s)
        BY <1>5, <1>7, <2>1 DEF Delivers
    <2>3. ClosesWith(p, c, s, h)
        BY <1>5, <1>9, <2>1, <2>2 DEF ClosesWith
    <2> QED BY <2>3 DEF c
<1>10. CASE s = "out"
    <2>1. Told(r, Sees(r, y), s, 0, TRUE)
        <3>1. 0 \in Nat /\ 1 \in Nat
            OBVIOUS
        <3>2. PICK e : e = ("end" = "end" /\ id = 1)
            OBVIOUS
        <3>3. Told(r, Sees(r, EndOf(id)), s, 0, e)
            BY <1>5, <3>1, <3>2, ShortSeen DEF EndOf
        <3>4. e = TRUE
            BY <1>10, <3>2
        <3> QED BY <1>10, <3>3, <3>4
    <2>2. /\ Sees(p, c) \in Peers /\ Clean(Sees(p, c)) /\ Sees(p, c).ended /\ Sees(p, c).shown[s] = h
          /\ \A z \in Streams \ {s} : Sees(p, c).shown[z] = p.shown[z]
        <3>1. r.shown[s] + 0 = r.shown[s]
            <4>1. r.shown[s] \in Nat
                BY <1>5, PeersAre
            <4> QED BY <4>1
        <3>2. PICK g : g = Sees(r, y)
            OBVIOUS
        <3>3. g \in Peers /\ Clean(g) /\ g.ended /\ g.shown[s] = h /\ \A z \in Streams \ {s} : g.shown[z] = p.shown[z]
            BY <1>5, <2>1, <3>1, <3>2 DEF Told
        <3> HIDE DEF c
        <3> QED BY <1>8, <3>2, <3>3
    <2>3. c[Len(c)][1] = "data"
        <3>1. y # <<>> /\ y[Len(y)][1] = "data"
            BY <1>10, EndOfIs
        <3>2. (x \o y)[Len(x \o y)] = y[Len(y)]
            BY <1>4, <1>6, <3>1, LastOf
        <3> DEFINE d == x \o y
        <3>3. d # <<>> /\ d \in Seq(PeerUnit)
            <4>1. Len(d) = Len(x) + Len(y)
                BY <1>4, <1>6, JoinAt
            <4>2. Len(x) \in Nat /\ Len(y) \in Nat /\ Len(y) # 0
                BY <1>4, <1>6, <3>1
            <4>3. Len(d) # 0 /\ Len(<<>>) = 0
                BY <4>1, <4>2
            <4> HIDE DEF d
            <4>4. d # <<>>
                BY <4>3
            <4> QED BY <1>7, <4>4 DEF d
        <3> HIDE DEF d
        <3>4. (b \o d)[Len(b \o d)] = d[Len(d)]
            BY <1>1, <3>3, LastOf
        <3> QED BY <3>1, <3>2, <3>4 DEF d
    <2> HIDE DEF c
    <2>4. Delivers(p, c, s)
        BY <1>7, <2>2 DEF Delivers
    <2>5. ClosesWith(p, c, s, h)
        BY <1>10, <2>2, <2>3, <2>4 DEF ClosesWith
    <2> QED BY <2>5 DEF c
<1> QED BY <1>9, <1>10 DEF Streams

LEMMA CloseRecordsAre ==
    ASSUME FcgiInv, NEW b
    PROVE  \E x \in {<<>>, Header(w, req.id, 0, 0)}, y \in {<<>>, EndOf(req.id)} :
              CloseRecords(b) = x \o y /\ (y = <<>> <=> req.writers # 1)
<1>1. EndOf(req.id) # <<>>
    BY IdsAre, EndOfIs
<1> DEFINE x == IF w = "err" /\ b = <<>> /\ ~out[w].any THEN <<>> ELSE Header(w, req.id, 0, 0)
           y == IF req.writers = 1 THEN EndOf(req.id) ELSE <<>>
<1>2. CloseRecords(b) = x \o y
    BY DEF CloseRecords, EndOf
<1>3. x \in {<<>>, Header(w, req.id, 0, 0)} /\ y \in {<<>>, EndOf(req.id)} /\ (y = <<>> <=> req.writers # 1)
    BY <1>1
<1> HIDE DEF x, y
<1> QED BY <1>2, <1>3

LEMMA EmptyWrite ==
    ASSUME FcgiInv, LinkInv, WriteInv, Empty
    PROVE  WriteInv' /\ peer' = peer /\ handed' = handed
<1> DEFINE b == IF out[w].raw THEN Buf ELSE Encapsulated(Buf)
           o == [out[w] EXCEPT !.buf = b]
           r == [out[w] EXCEPT !.buf = b, !.raw = TRUE]
<1>1. /\ wpc = "empty" /\ pos' = 0 /\ peer' = peer /\ out[w] \in Writers
      /\ \/ /\ phase = "finish" /\ ~out[w].raw /\ Writer(r)
            /\ todo' = CloseRecords(b) /\ wpc' = "put"
         \/ /\ phase # "finish" \/ out[w].raw
            /\ Writer(o) /\ wpc' = "write" /\ UNCHANGED todo
    BY InUse DEF Empty, Closing
<1>2. handed' = handed /\ w \in Streams /\ Buf \in Seq(OutUnit) /\ todo \in Seq(OutUnit)
    BY <1>1, InUse DEF Writer
<1>3. b \in Seq(OutUnit)
    BY <1>1, <1>2, EncapsulatedIs
<1>4. Rest(b, 0) = b /\ 0 <= Len(b)
    BY <1>3, RestOf
<1>5. PeerSound' /\ pos = 0
    BY <1>1, <1>2, SamePeer DEF WriteInv, TidyInv
<1>6. out[w].raw => b = Buf
    OBVIOUS
<1>7. ASSUME conn = "open", ~out[w].raw
      PROVE  /\ Sending(peer, b, w, handed[w], todo) /\ ~peer.ended /\ ~out[w].err /\ Clean(peer)
             /\ Live /\ peer \in Peers
    <2>1. Live /\ ~out[w].err /\ ~peer.ended /\ peer \in Peers
        BY <1>1, <1>2, <1>7 DEF WriteInv, Live, PeerSound
    <2>2. Clean(peer) /\ Filled(out[w], peer.shown[w], handed[w], todo)
        BY <1>1, <1>7, <2>1 DEF Live, Buffering
    <2>3. Sending(peer, Encapsulated(Buf), w, handed[w], todo)
        BY <1>1, <2>1, <2>2, Encapsulates
    <2> QED BY <1>7, <2>1, <2>2, <2>3
<1> HIDE DEF b
<1>8. /\ o.buf = b /\ o.raw = out[w].raw /\ o.err = out[w].err
      /\ r.buf = b /\ r.raw /\ r.err = out[w].err
    BY <1>1 DEF Writers
<1> HIDE DEF o, r
<1>9. CASE Writer(o) /\ wpc' = "write" /\ UNCHANGED todo /\ (phase # "finish" \/ out[w].raw)
    <2>1. ASSUME conn = "open" PROVE Working(o, peer, 0, todo, "write")
        <3>1. Live /\ ~out[w].err
            BY <1>2, <2>1 DEF WriteInv, Live
        <3>2. out[w].raw => ClosesWith(peer, Rest(o.buf, 0) \o todo, w, handed[w])
            BY <1>1, <1>5, <1>6, <1>8, <3>1 DEF Live, Buf
        <3>3. ~out[w].raw => Sending(peer, Rest(o.buf, 0), w, handed[w], todo)
            BY <1>4, <1>7, <1>8, <2>1
        <3> QED BY <1>4, <1>8, <1>9, <3>1, <3>2, <3>3 DEF Working
    <2>2. conn = "open" => Working(o, peer', pos', todo', wpc')
        BY <1>1, <1>9, <2>1
    <2>3. WriteInv'
        BY <1>1, <1>5, <1>9, <2>2, WriterWrite
    <2> QED BY <1>1, <1>2, <2>3
<1>10. CASE /\ phase = "finish" /\ ~out[w].raw /\ Writer(r)
            /\ todo' = CloseRecords(b) /\ wpc' = "put"
    <2>1. ASSUME conn = "open" PROVE Working(r, peer, 0, CloseRecords(b), "put")
        <3>1. Sending(peer, b, w, handed[w], <<>>)
            <4>1. todo = <<>>
                BY <1>7, <1>10, <2>1 DEF Live
            <4> QED BY <1>7, <1>10, <2>1, <4>1
        <3>2. PICK x \in {<<>>, Header(w, req.id, 0, 0)}, y \in {<<>>, EndOf(req.id)} :
                  CloseRecords(b) = x \o y /\ (y = <<>> <=> req.writers # 1)
            BY CloseRecordsAre
        <3>3. req.id = 1 /\ req.writers = Unclosed("err") + Unclosed("out")
            BY <1>10 DEF LinkInv, FcgiInv, CountInv
        <3>4. w = "err" => y = <<>>
            <4>1. SUFFICES ASSUME w = "err" PROVE y = <<>>
                OBVIOUS
            <4>2. "out" \in Streams \ {w}
                BY <4>1 DEF Streams
            <4>3. ~out["out"].raw
                BY <1>1, <1>7, <1>10, <2>1, <4>2 DEF Live, Others, Filled
            <4>4. req.writers = 2
                BY <1>10, <3>3, <4>1, <4>3 DEF Unclosed
            <4> QED BY <3>2, <4>4
        <3>5. w = "out" => y = EndOf(req.id)
            <4>1. SUFFICES ASSUME w = "out" PROVE y = EndOf(req.id)
                OBVIOUS
            <4>2. "err" \in Streams \ {w}
                BY <4>1 DEF Streams
            <4>3. out["err"].raw
                BY <1>1, <1>7, <1>10, <2>1, <4>2 DEF Live, Others
            <4>4. req.writers = 1
                BY <1>10, <3>3, <4>1, <4>3 DEF Unclosed
            <4> QED BY <3>2, <4>4
        <3>6. PICK id \in Nat : id = req.id
            BY <3>3
        <3>7. ClosesWith(peer, b \o (x \o y), w, handed[w])
            <4>1. x \in {<<>>, Header(w, id, 0, 0)} /\ (w = "out" => y = EndOf(id) /\ id = 1)
                BY <3>2, <3>3, <3>5, <3>6
            <4>2. peer \in Peers /\ Clean(peer) /\ ~peer.ended
                BY <1>7, <1>10, <2>1
            <4> QED BY <1>2, <3>1, <3>4, <4>1, <4>2, Closes
        <3>8. ClosesWith(peer, Rest(r.buf, 0) \o CloseRecords(b), w, handed[w])
            BY <1>4, <1>8, <3>2, <3>7
        <3> QED BY <1>7, <1>8, <1>10, <2>1, <3>8 DEF Working
    <2>2. conn = "open" => Working(r, peer', pos', todo', wpc')
        BY <1>1, <1>10, <2>1
    <2>3. WriteInv'
        BY <1>1, <1>5, <1>10, <2>2, WriterWrite
    <2> QED BY <1>1, <1>2, <2>3
<1> QED BY <1>1, <1>9, <1>10

-----------------------------------------------------------------------------
\* A stream is closed and all of it has been written.
LEMMA AtEnd ==
    ASSUME FcgiInv, WriteInv, conn = "open", wpc = "end"
    PROVE  /\ phase = "finish" /\ out[w].raw /\ todo = <<>> /\ pos = 0 /\ want = 0 /\ Live
           /\ Clean(peer) /\ handed[w] = peer.shown[w] /\ (w = "err" => ~peer.ended)
<1>1. phase = "finish" /\ todo = <<>> /\ pos = 0 /\ want = 0 /\ Live /\ peer \in Peers
    BY DEF FcgiInv, PhaseInv, WriteInv, TidyInv, PeerSound
<1>2. out[w].raw /\ out[w].buf = <<>>
    BY <1>1 DEF Live
<1>3. ClosesWith(peer, Rest(<<>>, 0) \o <<>>, w, handed[w])
    BY <1>1, <1>2 DEF Live
<1>4. Rest(<<>>, 0) \o <<>> = <<>>
    <2>0. <<>> \in Seq(PeerUnit)
        OBVIOUS
    <2>1. PICK e \in Seq(PeerUnit) : e = <<>>
        BY <2>0
    <2>2. Rest(e, 0) = e
        BY RestOf
    <2>3. e \o <<>> = e
        BY JoinEmpty
    <2>4. Rest(e, 0) \o <<>> = e
        BY <2>2, <2>3
    <2> QED BY <2>1, <2>4
<1>5. PICK e : e = <<>>
    OBVIOUS
<1>6. ClosesWith(peer, e, w, handed[w]) /\ Sees(peer, e) = peer
    BY <1>1, <1>3, <1>4, <1>5, SeesNothing
<1>7. Clean(peer) /\ handed[w] = peer.shown[w] /\ (w = "err" => ~peer.ended)
    BY <1>6 DEF ClosesWith, Delivers
<1> QED BY <1>1, <1>2, <1>7

LEMMA ClosedWrite ==
    ASSUME FcgiInv, WriteInv, StreamClosed
    PROVE  WriteInv' /\ peer' = peer /\ handed' = handed
<1>1. /\ wpc = "end" /\ w = "err" /\ w' = "out" /\ wpc' = "empty"
      /\ UNCHANGED <<phase, want, out, todo, pos, handed, conn, peer>>
    BY DEF StreamClosed, readVars, peerVars
<1>2. phase = "finish" /\ want = 0 /\ pos = 0
    BY <1>1 DEF FcgiInv, PhaseInv, WriteInv, TidyInv
<1>3. TidyInv'
    BY <1>1, <1>2 DEF TidyInv
<1>4. PeerSound'
    BY <1>1 DEF WriteInv, PeerSound
<1>5. ASSUME conn = "open" PROVE Live'
    <2>1. /\ out["err"].raw /\ todo = <<>> /\ Live /\ Clean(peer) /\ ~peer.ended
          /\ handed["err"] = peer.shown["err"]
        BY <1>1, <1>5, AtEnd
    <2>2. "out" \in Streams \ {"err"} /\ \A s \in Streams \ {"out"} : s = "err"
        BY DEF Streams
    <2>3. Filled(out["out"], peer.shown["out"], handed["out"], <<>>) /\ ~out["out"].raw
        BY <1>1, <2>1, <2>2 DEF Live, Others, Filled
    <2>4. Others'
        BY <1>1, <1>2, <2>1, <2>2 DEF Others
    <2>5. Buffering'
        BY <1>1, <2>1, <2>3 DEF Buffering
    <2> QED BY <1>1, <1>2, <2>1, <2>3, <2>4, <2>5 DEF Live
<1> QED BY <1>1, <1>3, <1>4, <1>5 DEF WriteInv

LEMMA FinishedWrite ==
    ASSUME FcgiInv, WriteInv, Finished
    PROVE  WriteInv' /\ peer' = peer /\ handed' = handed
<1>1. /\ wpc = "end" /\ w = "out" /\ wpc' = "idle" /\ out' = [s \in Streams |-> NewWriter]
      /\ UNCHANGED <<want, w, todo, pos, handed, peer>> /\ phase' \in {"accept", "begin"}
      /\ conn' = "closed" \/ (conn' = conn /\ phase' = "begin")
    BY DEF Finished, Close
<1>2. pos = 0 /\ todo = <<>>
    BY <1>1 DEF WriteInv, TidyInv
<1>3. TidyInv'
    BY <1>1, <1>2 DEF TidyInv
<1>4. PeerSound'
    BY <1>1 DEF WriteInv, PeerSound
<1>5. ASSUME conn' = "open" PROVE Live'
    <2>1. conn = "open" /\ phase' = "begin"
        BY <1>1, <1>5
    <2>2. /\ phase = "finish" /\ Live /\ Clean(peer) /\ handed["out"] = peer.shown["out"] /\ peer \in Peers
        BY <1>1, <2>1, AtEnd DEF WriteInv, PeerSound
    <2>3. handed["err"] = peer.shown["err"]
        <3>1. "err" \in Streams \ {"out"}
            BY DEF Streams
        <3> QED BY <1>1, <2>2, <3>1 DEF Live, Others
    <2>4. ~NewWriter.raw /\ ~NewWriter.err /\ NewWriter.buf = Room
        BY DEF NewWriter
    <2>5. ASSUME NEW s \in Streams
          PROVE  /\ ~out'[s].raw /\ ~out'[s].err
                 /\ Filled(out'[s], peer'.shown[s], handed'[s], <<>>)
        <3>1. out'[s] = NewWriter /\ peer.shown[s] \in Nat
            BY <1>1, <2>2, PeersAre
        <3>2. handed[s] = peer.shown[s]
            BY <2>2, <2>3 DEF Streams
        <3>3. Filled(out'[s], peer.shown[s], peer.shown[s], <<>>)
            BY <2>4, <3>1, FilledFresh
        <3> QED BY <1>1, <2>4, <3>1, <3>2, <3>3
    <2>6. Resting'
        BY <1>1, <2>1, <2>2, <2>5 DEF Resting
    <2>7. w' \in Streams
        BY <1>1 DEF Streams
    <2> QED BY <1>1, <2>1, <2>5, <2>6, <2>7 DEF Live
<1> QED BY <1>1, <1>3, <1>4, <1>5 DEF WriteInv

-----------------------------------------------------------------------------
(* Every step keeps what holds of the reader and of the writers, and what  *)
(* the runs check of the parameters and the body follows.                  *)

AnswerInv == FcgiInv /\ StreamInv /\ WriteInv

\* Of these steps the web server sees nothing of the answer.
LEMMA ReaderAnswer ==
    ASSUME RegularTalks, FewFaults, AnswerInv, ReaderStep
    PROVE  StreamInv' /\ Undisturbed
<1>1. FcgiInv /\ StreamInv /\ WriteInv
    BY DEF AnswerInv
<1>2. CASE Read \/ FillContent \/ FillPadding \/ FillHeader \/ Take
    <2>1. StreamInv'
        BY <1>1, <1>2, ReadStream, FillStream, TakeStream
    <2>2. WriteInv' /\ peer' = peer /\ handed' = handed
        BY <1>1, <1>2, ReadWrite
    <2> QED BY <2>1, <2>2 DEF Undisturbed
<1>3. CASE ProcessHeader
    <2>1. Undisturbed
        BY <1>1, <1>3, HeaderWrite
    <2> QED BY <1>1, <1>3, <2>1, HeaderStream DEF Undisturbed
<1>4. CASE ValuesRead
    <2>1. Undisturbed
        BY <1>1, <1>4, ValuesWrite
    <2> QED BY <1>1, <1>4, <2>1, ValuesStream DEF Undisturbed
<1>5. CASE Accept \/ Begun \/ NotBegun \/ ParamsRead
    <2>1. WriteInv' /\ peer' = peer /\ handed' = handed
        BY <1>1, <1>5, TurnWrite
    <2>2. StreamInv'
        <3>1. CASE NotBegun
            <4>1. Close /\ UNCHANGED <<talk, hurt, peer>>
                BY <3>1 DEF NotBegun, TryAgain
            <4> QED BY <1>1, <3>1, <4>1, CloseStream
        <3> QED BY <1>1, <1>5, <3>1, AcceptStream, BegunStream, ParamsStream
    <2> QED BY <2>1, <2>2 DEF Undisturbed
<1> QED BY <1>2, <1>3, <1>4, <1>5 DEF ReaderStep, AcceptStep

LEMMA AppAnswer ==
    ASSUME RegularTalks, FewFaults, AnswerInv,
           AppStep \/ \E s \in Streams : AppFlush(s)
    PROVE  StreamInv' /\ Undisturbed
<1>1. FcgiInv /\ StreamInv /\ WriteInv
    BY DEF AnswerInv
<1>2. CASE AppRead \/ AppTakes \/ AppEnd
    <2>1. StreamInv'
        BY <1>1, <1>2, AppStream, AppTakesStream
    <2>2. WriteInv' /\ peer' = peer /\ handed' = handed
        BY <1>1, <1>2, ReadWrite
    <2> QED BY <2>1, <2>2 DEF Undisturbed
<1>3. CASE Finish \/ \E s \in Streams : AppFlush(s)
    <2>1. StreamInv'
        BY <1>1, <1>3, AppStream, FinishStream
    <2>2. WriteInv' /\ peer' = peer /\ handed' = handed
        BY <1>1, <1>3, FlushWrite
    <2> QED BY <2>1, <2>2 DEF Undisturbed
<1> QED BY <1>2, <1>3 DEF AppStep

LEMMA WriterAnswer ==
    ASSUME RegularTalks, FewFaults, AnswerInv, WriterStep, ~Write
    PROVE  StreamInv' /\ Undisturbed
<1>1. FcgiInv /\ StreamInv /\ WriteInv /\ LinkInv
    BY DEF AnswerInv, StreamInv
<1>2. StreamInv'
    BY <1>1, WriterStream, FinishedStream DEF WriterStep
<1>3. WriteInv' /\ peer' = peer /\ handed' = handed
    BY <1>1, PutWrite, EmptyWrite, FailsWrite, DoneWrite, ClosedWrite, FinishedWrite DEF WriterStep
<1> QED BY <1>2, <1>3 DEF Undisturbed

LEMMA CutAnswer ==
    ASSUME AnswerInv, Cut
    PROVE  StreamInv' /\ Undisturbed
<1>1. FcgiInv /\ StreamInv /\ WriteInv
    BY DEF AnswerInv
<1>2. StreamInv' /\ WriteInv' /\ peer' = peer /\ handed' = handed
    BY <1>1, CutStream, CutWrite
<1> QED BY <1>2 DEF Undisturbed

LEMMA StillAnswer ==
    ASSUME AnswerInv, UNCHANGED vars
    PROVE  StreamInv' /\ Undisturbed
<1>1. PICK t \in {talk} : StreamOf(t)
    BY DEF AnswerInv, StreamInv
<1>2. talk' = t /\ StreamOf(t)' /\ Whole(in)' /\ LinkInv'
    <2>1. talk' = t
        BY <1>1 DEF vars, peerVars
    <2>2. StreamOf(t)'
        <3>1. /\ UNCHANGED <<phase, in, got, want, params, req, out, w, wpc, todo, pos>>
              /\ UNCHANGED <<wire, conn, hurt, peer>>
            BY DEF vars, readVars, writeVars, peerVars
        <3>2. InAccept(t)' /\ InFinish(t)'
            BY <1>1, <3>1 DEF StreamOf, InAccept, InFinish, Incoming, Over
        <3>3. InBegin(t)'
            BY <1>1, <3>1 DEF StreamOf, InBegin, Beginning, NoWire, Starting, Incoming
        <3>4. InParams(t)'
            BY <1>1, <3>1 DEF StreamOf, InParams, ParamsAt, Reading, Broken, Incoming
        <3>5. ASSUME BodyAt(t) PROVE BodyAt(t)'
            BY <3>1, <3>5 DEF BodyAt, Reading, Drifting, Halted, Incoming
        <3>6. InServe(t)'
            BY <1>1, <3>1, <3>5 DEF StreamOf, InServe, ParamsGot
        <3> QED BY <3>2, <3>3, <3>4, <3>6 DEF StreamOf
    <2>3. Whole(in)'
        BY DEF AnswerInv, StreamInv, vars, readVars
    <2>4. LinkInv'
        BY DEF AnswerInv, StreamInv, LinkInv, vars, readVars, writeVars, peerVars
    <2> QED BY <2>1, <2>2, <2>3, <2>4
<1>3. StreamInv'
    BY <1>2, StreamIs
<1>4. WriteInv'
    BY DEF AnswerInv, WriteInv, TidyInv, PeerSound, Live, Resting, Others, Buffering,
           vars, readVars, writeVars, peerVars
<1> QED BY <1>3, <1>4 DEF Undisturbed, vars, writeVars, peerVars

LEMMA AnswerInit == Init => AnswerInv
BY FcgiInit, StreamInit, WriteInit DEF AnswerInv

LEMMA AnswerStep ==
    ASSUME RegularTalks, FewFaults, AnswerInv, [Next]_vars
    PROVE  AnswerInv'
<1>1. FcgiInv'
    BY FcgiStep DEF AnswerInv
<1>2. FcgiInv /\ StreamInv /\ WriteInv /\ LinkInv
    BY DEF AnswerInv, StreamInv
<1>3. CASE ReaderStep
    BY <1>1, <1>3, ReaderAnswer DEF AnswerInv, Undisturbed
<1>4. CASE AppStep \/ \E s \in Streams : AppFlush(s)
    BY <1>1, <1>4, AppAnswer DEF AnswerInv, Undisturbed
<1>5. CASE WriterStep /\ ~Write
    BY <1>1, <1>5, WriterAnswer DEF AnswerInv, Undisturbed
<1>6. CASE Write
    BY <1>1, <1>2, <1>6, WriterStream, WriteWrite DEF AnswerInv
<1>7. CASE \E s \in Streams : AppWrite(s)
    BY <1>1, <1>2, <1>7, AppStream, AppWriteWrite DEF AnswerInv
<1>8. CASE Request
    BY <1>1, <1>2, <1>8, PeerFollows, RequestStream, RequestWrite DEF AnswerInv
<1>9. CASE Cut
    BY <1>1, <1>9, CutAnswer DEF AnswerInv, Undisturbed
<1>10. CASE UNCHANGED vars
    BY <1>1, <1>10, StillAnswer DEF AnswerInv, Undisturbed
<1> QED BY <1>3, <1>4, <1>5, <1>6, <1>7, <1>8, <1>9, <1>10 DEF Next

-----------------------------------------------------------------------------
LEMMA SentIs ==
    ASSUME NEW type
    PROVE  Sent(type) = FlattenSeq(Pieces(talk, type))
BY DEF Sent, Pieces

LEMMA ServedTalk ==
    ASSUME RegularTalks, AnswerInv, phase = "serve"
    PROVE  /\ Regular(talk) /\ Proper(talk) /\ talk \in Seq(Record)
           /\ ParamsGot(talk) /\ BodyAt(talk) /\ Sound(in)
<1>1. Regular(talk)
    BY TalkRegular DEF AnswerInv, FcgiInv, TalkInv
<1>2. Proper(talk) /\ ParamsGot(talk) /\ BodyAt(talk)
    BY DEF AnswerInv, StreamInv, StreamOf, InServe
<1> QED BY <1>1, <1>2, RegularIs DEF AnswerInv, FcgiInv, ReaderInv

LEMMA ParamsSent ==
    ASSUME RegularTalks, AnswerInv
    PROVE  ParamsAreSent
<1> SUFFICES ASSUME phase = "serve"
             PROVE  IsPrefix(params, Sent("params")) /\ (hurt \/ params = Sent("params"))
    BY DEF ParamsAreSent
<1> QED BY ServedTalk, SentIs DEF ParamsGot

LEMMA BodySent ==
    ASSUME RegularTalks, AnswerInv
    PROVE  BodyIsSent
<1> SUFFICES ASSUME phase = "serve"
             PROVE  /\ IsPrefix(got, Sent("stdin"))
                    /\ in.closed /\ ~in.err /\ in.sub = "none" /\ in.avail = 0 => got = Sent("stdin")
    BY DEF BodyIsSent
<1>1. /\ Regular(talk) /\ Proper(talk) /\ talk \in Seq(Record) /\ BodyAt(talk) /\ Sound(in)
      /\ Sent("stdin") = FlattenSeq(Pieces(talk, "stdin"))
    BY ServedTalk, SentIs
<1>2. CASE Reading(talk, "stdin", End(talk), Len(talk))
    BY <1>1, <1>2, BodyRead, BodyFull
<1>3. CASE Drifting(talk, Start(talk), End(talk))
    <2>1. got = <<>> /\ in.err
        BY <1>3 DEF Drifting, Adrift
    <2> QED BY <1>1, <2>1, EmptyPrefix
<1>4. CASE Halted(talk)
    BY <1>1, <1>4 DEF Halted
<1> QED BY <1>1, <1>2, <1>3, <1>4 DEF BodyAt

\* The application gets the parameters of its request, however they were cut into records
\* and reads and whatever came between (ReadParams): for every size of the buffer and
\* every sequence of requests that keep to the protocol.
THEOREM ParamsArrive ==
    ASSUME RegularTalks, FewFaults
    PROVE  Spec => []ParamsAreSent
<1>1. AnswerInv /\ [Next]_vars => AnswerInv'
    BY AnswerStep
<1>2. AnswerInv => ParamsAreSent
    BY ParamsSent
<1> QED BY <1>1, <1>2, AnswerInit, PTL DEF Spec

\* It gets the body in order, and when it is told of its end without an error it has
\* all of it (FCGX_GetStr, FillBuffProc).
THEOREM BodyArrives ==
    ASSUME RegularTalks, FewFaults
    PROVE  Spec => []BodyIsSent
<1>1. AnswerInv /\ [Next]_vars => AnswerInv'
    BY AnswerStep
<1>2. AnswerInv => BodyIsSent
    BY BodySent
<1> QED BY <1>1, <1>2, AnswerInit, PTL DEF Spec

-----------------------------------------------------------------------------
(* The answer is what Response promises.                                   *)

\* Nothing is written after the connection is cut.
CutInv == conn = "cut" => ~peer.ended
FinalInv == AnswerInv /\ CutInv

\* How a step that the web server does not see may change the connection.
ConnStep ==
    \/ conn' = conn
    \/ conn = "open" /\ conn' = "cut" /\ ~peer.ended
    \/ conn # "none" /\ conn' = "closed"

LEMMA ClosesOpen ==
    ASSUME AnswerInv, phase # "accept", conn' \in {conn, "closed"}
    PROVE  ConnStep
<1>1. conn # "none"
    BY DEF AnswerInv, FcgiInv, TalkInv
<1> QED BY <1>1 DEF ConnStep

LEMMA ReaderParts ==
    ASSUME AnswerInv, ReaderStep
    PROVE  ConnStep
<1>1. CASE Read \/ FillContent \/ FillPadding \/ FillHeader \/ Take \/ Accept
    BY <1>1 DEF Read, FillContent, FillPadding, FillHeader, Reader, Take, Accept, peerVars, ConnStep
<1>2. CASE ProcessHeader
    BY <1>2 DEF ProcessHeader, ProcessWrong, ProcessBegin, ProcessSecondBegin, ProcessOther,
       ProcessValues, ProcessUnknown, ProcessStream, Reader, Reply, peerVars, ConnStep
<1>3. CASE ValuesRead
    BY <1>3 DEF ValuesRead, Reader, Reply, peerVars, ConnStep
<1>4. CASE Begun
    <2>1. phase # "accept"
        BY <1>4 DEF AnswerInv, FcgiInv, PhaseInv, Begun
    <2>2. conn' \in {conn, "closed"}
        BY <1>4 DEF Begun, TryAgain, Close, peerVars
    <2> QED BY <2>1, <2>2, ClosesOpen
<1>5. CASE NotBegun \/ ParamsRead
    <2>1. phase # "accept"
        BY <1>5 DEF NotBegun, ParamsRead
    <2>2. conn' \in {conn, "closed"}
        BY <1>5 DEF NotBegun, ParamsRead, TryAgain, Close, peerVars
    <2> QED BY <2>1, <2>2, ClosesOpen
<1> QED BY <1>1, <1>2, <1>3, <1>4, <1>5 DEF ReaderStep, AcceptStep

LEMMA AppParts ==
    ASSUME AppStep \/ \E s \in Streams : AppFlush(s)
    PROVE  ConnStep
BY DEF AppStep, AppRead, AppTakes, AppEnd, Finish, AppFlush, peerVars, ConnStep

LEMMA WriterParts ==
    ASSUME AnswerInv, WriterStep
    PROVE  ConnStep
<1>1. CASE Put \/ Empty \/ Write \/ WriteFails \/ WriteDone \/ StreamClosed
    BY <1>1 DEF Put, Empty, Write, WriteFails, WriteDone, StreamClosed, Writer, peerVars, ConnStep
<1>2. CASE Finished
    <2>1. phase # "accept"
        BY <1>2 DEF AnswerInv, FcgiInv, PhaseInv, Finished
    <2>2. conn' \in {conn, "closed"}
        BY <1>2 DEF Finished, Close
    <2> QED BY <2>1, <2>2, ClosesOpen
<1> QED BY <1>1, <1>2 DEF WriterStep

LEMMA OthersPart ==
    ASSUME Cut \/ UNCHANGED vars
    PROVE  ConnStep
BY DEF Cut, vars, peerVars, ConnStep

\* What the web server does not see.
Unseen == Undisturbed /\ ConnStep
Visible == Write \/ Request \/ \E s \in Streams : AppWrite(s)

LEMMA MostUnseen ==
    ASSUME RegularTalks, FewFaults, AnswerInv, [Next]_vars, ~Visible
    PROVE  Unseen
<1>1. CASE ReaderStep
    BY <1>1, ReaderAnswer, ReaderParts DEF Unseen
<1>2. CASE AppStep \/ \E s \in Streams : AppFlush(s)
    BY <1>2, AppAnswer, AppParts DEF Unseen
<1>3. CASE WriterStep
    BY <1>3, WriterAnswer, WriterParts DEF Unseen, Visible
<1>4. CASE Cut
    BY <1>4, CutAnswer, OthersPart DEF Unseen
<1>5. CASE UNCHANGED vars
    BY <1>5, StillAnswer, OthersPart DEF Unseen
<1> QED BY <1>1, <1>2, <1>3, <1>4, <1>5 DEF Next, Visible

LEMMA CutStep ==
    ASSUME RegularTalks, FewFaults, FinalInv, [Next]_vars
    PROVE  CutInv'
<1>1. AnswerInv /\ (conn = "cut" => ~peer.ended)
    BY DEF FinalInv, CutInv
<1>2. CASE ~Visible
    <2>1. Unseen
        BY <1>1, <1>2, MostUnseen
    <2>2. peer'.ended = peer.ended
        BY <2>1 DEF Unseen, Undisturbed
    <2> QED BY <1>1, <2>1, <2>2 DEF Unseen, ConnStep, CutInv
<1>3. CASE Write
    BY <1>3 DEF Write, Writer, CutInv
<1>4. CASE Request
    BY <1>4 DEF Request, NewPeer, CutInv
<1>5. CASE \E s \in Streams : AppWrite(s)
    BY <1>1, <1>5 DEF AppWrite, peerVars, CutInv
<1> QED BY <1>2, <1>3, <1>4, <1>5 DEF Visible

LEMMA FinalInit == Init => FinalInv
BY AnswerInit DEF Init, FinalInv, CutInv

LEMMA FinalStep ==
    ASSUME RegularTalks, FewFaults, FinalInv, [Next]_vars
    PROVE  FinalInv'
BY AnswerStep, CutStep DEF FinalInv

-----------------------------------------------------------------------------
(* The steps of Response.                                                  *)

LEMMA ShownIs ==
    ASSUME FinalInv
    PROVE  /\ Shown = peer.shown /\ peer.shown \in [Streams -> Nat] /\ handed \in [Streams -> Nat]
           /\ peer.ended \in BOOLEAN
<1>1. peer \in Peers /\ ~peer.bad
    BY DEF FinalInv, AnswerInv, WriteInv, PeerSound
<1> QED BY <1>1, PeersAre DEF Shown, FinalInv, AnswerInv, FcgiInv, WriterInv

LEMMA ShownNext ==
    ASSUME FinalInv'
    PROVE  /\ Shown' = peer'.shown /\ peer'.shown \in [Streams -> Nat] /\ handed' \in [Streams -> Nat]
           /\ peer'.ended \in BOOLEAN
<1>1. peer' \in Peers /\ ~peer'.bad
    BY DEF FinalInv, AnswerInv, WriteInv, PeerSound
<1> QED BY <1>1, PeersAre DEF Shown, FinalInv, AnswerInv, FcgiInv, WriterInv

LEMMA UnseenAnswer ==
    ASSUME FinalInv, FinalInv', Unseen
    PROVE  [Promise!Next]_(Promise!vars)
<1>1. Shown' = Shown /\ handed' = handed /\ peer'.ended = peer.ended
    BY ShownIs, ShownNext DEF Unseen, Undisturbed
<1>2. CASE Answer = "open" /\ Answer' = "lost"
    <2>1. Promise!Lose
        BY <1>1, <1>2 DEF Promise!Lose
    <2> QED BY <2>1 DEF Promise!Next
<1>3. Answer' = Answer \/ (Answer = "open" /\ Answer' = "lost")
    <2>1. conn = "cut" => ~peer.ended
        BY DEF FinalInv, CutInv
    <2> QED BY <1>1, <2>1 DEF Answer, Unseen, ConnStep
<1>4. CASE Answer' = Answer
    BY <1>1, <1>4 DEF Promise!vars
<1> QED BY <1>2, <1>3, <1>4

LEMMA RequestOpens ==
    ASSUME FinalInv', Request
    PROVE  [Promise!Next]_(Promise!vars)
<1>1. peer' = NewPeer /\ handed' = [s \in Streams |-> 0] /\ conn' = "open"
    BY DEF Request
<1>2. Shown' = [s \in Streams |-> 0] /\ Answer' = "open"
    BY <1>1, ShownNext DEF NewPeer, Answer
<1>3. Promise!Open
    BY <1>1, <1>2 DEF Promise!Open, Promise!Nothing
<1> QED BY <1>3 DEF Promise!Next

LEMMA WorkingAnswer ==
    ASSUME FinalInv, wpc # "idle" \/ phase = "serve"
    PROVE  Answer \in {"open", "lost"} \/ Closed
<1>1. conn \in {"open", "cut"} /\ (conn = "cut" => ~peer.ended)
    BY DEF FinalInv, AnswerInv, StreamInv, LinkInv, FcgiInv, PhaseInv, CutInv
<1>2. conn = "open" /\ peer.ended => Closed
    <2>1. conn = "open" /\ peer.ended => (phase = "begin" /\ wpc = "idle") \/ Closed
        BY EndedLive DEF FinalInv, AnswerInv, StreamInv
    <2> QED BY <2>1
<1> QED BY <1>1, <1>2 DEF Answer

LEMMA WriteHands ==
    ASSUME FinalInv, FinalInv', NEW s \in Streams, AppWrite(s)
    PROVE  [Promise!Next]_(Promise!vars)
<1>1. phase = "serve" /\ UNCHANGED <<conn, peer>> /\ wpc = "idle"
    BY DEF AppWrite, Free, peerVars
<1>2. Answer \in {"open", "lost"}
    <2>1. Answer \in {"open", "lost"} \/ Closed
        BY <1>1, WorkingAnswer
    <2> QED BY <1>1, <2>1 DEF Closed
<1>3. Shown' = Shown /\ Answer' = Answer
    BY <1>1 DEF Shown, Answer
<1>4. PICK n \in 1 .. MaxHanded[talk][s] - handed[s] : handed' = [handed EXCEPT ![s] = @ + n]
    BY DEF AppWrite
<1>5. handed'[s] = handed[s] + n /\ handed[s] \in Nat /\ n > 0 /\ n \in Int
    BY <1>4, ShownIs
<1>6. handed'[s] > handed[s] /\ handed' = [handed EXCEPT ![s] = handed'[s]]
    <2>1. \A a, b \in Int : b > 0 => a + b > a
        OBVIOUS
    <2>2. handed'[s] > handed[s]
        BY <1>5, <2>1
    <2> QED BY <1>4, <1>5, <2>2
<1>7. Promise!Hand(s)
    BY <1>2, <1>3, <1>6 DEF Promise!Hand
<1> QED BY <1>7 DEF Promise!Next

LEMMA EndsWhole ==
    FcgiInv /\ LinkInv /\ WriteInv /\ conn = "open" /\ peer.ended /\ wpc = "write" =>
        \A s \in Streams : handed[s] = peer.shown[s]
BY EndedLive DEF Closed

LEMMA EndsWholeNext ==
    (FcgiInv /\ LinkInv /\ WriteInv /\ conn = "open" /\ peer.ended /\ wpc = "write" =>
        \A s \in Streams : handed[s] = peer.shown[s])'
BY EndsWhole, PTL

LEMMA WriteDelivers ==
    ASSUME FinalInv, FinalInv', Write
    PROVE  [Promise!Next]_(Promise!vars)
<1>1. FcgiInv /\ LinkInv /\ WriteInv /\ FcgiInv' /\ LinkInv' /\ WriteInv'
    BY DEF FinalInv, AnswerInv, StreamInv
<1>2. handed' = handed /\ Progress(peer, peer') /\ conn = "open"
    BY <1>1, WriteWrite
<1>3. UNCHANGED <<phase, conn>> /\ wpc = "write" /\ wpc' = "write" /\ pos < Len(Buf)
    BY DEF Write, Writer
<1>4. ~peer.ended
    <2>1. ASSUME peer.ended PROVE FALSE
        <3>1. Closed
            BY <1>1, <1>2, <1>3, <2>1, EndedLive
        <3>2. pos = Len(Buf)
            BY <3>1 DEF Closed, Buf
        <3> QED BY <1>1, <1>3, <3>2, InUse
    <2> QED BY <2>1
<1>5. Answer = "open" /\ Shown = peer.shown /\ Shown' = peer'.shown
    BY <1>2, <1>4, ShownIs, ShownNext DEF Answer
<1>6. \A s \in Streams : Shown[s] <= Shown'[s] /\ Shown'[s] <= handed[s]
    BY <1>2, <1>5 DEF Progress
<1>7. CASE peer'.ended
    <2>3. \A s \in Streams : handed'[s] = peer'.shown[s]
        BY <1>1, <1>2, <1>3, <1>7, EndsWholeNext
    <2>4. Shown' = handed
        BY <1>2, <1>5, <2>3, ShownNext
    <2>5. Answer' = "complete"
        BY <1>2, <1>3, <1>7 DEF Answer
    <2>6. Promise!Deliver
        BY <1>2, <1>5, <1>6, <2>4, <2>5 DEF Promise!Deliver
    <2> QED BY <2>6 DEF Promise!Next
<1>8. CASE ~peer'.ended
    <2>1. Answer' = "open"
        BY <1>2, <1>3, <1>8 DEF Answer
    <2>2. Promise!Deliver
        BY <1>2, <1>5, <1>6, <2>1 DEF Promise!Deliver
    <2> QED BY <2>2 DEF Promise!Next
<1> QED BY <1>7, <1>8

LEMMA PromiseInit == Init => Promise!Init
BY DEF Init, Promise!Init, Promise!Nothing, Shown, Answer, NewPeer

LEMMA PromiseStep ==
    ASSUME RegularTalks, FewFaults, FinalInv, FinalInv', [Next]_vars
    PROVE  [Promise!Next]_(Promise!vars)
<1>1. CASE ~Visible
    <2>1. Unseen
        BY <1>1, MostUnseen DEF FinalInv
    <2> QED BY <2>1, UnseenAnswer
<1>2. CASE Write
    BY <1>2, WriteDelivers
<1>3. CASE Request
    BY <1>3, RequestOpens
<1>4. CASE \E s \in Streams : AppWrite(s)
    BY <1>4, WriteHands
<1> QED BY <1>1, <1>2, <1>3, <1>4 DEF Visible

\* What the application writes is answered as Response promises: it reaches the web server
\* once and in order, and all of it before the end of the request does (FCGX_PutStr,
\* EmptyBuffProc, FCGX_FClose).
THEOREM AnswersArrive ==
    ASSUME RegularTalks, FewFaults
    PROVE  Spec => AnswersAsPromised
<1>1. FinalInv /\ [Next]_vars => FinalInv'
    BY FinalStep
<1>2. FinalInv /\ FinalInv' /\ [Next]_vars => [Promise!Next]_(Promise!vars)
    BY PromiseStep
<1> QED BY <1>1, <1>2, FinalInit, PromiseInit, PTL DEF Spec, AnswersAsPromised, Promise!Spec
=============================================================================
