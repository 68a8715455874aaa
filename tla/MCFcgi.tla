------------------------------- MODULE MCFcgi -------------------------------
(* Fcgi for TLC: the requests of the web server.                           *)
EXTENDS Fcgi

R(type, id, data, pad) == [type |-> type, id |-> id, data |-> data, pad |-> pad]
Begin(keep) == R("begin", 1, <<0, keep>>, 0)

\* A request without a body; pairs are cut across records, records are padded.
Get == <<Begin(0), R("params", 1, <<1, 2, 3>>, 1), R("params", 1, <<4>>, 1),
         R("params", 1, <<>>, 0), R("stdin", 1, <<>>, 0)>>

\* One with a body that keeps the connection.
Post == <<Begin(1), R("params", 1, <<5, 6>>, 0), R("params", 1, <<>>, 0),
          R("stdin", 1, <<7, 8, 9>>, 1), R("stdin", 1, <<>>, 0)>>

\* One with management records, a second request, and records of that one.
Mixed == <<R("values", 0, <<0, 0>>, 0), R("unknown", 0, <<>>, 0), Begin(0),
           R("params", 1, <<1, 2>>, 0), R("begin", 2, <<0, 0>>, 0),
           R("values", 0, <<0, 0>>, 1), R("params", 2, <<3, 4>>, 1),
           R("params", 1, <<>>, 0), R("stdin", 1, <<>>, 0)>>

\* One in a role the library does not know, and one without a number.
Alien    == <<R("begin", 1, <<1, 0>>, 0), R("params", 1, <<>>, 0)>>
Nameless == <<R("begin", 0, <<0, 0>>, 0), R("params", 0, <<>>, 0)>>

\* One that comes after a management record with content the library does not expect.
Strange == <<R("unknown", 0, <<0, 0>>, 0)>> \o Get

AllTalks == << {Post, Mixed}, {Get, Alien, Nameless, Strange} >>
Handed == [t \in AllTalks[1] \cup AllTalks[2] |->
              IF t = Post THEN [err |-> 1, out |-> 3] ELSE [err |-> 0, out |-> 2]]

\* All but that one are what the theorems of Fcgi_proof and FcgiAnswer_proof are about.
ASSUME TalksAreRegular ==
    \A n \in 1 .. Len(AllTalks) : \A t \in AllTalks[n] \ {Strange} : Regular(t)
=============================================================================
