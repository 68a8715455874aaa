------------------------------ MODULE MCRequest ------------------------------
(* Request for TLC: query strings over a few bytes, clients with two fields. *)
EXTENDS Request

\* a % & = 6 1: with them %61 is "a", %3 and %a& are broken escapes.
RawStrings == BoundedSeq({97, Percent, Amp, Eq, 54, 49}, 3)

Field(k, v, e) == [key |-> k, value |-> v, eq |-> e]
Fields == {Field(k, v, TRUE) : k \in {<<97>>, <<98>>}, v \in {<<>>, <<Eq>>, <<Percent>>}}
              \cup {Field(<<97>>, <<>>, FALSE)}
FieldLists == BoundedSeq(Fields, 2)

\* After the NUL comes another string.
Memory == {<<98, Eq, 98, NUL>>}
=============================================================================
